# hyprv in TLA+

hyprv is a tabbed Hyper-V manager for Windows: one process, the app, shows the
machines of the host and their consoles; every console is an `rdphost.exe`
child that hosts the Remote Desktop ActiveX control and whose window floats
over the tab. This directory models the parts of it whose difficulty is in the
order of things (threads, callbacks, timers, two processes, a disk, calls to
Hyper-V that answer late or fail half-way), checks them with TLC on small
instances, and proves the central invariants with TLAPS for all instances.

File names below are relative to `src/src/` unless they start with `docs/`.

## 1. The system

### How the parts talk

```
 user ──► XAML UI thread ───────────────────────────────────────────────┐
          MainWindow (tab strip, dialogs)                                │
            │ selects, suppresses, closes          ▲ NotifyChanged ticks │
            ▼                                      │ (dispatcher queue)  │
          VmTabPage ── RdpHostClient ◄─ rx thread  │                     ▼
                          │  ▲                  VMManager            Settings
                   pipe   ▼  │ pipe             ├ poll thread        └ save thread
                      rdphost.exe               ├ job watchers,           │
                      ├ STA (ActiveX)           │ revert workers          ▼
                      ├ rx thread               ▼                    settings.json
                      └ sender thread        WMI / Hyper-V
```

Three kinds of concurrency meet. The UI thread runs one handler at a time, but
what it runs is queued by other threads, so a handler may find a world that has
moved on since it was queued. The app's own background threads (poll, watchers,
save) share tables and condition variables with it. The child is a process of
its own with three threads and one pipe.

### The components

State, operations, what is hard, and what makes each correct. "Module" says
what models it; `PROJECT.json` has the same list with the exact sources.

**VM tab session** (`app/VmTabPage.xaml.*`). *Module VmTab.* State: the client,
whether the session is connected, ever was, ever was enhanced; the error
latch and the count of failed attempts; the pre-connect and start-requested
latches with their time-outs; the enhanced cool-down; the reconnect timer; the
placeholder; what the popup window shows and why not. Operations: Start,
Retry, the tick of the VM list, the timer, the child's events, layout,
selection, dialogs' suppression, settings changes, close. Hard: events of a
child already replaced, ticks with stale states, timers outliving their reason or
started again before they fire. Correct: a popup is only ever over its own live
session; a running VM gets a session in the end and a dropped one is taken up
again; a console that never accepts one is given up; a closed tab owns no
process.

**rdphost client in the app** (`app/rdp/RdpHostClient.*`). *Modules VmTab,
RdpChild.* State: process and pipe handles, the rx thread, the child's window.
Operations: spawn with synchronous handshake, send, dispatch of received
messages, Stop. Hard: it lives between two processes, and its writes wait for the
other one's reader. Correct: Stop returns and leaves no child.

**rdphost child** (`rdphost/*`). *Module RdpChild.* State: three threads, the
outbound queue, the logger pointer, two locks and the queue's mutex, two stop
flags. Hard: a log line is a message, so almost anything may write on the
pipe; shutdown takes threads down that are using what is taken down. Correct:
the handshake comes first, frames never mix, events keep their order, no child
outlives its app.

**Pipe protocol** (`shared/RdpIpc.h`, `docs/IPC.md`). *VmTab, RdpChild*: the
kinds and the orders their senders guarantee.

**VMManager, connecting and polling** (`app/vm/VMManager.*`). *Module VmPoll.*
State: the cached list, connection status, poll generation, request and
serviced counters. Operations: TryConnect, RetryConnect, the poll loop,
KickPollAndWait, notifications. Hard: a wait satisfied by a cycle that began
too early; a failed cycle that counts. Correct: after a served wait the cache
is as new as the caller's edit; a VM missing from the list has been deleted.

**VMManager, state changes and snapshots.** *Module VmPending.* State: one mark
per VM for an operation under way, copied into the row the UI shows. Operations:
start, turn off, save, shut down, take, apply and delete a snapshot; a watcher
or worker thread each. Hard: two operations share a mark; poll and watcher
both clear it; the waits of a watcher end before the job does. Correct: rows agree
with marks, marks end, a revert does not leave behind the machine it took down.

**VMManager, configuration edits; create and destroy; the New VM dialog.**
*Module VmEdit.* State: nothing of their own but the watcher of a destroy job;
what they change is Hyper-V's. Operations: attaching, creating and detaching
disks, DVD drives and media, controllers, network adapters and their features,
security settings, CreateVM with what the wizard chose, DestroyVM. Hard: an edit
is several calls, each of which Hyper-V may do at once, refuse, or turn into a
job, and any may throw. Correct: an edit that reports success has been applied;
an attach that fails leaves nothing behind; a created machine is complete; disk
files go after the machine that uses them, and only then.

**VM settings dialog** (`app/VmSettingsDialog.xaml.*`, opened by
`app/ui/VmTileFactory.cpp`). *Module VmSettings.* State: what was loaded, what is
shown, rows and queues of devices, the Save under way. Operations: load, edit
what the machine's state allows, queue, add and remove controllers at once, Save,
cancel. Hard: what is shown is not what was loaded; a Save is a list of setters
that fail one by one; the machine changes beside the dialog. Correct: a dialog
that Save has closed has applied what it showed and nothing else.

**WMI layer** (`app/wmi/*`). Wrappers and generated code; a call returns, is
refused or throws where the models use it. *VmEdit* has what a method's Job
reads as.

**Settings** (`app/settings/*`). *Modules SettingsStore, Preferences.* State:
the cache, the dirty flag, the shutdown flag, the file. Operations: setters,
save loop, SaveNow, destructor, load. Hard: a flag and a notification outside
the lock; a disk that fails. Correct: nothing changed is forgotten, nothing
saved is lost.

**Main window and tab strip** (`app/MainWindow.xaml.*`, `app/ui/WindowManager.cpp`,
the welcome page's "replace on open", the dialogs' suppression scopes). *Module
TabStrip*; what a window does to one tab's session is in VmTab. State: the
windows, each with its strip, selected tab, depth of dialogs and perhaps a tab
to adopt; a tab's page; the tab being dragged; the saved list. Operations: open,
close, replace, select and reorder tabs, tear one out, drop it into another
window, close a window, open and close dialogs, restore at launch. Hard:
SelectionChanged comes after the change; a drop is carried out on a later turn;
ticks and error boxes come in between; the rules differ for the primary and the
other windows. Correct: the saved list is the primary's strip and comes back at
the next launch; a running session is in one window; no window is left empty;
the popup shown is the selected tab's.

**Remote host tab, remote host dialog, welcome page, app settings page, confirm
dialogs, tiles and menus.** Not modelled except for the gates of the power items
(VmPending), the welcome page's view of the list (VmPoll) and replace-on-open
(TabStrip), and what the dialogs do to the strip (TabStrip).

**Build, packaging, the WMI generator, docs.** Not part of the running program.

The hazards (what is hard to test, and at which line) are listed in
`PROJECT.json` under `hazards`, each with the properties that cover it.

## 2. The modules

| module | models | actions are | extended by |
|---|---|---|---|
| `VmTab` | one tab, its client and child as seen by the UI thread | one UI handler, run to its end | `VmTab_proofs` |
| `TabStrip` | windows, strips, tear-out, dialogs' cover, restore, the saved list | one UI handler, run to its end | `TabStrip_proofs` |
| `VmPoll` | poll thread, waiting callers, ticks, tabs of deleted VMs | one access to shared state | `VmPoll_proofs` |
| `VmPending` | marks, watchers, workers and the poll's merge, for one VM | one locked section or WMI call | `VmPending_proofs` |
| `Preferences` | what Settings promises (abstract) | Launch, Change, Save, Crash, Exit | – |
| `SettingsStore` | setters, save thread, file; implements `Preferences` | one locked section | `SettingsStore_proofs` |
| `RdpChild` | the child's threads, locks and pipe, and the app's Stop | one lock, test, write or wait | `RdpChild_proofs` |
| `VmEdit` | one edit of a machine, Hyper-V's jobs, the destroy watcher | one WMI call | `VmEdit_proofs` |
| `VmSettings` | the settings dialog, Save, the controllers' coroutines | one click, or one setter | `VmSettings_proofs` |

Each module's first comment says what its variables stand for. The names are
the source's where TLA+ allows it; `PROJECT.json` maps every definition to its
lines. Definitions commented "Mutation" are plausible bugs of the definition
below them; nothing in the model uses them.

### VmTab

`page` is the VmTabPage object; `host` in it is the client together with what
its child is doing (`failed`: ConnectLocalVm returned false; `exited`: the
process died). The tab's handlers call each other a great deal, so each is an
operator from a page to a page, composed as in the code: `OnVmManagerChanged`
ends in `UpdatePlaceholderAndClient`, which may call `StartConnection` or
`TearDownClient`. `uiq` is the dispatcher's queue: `HostEvent` (the client's rx
thread) and `Poll` (the poll thread) append, `Dispatch` runs the head. A queued
event carries no identity of its client, exactly as the lambdas in
`VmTabPage.xaml.cpp` do, so an event of a dead child reaches its successor. A
timestamped latch is `no`, `fresh` or `expired`. `life` says whether the tab is
in the strip, closed but retained by the tab cache, or gone. The VM is what
`VMManager` has cached: missing, stopped, under a job, changing state, running.
The reconnect timer has a delay (`reconnectIn`), which every `ScheduleReconnect`
starts anew, as does the poll thread's wait (`untilPoll`); `Elapse` is a unit of
time for both. `Poll` is the end of the wait; `Kick` any other notification (a WMI
event, an operation that has ended, a mark). Time does not pass a due timer; a due
poll may be late by as much as it likes.

### TabStrip

`ui` is everything the handlers share: the windows, their strips, the pages (a
tab's `tag`; None once closed), which pages' children have not been shut down,
what each popup is asked to show and whether it is suppressed, the saved list.
As in VmTab, handlers are operators from one `ui` to the next and call each other
as in the code: `ReplaceTabWith` opens, closes and selects, `CloseTabItem` may
open a welcome tab or close the window. Around `ui` stand the queue's delays:
`raised` in it holds the windows whose SelectionChanged is still to come, `adopt`
the tab a torn-out window takes when it is activated, `later` the work a drop or
a tile has put off to the next turn (the window is held weakly, the tab
strongly, as by the lambdas), `drag` is g_dragItem. `Becomes` ends the process
with its last window. The saved list is here what Settings has been given; when it
reaches the disk is SettingsStore's subject, and a crash is taken to come after
that.

Choices of the model. A person is slower than a turn of the dispatcher: gestures
begin when nothing is owed and no drag is in hand, but ticks, error boxes, polls,
crashes and activations come at any moment. The neighbour that inherits the
selection, when SelectionChanged comes, what a reorder reselects and that the
last window ends the process are the framework's. A closed tab's child is taken to
be gone (VmTab_closed_respawn shows when it is not). "Keep home tab open" is the
plain open.

### VmPoll

`poller.pc` walks the loop: setup of its own WMI scope, take the request, read,
publish the list, notify, bump the generation, publish the request served,
wait. The one-second wait may end at any time, so a kick is not a variable: it
only makes it end sooner. A caller edits the host, registers a request and
waits until it is served or times out. `host` has a revision, so "fresh" can be
said. A tick closes the tabs of VMs missing from the cache once `polled`. Two
history variables (`goodServiced`, `known`) record the last request served by
a cycle that really read, and the VMs that have been in the cache.

### VmPending

`pending` is the VM's entry in `m_pendingStateChange`, `cache` its row. An
operation goes from `invoked` or `launched` (the WMI method has been called, the
mark not made: the UI thread is between two statements) to `watching`; a revert
goes through save, wait, apply, wait and resume in its worker. The job an operation
has started is beside its thread (`job`): it goes on when the thread has stopped
waiting for it (after 60 s, on an exception, or when it is not found), and one
without a path is not waited for at all. While it runs the VM may be "Changing",
any state in transition. `ClearPendingStateChange`
erases the VM's entry whoever made it, as the code does. The poll reads the
state, then merges the marks under the lock, in two steps. Time is the age of
the operation's mark: below kMinPendingBlink, above it, above the 60 s net.
The waits of a revert's worker may end at any time.

### SettingsStore and Preferences

The content of the cache and the file is the set of changes made; `m_lock`
makes each change and each write one step. `saver` is the save thread's place,
with a place of its own (`tested`) between the predicate and the sleep. The
refinement takes `mem` to the changes in effect and, when everything that is in
the cache will still be written before an exit, agrees with Preferences step by
step: a write is `Save`, the end of the destructor is `Exit`, the end without
one is `Crash`.

### RdpChild

`at[t]` is a thread's place in its own code, `call[t]` the nested call it is
in: HyprvLog takes the log mutex, tests the logger, and sends; Send takes the
send mutex and writes header and payload separately; SendRaw writes once. The
STA boots, writes HwndReady, starts the reader, sets the logger, pumps, and
shuts down in the code's order. The sender sleeps on the queue's condition
variable. The parent is a handful of actions: the end of the handshake, Stop,
its write of the Shutdown, which waits for room on the pipe (`PipeRoom` messages
besides the one the reader has in hand) or fails when the pipe is broken, the
termination after kShutdownWait, a crash, which kills the child when it is
in the job and breaks the pipe in any case.

### VmEdit

A machine is a tree of things (the system, controllers, drives, media, ports,
connections, features, security settings), each absent or with a value; what
Hyper-V does is one rule each: `Accepts` (a parent must be there, a thing is added
where it is absent and changed where it is present, a medium needs its file, a
controller that is removed must be empty) and `Applied` (which removes with a
thing all that is part of it, and drops a change of security settings when there is
no key protector). `Invoke` is a call with its outcomes: applied, a job started,
refused, failed, thrown. `op` is the edit and its next call, `plan` the edits a
CreateVM still has to make; `call` is the caller's request with its `goal`, the
things that are to have which values. The initial machines are any that the edits
may meet, not only those hyprv makes: a drive without a disk, a port without a
connection.

`JobIsRead` is what the code does with the Job a method hands out: it reads a path
with GetObject, gets nothing, and waits for nothing. One definition stands for
that, so that the other properties can be stated beside it.

What a call met, other than success at once, is in `hit`, by step of the edit; so is,
as a change by others, a job or a deletion that an earlier edit left to Hyper-V when
the next one begins. The properties say after which of these they hold.

Choices of the model. Hyper-V applies what a job was asked for as a whole, or not at
all. Calls that only read do not fail. Nothing is created while the watcher of a
deletion still runs: a new machine that takes over a disk of one being deleted is
left out.

### VmSettings

A setter is the set of fields it writes, all at once, with those of them Hyper-V
takes only while the machine is off (`Setters`); the rest of the dialog is written
in terms of them, in the order of the code. `form.orig` is what was loaded,
`form.shown` what the controls show; `Nearest` is what a control shows of a value
it has no position for, `Baseline` what Save compares with: what was shown, for the
fields of `ShownBaseline`, and what was loaded, for the others. A field of the
others that holds a value its control cannot show is a change nobody made
(`Unshown`). `rows` is the storage
page: controllers and drives as they were read, marks for removal, the queue of
devices and the places they take. `saved` is what the click on Save took from the
form and the tasks it still has to do; the sets hold the UI thread, but not other
tools. `pending` is the coroutine of a controller added or removed beside the form.
`ghost` and `behind` are history: what the user touched, whether another tool came
in between, whether an earlier Save failed.

Choices of the model. Several adapters, drives, ports and services of a kind stand
in one field each for their kind, as the code loops over them alike. Other tools
change settings and the power state, not drives. The registry of what a field may
hold is two values the user may set ("user", "blank"), one that was there, one that
others set, and "odd", which the control cannot show.

## 3. What is checked

A passing run checks every interleaving of its instance. A run marked ✗ states
something the repository says and shows that the code does not keep it;
`findings` in `PROJECT.json` quotes the line. The type invariants of VmTab,
RdpChild, VmPoll, VmPending and SettingsStore are proved for every instance
(section 4) and need no run.

**VmTab_safe** (PopupOnlyWhenWanted, ErrorLatchHolds, PageAgreesWithChild,
TickKeepsPreconnectedChild). Over all states of the VM and every
order of two queued items with clicks, dialogs, tab switches, layout and
time-outs: the popup is on screen only when the tab, the dialogs and the session
allow it, no wish to show it is lost and it ends up over its border; error view,
placeholder and child agree; a stale tick does not kill the child a Start has
connected in advance.

**VmTab_live** (SessionsComeUp, BasicSessionUpgrades, FailuresEscalate). With
enhanced sessions available and the timer's delays measured against the poll's
period: a dropped session is recovered; a running VM is connected; a basic session
is upgraded although every tick stops the timer that upgrades it and starts it
again (with a delay longer than the period, which is the mutant, it never is); and
a tab that has never connected to a VM that keeps running does not see fatal
failures for ever, however its children come and go, unless the user keeps asking.

**VmTab_closed_respawn** ✗ (ClosedTabHasNoChild). A reconnect timer or a queued
event that outlives ShutdownClient spawns a child for a closed tab.

**VmPoll** (ServedIsFresh, AutoCloseSparesKnown, DeletedTabsClose, LaunchSettles).
Two callers wait for polls whose set-up and reads may fail, expire and overlap with
edits: a wait served by a cycle that read the host leaves a fresh cache; a VM seen
once keeps its tab until it is deleted, and then loses it; VMs appear and the
spinner ends.

**VmPending** (BlinkAgrees, MarkLasts, RevertResumes, BlinkEnds). Two overlapping
operations of any two shapes (start, shutdown, snapshot, revert), with jobs that
hang, fail or outlast their waits, deaf guests and throwing WMI calls:
rows agree with marks, blinks last their minimum and end, labels last as long as
their operation unless another operation's watcher ends them. A revert that went to
save a VM does not end, but for an exception, without asking for its restart when
the VM is off or saved by then; or else the VM runs, or it is in transition and the
user was told, or another operation is moving it.

**TabStrip** (TypeOK, SavedIsStrip, SessionsOwned, WindowsShowSelected,
RestoreKeepsTabs, UncoveredByLastDialog). Two windows: whatever comes between a
gesture and the turn that carries it out, the saved list is the primary's strip and
selection, a running session is in one place of one window, no window is left
without a selected tab and the popup it shows is that tab's, a launch brings the
saved tabs back, and a popup covered for a dialog is uncovered by the last dialog
of its window.

**SettingsStore** (NothingForgotten, Implements, ExitCompletes). Every
interleaving of setters, save thread, SaveNow, exit, crash and relaunch, with
writes that fail: a change not in the file will be written, or its write has
failed; the whole implements Preferences, hence what is saved stays; the
destructor ends.

**SettingsStore_missed_wakeup** ✗ (DebouncedSave). A notification between the
save thread's test and its sleep is missed: the change stays unsaved until the
next one or the exit.

**RdpChild** (HandshakeFirst, FramesWhole, QueuedInOrder, StopReturns,
EventsArrive). Nothing precedes HwndReady, frames never mix, queued events keep
their order and arrive, Stop gets its Shutdown on the pipe whichever of the child's
threads wait for each other, returns, and leaves no child.

**VmEdit** (TypeOK, PromptTrueIsApplied, AttachIsAllOrNothing, CreatedIsComplete,
FilesOutliveVm). One edit of any kind on a machine in any configuration, with one
fault or one change by another tool at any point of it, and jobs that end early,
late or with an error: when every call was answered at once, success means done;
an attached disk is linked or its drive is gone again; a machine created without a
fault has everything, and boots from its image; a disk file is there as long as a
machine uses it.

**VmEdit_unawaited_job** ✗ (TrueIsApplied). An edit returns TRUE while its job
still runs: the Job is read as an object and is a path, so WaitForJob, written for
this very case, waits for nothing.

**VmSettings** (TypeOK, ClosedMeansApplied, QueuedPlacesDistinct,
RdpChangeReconnects, UneditedKept, ReopenShowsSaved). Two edits of any kind, a Save
and perhaps another, and one trouble (a setter that fails, a poll that is late, a
change by another tool) in all machines and at all times: a dialog closed by Save
has applied what it showed; what the user did not touch is not written, also where
a control cannot show it, unless Save compares it with what was loaded (a switch
that is not listed is such a value in this run); queued devices have places of
their own; the session has the RDP options that are stored once the dialog is gone;
a dialog opened next shows what was saved.

Every property of a passing run is violated by at least one mutant of the code
(`mutants` in `PROJECT.json`; the mutated definitions stand in the modules).

### Other disagreements met while modelling

The models show most of these too (the states and steps are there); no run is spent
on them, and the properties above are stated so as to say what holds all the same.

*Sessions and the child.*

- A queued Connected event carries no identity of its client
  (`app/VmTabPage.xaml.cpp:1032`): after a tear-down and a respawn it marks the
  successor connected and shows the popup of a child that is still connecting.
- OnConnected shows the popup although the border has no layout yet
  (`VmTabPage.xaml.cpp:1074`, against `VmTabPage.xaml.h:172`); the layout
  corrects it.
- TearDownClient leaves the reconnect timer armed (`VmTabPage.xaml.cpp:376`): it
  may stop the healthy session that has replaced the dropped one.
- A child that dies without a Disconnected is never replaced
  (`VmTabPage.xaml.cpp:1331`).
- Once a tab has been connected, fatal connect failures are not counted
  (`VmTabPage.xaml.cpp:1243`, against `docs/IPC.md:100-103`, which counts every
  attempt that never reached Connected), and drops that are not fatal are counted
  for no tab: both are retried for ever. Hence `neverUp` in FailuresEscalate, and the
  proved FailureBound is only about the counter.
- A Connected event of an older child lifts the latch of a connect error
  (`OnConnected` forgets it): the next tick spawns a child again, without the user.
  ErrorLatchHolds says what holds while the latch is set.
- Stop's write of the Shutdown has no time-out (`rdp/RdpHostClient.cpp:770`): the
  UI thread would hang on a full pipe of a child whose reader does not run at all
  (suspended, or in a debugger). StopReturns assumes that its threads are scheduled.
- The logger is cleared while another thread may be between its test and its use
  (`rdphost/main.cpp:341`): the child can die of a log line as it shuts down.
- The child reports a broken pipe on the broken pipe, and the failed write logs
  again with the log mutex held (`rdphost/IpcClient.cpp:110`, `main.cpp:35`);
  Stop's CancelIoEx may come between the reader's test and its read
  (`IpcClient.cpp:191`); the pipe is closed under a running sender thread (197);
  StopSenderThread notifies without the mutex (`rdphost/RdpHost.cpp:213`). In
  each case the app's Stop ends with a termination after two seconds, which is
  what StopReturns checks; when the app has crashed and the child is not in its
  job, nobody does.
- Callbacks of the control end with a log line, that is, a write on the pipe
  (`RdpHost.cpp:237`, against 171).

*The list of VMs and their states.*

- A failed first cycle counts as the first snapshot (`app/MainWindow.xaml.cpp:2408`,
  against the comment at 2404): the next tick closes the restored tabs of VMs that
  exist. AutoCloseSparesKnown therefore speaks of VMs that have been in the cache.
- A poll thread whose set-up throws ends without a notification, and the spinner
  never ends (`app/vm/VMManager.cpp:5718`, against 5737); one that found no
  management service never looks again (5711); a cycle that failed to read
  serves the waiting callers (5766, against 1661).
- The clear of a mark does not look whose mark it is (`VMManager.cpp:1502`,
  against `VMManager.h:938` and `VMManager.cpp:1337`): hence ClearedByAnother in
  MarkLasts.
- A WMI exception while a snapshot is applied skips the resume
  (`VMManager.cpp:1964`, against 1800): the operation is then "thrown", not
  "holding", and RevertResumes does not speak of it.
- A save that outlasts the waits (1906, 2544) goes on, and the resume looks at the VM
  once (1953): if it is still being saved then, nobody starts it, and it ends saved.
  The user is told that it "didn't finish saving". Whether the restart is granted, and
  what becomes of its job, is not looked at (1959).

*Windows and tabs.*

- A tab suppressed by an error box that opens between a drop and the turn that
  carries it out stays suppressed in its new window (`MainWindow.xaml.cpp:3027`,
  against `MainWindow.xaml.h:317`): the dialog that closes in the old one does not
  reach it.
- A drop put off past a tick that closed the dragged tab adds the dead tab to a
  strip, without a page (`app/MainWindow.xaml.cpp:1745`, against "moves INTACT",
  1351). A tab without a page is in no saved list.
- CloseTabItem, called through replace-on-open for a tab that is no longer in
  this window, clears its page all the same (2336, against
  `MainWindow.xaml.h:182`).
- The saved position is applied to the restored strip, which is shorter when a
  host has been forgotten: another tab is selected (993, against 2189).
- A reorder is saved only by the next handler that saves (against
  `MainWindow.xaml.h:223`): hence `reordered` in SavedIsStrip.
- A VM or host can be open in two windows at once: "already open" looks at one
  window, and forgetting a host closes its tab in one window.

*Settings of the program.*

- A failed background write has cleared the dirty flag
  (`app/settings/Settings.cpp:789`): the exit does not flush it, and Life in
  SettingsStore counts such an exit as a crash. A short write still replaces
  the file (1399), and a file that cannot be opened counts as a first launch
  (802): both are in the model as faults ("torn", "unread") which the run does
  not switch on.
- The settings page restarts the program by starting the new process first
  (`app/AppSettingsPage.xaml.cpp:1074`): for a while two of them own the file.
  Not in the model.

*Edits of a machine.*

- Since no edit waits for its job (the finding of VmEdit_unawaited_job), a job
  that fails looks like a change that was accepted. Several entries of
  `docs/GOTCHAS.md` (7, 16, 26, 27, 30) report Hyper-V accepting a change and
  doing nothing; a job that failed unseen is one way to get that.
- An edit that throws between its calls leaves what it has made: a drive without
  a disk, a port without a connection; a new drive that is not found the second
  time is left too (`VMManager.cpp:4183`, against GOTCHAS 23).
- CreateVM that throws returns no GUID, though the machine exists: the dialog
  reports a failure and the machine stays (2258).

*The settings dialog* (`app/VmSettingsDialog.xaml.cpp`).

- Adding a SCSI controller holds no deferral (2362): Save can be clicked while it
  is pending, and its end (2401) takes away the overlay of the Save, which "covers
  the whole dialog body so clicks can't reach the form"
  (`VmSettingsDialog.xaml:78`). What is edited then is lost when the dialog closes.
- After a Save that failed in part, what was loaded is not refreshed: an applied
  edit that is undone counts as no change (3245); queued adapters are added
  again, queued devices are attached again, which fails, so that such a Save can
  never close. Hence `retried` in ClosedMeansApplied and QueuedPlacesDistinct.
- Values that a control cannot show, and that Save compares with what was loaded,
  are written over by a Save that touched nothing: the switch of an adapter that is
  not in the list shows as "(Not connected)" (791-808) and its name is the baseline
  (1322, 2986-2999), so that the adapter is disconnected, against 794-795, which
  leaves the choice to the user; line ends of notes that the box normalises (2672);
  VLAN ids out of range (3042-3068); RDP options of which a box has no position,
  which also reconnects the session (against 2601). Hence `saved.unshown` in
  UneditedKept.
- An emptied checkpoint location is not written, and nothing says so
  (`VMManager.cpp:2850`); an emptied paging location fails the Save (2823).
- The gates follow the state the poll had when the dialog opened (287): a machine
  saved or started since takes fewer settings, and what it does not take is
  reported as done. Hence `power = form.power` in ClosedMeansApplied.
- Each group is written whole: it brings back what another tool has changed in it
  since the dialog was opened. Adding or removing a controller discards the edits
  of the drives' rows (1591).
- When the read of the memory or processor settings fails, the form shows
  defaults, and an edit beside them stores those (`VMManager.cpp:4592`). A number
  box that is emptied is cast from NaN (2680). Neither is in the model.
- A device queued without a slot is placed by Save, before the removals: a DVD drive
  may take a slot that a queued disk was given. Hence ClosedMeansApplied speaks of
  removals only when every queued device has a slot.

### Bounds and why they are enough

- *VmTab.* `MaxQueue` bounds queued items: 2 gives every ordered pair of
  events, hence an event of a dead child with one of its successor in front
  or behind it. The liveness run uses 1: what it asks is whether the last word
  is ever lost. `MaxConnectFailures` (4 in the code) is 2, which
  distinguishes the first failure from the last. The safety
  run takes all VM states and basic sessions, the liveness run enhanced ones. Its
  times are in half seconds, rounded up: the poll's second is 2, an upgrade waits 1
  (250 ms), a retry 2 (700 ms), an enhanced retry 4 (2 s). In the safety runs all
  are 0, that is, a timer may fire and a poll come at any moment. In the liveness run
  the user only selects the tab and clicks Start and Retry (`UserActs` is empty).
- *TabStrip.* Two windows, since a tab has one source and one destination; three
  tabs, the fewest with which one window keeps a neighbour and a pending tab; one
  VM, one host and the two pages without a session; two dialogs at a time in any
  two windows, in one or in each. No dialog opens while the button is held: it commutes with what may
  happen until the drop, and opens then. Room for a tab (`Room`) is asked for where
  one may be added. Tabs are symmetric.
- *VmPoll.* One VM (they do not interact: the list is published whole), two
  callers, whose requests may be served together or apart, three revisions of
  the host (the state before, an edit, a change after it), one queued tick.
- *VmPending.* One VM, since marks are per VM; two operations, since a third only
  repeats what the second does to the first. Of the kinds the run takes one of each
  shape: start stands for the power operations (with a watcher), shutdown has no
  job to watch, snapshot has a label, revert has a worker; turning off and saving
  differ from start in the state they lead to, and that of saving is reached by
  reverts.
- *SettingsStore.* Three changes and launches: one saved, one marked, one
  being made.
- *RdpChild.* Two events, the fewest that have an order. The pipe to the child takes
  one message (`PipeRoom`; 64 kB in the code): a Connect not yet read leaves no room
  for the Shutdown. The app's other messages, which the reader takes one by one as it
  takes Connect, are left out.
- *VmEdit.* One edit (`MaxEdits`): edits run one after the other on the UI thread,
  and the machines of Init are those earlier edits, or other tools, may have left;
  what a second edit meets besides is an earlier one's jobs, which the theorems of
  section 4 cover for any number of edits.
  CreateVM is one edit of up to seven. One fault or change from outside per edit
  (`MaxFaults`); two jobs at a time (`MaxJobs`), the second started while the first
  still runs. Two slots per controller (2 and 64 in the code), one controller of
  each type, one of each file. The ✗ run needs one job.
- *VmSettings.* Two edits (`MaxEdits`), an edit and one that depends on it, or
  spoils it; a Save after a failed Save counts as one. One trouble (`MaxTrouble`):
  each property speaks of what a single failure or change does. Eleven edited
  fields stand for the shapes the setters have: a text, a number, one locked while
  the machine runs, the shielding group, a text that may be emptied (ignored or
  refused), a medium, an adapter's, the program's own; three that may hold values the
  form cannot show, two compared as shown and one as loaded; two that other tools
  change. Two SCSI controllers, so that one
  may come or go beside a queue for the other; two slots.

`CHECK_DEADLOCK FALSE` stands where the system really ends: the process has
exited (RdpChild, SettingsStore), every operation or edit is over (VmPending,
VmEdit), the host changes no more within `MaxRevision` and the thread was stopped
or its setup failed (VmPoll), the tab is released (VmTab).

### Fairness and why the code justifies it

- *VmTab, FairSpec*: weak fairness of Dispatch (the message loop runs), of
  ReconnectTick (a due timer fires), of Poll (the poll thread's loop) and of
  Elapse (time goes on); and that notifications out of turn end at last (`Kick`: a
  WMI event, an operation the user has started). They may start the timer again, and
  an unending burst of them, less than 250 ms apart, would starve an upgrade; the
  poll's own ticks, which never end, are what is checked. Nothing is assumed of the
  child: a liveness property asks for a client, not for a connection.
- *TabStrip*, *VmEdit* and *VmSettings* check safety only and assume no fairness:
  Hyper-V owes the end of a job to nobody, and the waits of the code are timed.
- *VmPoll, LiveSpec*: weak fairness of the poll thread, the callers' returns
  (timed waits) and the UI's ticks. DeletedTabsClose and the second half of
  LaunchSettles ask besides that reads do not fail for ever (ReadsSucceed, their
  hypothesis).
- *VmPending, FairSpec*: the poll runs, watchers and workers run (their waits are
  timed), and time passes. Jobs need not end.
- *SettingsStore, FairSpec*: both threads are scheduled and timed waits end;
  neither changes nor an exit need happen.
- *RdpChild, LiveSpec*: each thread of the child is scheduled, the handshake
  and Stop go on (its write ends when there is room or the pipe is broken), and the
  two-second wait of Stop ends in a termination. A
  mutex is taken when it is free: the weak fairness is per thread, not per lock.

## 4. What is proved

The `_proofs` modules hold theorems that TLAPS checks for every value of the
constants.

**VmTab_proofs.** `TypeCorrect`, `PopupSafety` (PopupOnlyWhenWanted),
`ErrorLatchSafety`, `FailureBound` (the counter is below kMaxConnectFailures unless
the error is latched). Handlers are operators on pages, so the
proof is one lemma per operator (it preserves the page's type, the popup's
discipline, the latch, the bound) and one step per action that composes them.
PopupOnlyWhenWanted is not inductive by itself: it needs that a page without a
client shows nothing and that a suppressed page shows nothing. `PageAgreement`
(PageAgreesWithChild) assumes that a spawn makes a client (`"none" \notin
SpawnOutcomes`: `rdphost.exe` lies beside the program; without it a page with no
child and no error says it is connecting). The property speaks of a drained queue,
so its invariant, `Agreed`, says what is owed while there is work: a live session
the page does not know of, or does not show, has its Connected still to come, and no
drop after it (`Told`); and a page fits its child whatever is queued (`Fit`).
`PreconnectedChildKept` (TickKeepsPreconnectedChild) follows from `IInv` step by step.

**VmPoll_proofs.** `PollTypeCorrect`, `ServedFreshness` (ServedIsFresh),
`KnownTabsSpared` (AutoCloseSparesKnown). The inductive `FreshInv` relates the
request a cycle serves to the revision it will publish: a request taken
before the read is answered by a snapshot no older than the edit that made it.

**VmPending_proofs.** `PendingTypeCorrect`. `BlinkAgreement` (BlinkAgrees): marks
and rows change together, and a mark is only made by an operation that has begun.
`RevertAlwaysResumes` (RevertResumes): a worker owes a start only after it has
looked at the VM, and every way out of it but an exception leads through the
resume, which looks at the VM again (`WorkerOK`); if it is in transition, a job moves
it (`ResumeInv`), and one of the worker's own that runs on beyond the wait for it has
been reported. The theorem does not say that the restart is granted, nor that a VM
whose save ends after the waits is restarted: it is not. `MarksLast` (MarkLasts) is a property of steps: whatever erases a mark, it is
no longer young, and a labelled one has its operation through, has expired, or is
erased by another operation's watcher.

**SettingsStore_proofs.** `StoreTypeCorrect`; assuming that a write that fails
leaves the file alone (`SoundDisk`), `NoChangeForgotten` (NothingForgotten) and
`StoreImplements`: the detailed specification implements Preferences. Every step is
shown to map to a step of Preferences or a stutter; the invariant says where a
change that is not yet in the file will be written from.

**RdpChild_proofs.** `ChildTypeCorrect`, `EventsKeepOrder` (QueuedInOrder),
`HandshakeIsClean` (HandshakeFirst), `FramesNeverMix` (FramesWhole). The
inductive invariant `FrameInv` has named parts: the order of what has
arrived, is held and is queued (`OrderInv`); which nested calls are possible at
which place (`CallOK`, `PhaseOK`, `BootOK`); who holds a lock is in a call that
takes it (`LocksOK`); before HwndReady the logger is not set and nobody else has
anything to send (`QuietOK`); half a frame on the pipe belongs to the holder of
the send mutex (`HalfOK`).

**VmSettings_proofs.** For any fields, controllers, slots, number of edits and
troubles. `SettingsTypeCorrect` (TypeOK): `Typed` gives every row, queued device,
task and setter its type; the plan of a Save is built from sequences of unknown
length, so what `Only` keeps of one is proved from the least length at which it
would fail. `UntouchedStaysAsItWas` (UneditedKept): what the user has not touched is
shown as near to what was read as its control can (`TouchedInv`), so a group that
differs from its baselines has a touched field, or one that is compared as loaded and
cannot be shown, and a plan has only such groups. `SessionFollowsOptions` (RdpChangeReconnects): the invariant (`RdpInv`) is
that stored options and session differ only while the form knows it
(`rdpChanged`), which a Save sets as it writes and the opener acts on.
`QueuedPlacesStayDistinct` (QueuedPlacesDistinct): a queued place is one the form
holds (`HeldInv`), held places are distinct (`DistinctInv`) and free as the rows
show them (`RowsInv`, `FreeInv`), and a rebuild of the rows can only change what
they show of places nobody holds. `ReopenedIsFresh` (ReopenShowsSaved): unless
something happened since the last poll, the cache is the host's settings
(`CacheInv`); the lemmas name, for every field, the section of LoadFromVm that
reads it. `SaveAppliesWhatItShowed` (ClosedMeansApplied): until Save is through,
what it was to do is still in its plan or done, and nothing that comes later in the
plan takes it back. `AppliedInv` says so of the groups; it needs that on a machine
that is not off what is set only while it is off stays as loaded (`OffInv`), so
Hyper-V locks no group the dialog sets, and that shielding, which comes last, writes
over a TPM or an encryption setting only what the form shows as well (`ShieldInv`).
`DevicesInv` says so of the drives: no removal stands in the plan behind an attach of
its kind, and nothing is attached where a drive is. `NicsInv` counts adapters:
those there and those still to add are those wanted and those still to remove. That
only fields in `Odd` ever hold a value the form cannot show is `OddInv`. One
assumption on the instance is its own (`SettingsAssumption`): a group only part of
which is locked while the machine runs has a control for every value of that part,
and what is locked and may hold a value its control cannot show is compared with what
was shown. It leaves out machines beyond the range of a number box (over 256 GB of
memory, 240 processors), whose values the code would also rewrite in a Save that
touched others.

**VmEdit_proofs.** For any controllers, slots, adapters, files and features, and any
number of edits, faults and jobs. `DiskFilesOutliveVm` (FilesOutliveVm), whether
or not the edits wait for their jobs: FilesOutliveVm is not inductive: a job may
still be making things when the watcher of a destroy job deletes the files. The
invariant (`EditInv`) adds that every request an edit makes, and so every job
left running, makes the machine or a file but never removes one
(`SoundRequest`); that only the definition of a machine makes one, and nothing
is deleted meanwhile (`OpInv`, `JobInv`); and that a watcher that cleans up
finds nothing of the machine left (`CleanInv`). One lemma says what any call
does to it (`InvokeCalls`), the lemma of an action that the action makes such
a call and goes on to a step that fits.

On top of it stands `Typed`: the types (`Types`, which gives `EditTypeCorrect`); the
step is one of the edit's kind, names things of the right kind, and the caller's
goal is what it names (`KindInv`); what a machine lacks has no parts (`Tree`);
without a key protector no security setting is on (`Bare`); and while no mark says
otherwise no job and no watcher of an earlier edit is about (`Alone`).
`AttachesAllOrNothing` (AttachIsAllOrNothing): `Linking` says which of an attach's
own jobs may be about at which step and that its place holds the disk or nothing,
`Undoing` that until it has succeeded it has taken no place but its own.
`PromptSuccessIsApplied` (PromptTrueIsApplied), for edits of every kind: an edit is
applied when its last call is, so it takes the lemma that a call answered at once
leaves its thing as asked (`AskedApplied`), that no step but such a call ends an edit
with success (`GivenUp`), and two facts that are older than the last call
(`Making`): the machine a creation has defined is still there, and a security
setting is turned on with a protector there, without which Hyper-V would drop it.

`CreationsComplete` (CreatedIsComplete) is about the one edit that goes on after a
refusal and reports success all the same, so the proof is that there is none to go
on after. The invariant (`Building`) says of a creation that met no fault which
of its eleven calls are made (`Made`; those that were not asked for count as made)
and at which it stands with what is left of its plan (`Stage`). From what is made
each call is accepted: the controller is there before the disk, the place found for
a drive is free, the port precedes its connection, the wizard has looked whether the
disk's file exists. One lemma says what a call makes (`CoreMade` to `BootMade`), one
that it is accepted and makes it (`CoreStep` to `PromoteStep`), and one for each part
of the plan skips what was not asked for (`ToController` to `ToEnd`). TLC checked
`Building` before it was proved.

**TabStrip_proofs.** `TabTypeCorrect`, `SessionsStayOwned` (SessionsOwned),
`WindowsStayFilled` (WindowsShowSelected), `ListStaysStrip` (SavedIsStrip),
`PopupsStayCovered` (UncoveredByLastDialog) and `LaunchKeepsTabs`
(RestoreKeepsTabs), for any number of windows, tabs, VMs, hosts and dialogs.
Handlers are operators from one state of the UI to the next, so the invariant
(`IInv`) has parts that are stated of such a state and may exempt the windows and
sessions a handler is in the middle of: a tab is in one place (`Apart`), a closed
window has nothing (`Shut`), a strip has a selected tab (`Chosen`), the popup wanted
is that tab's (`Shown`), running sessions are in an open window (`Owned`), an open
window has tabs or is about to adopt its first (`Filled`). What is put off to a later
turn is one gesture, none while a tab is to be adopted (`Order`), which also says
that the list on disk is right (`Saved`) and that a tab to be replaced has no session
and is in the primary window only if it is replaced there (`Replaceable`). A saved
list is never longer than there are tabs (`Fits`), so that a restore finds a tab for
every page. Each operator has a lemma that says what it changes and which exemptions
it lifts; what a handler does to the list is one of two things: it leaves list and
primary strip alone (`Untouched`), or it has written the list, or will with the
selection's event, or has nothing new to write (`Written`, `Faithful`); and to the
popups: it hides them, or lets only an undialogued window show one (`Hides`,
`Passes`, `Lasting`). What is written is the strip's saved pages with the selected
one among them (`KeptIs`, `SavedPages`). The handlers that loop over a strip or a
list are folds; what a fold does is proved from the least length at which it would
fail (`NatSets`, `FoldExists`, `FoldTurns`, `FoldKeeps`), since no rule of induction
can be instantiated. `RestoreIs` carries through the restore's fold which of the
pages are already in the strip (`Brought`), and `OnlyLaunch` says that no other step
is a restore.

Only model-checked: all liveness properties (fairness is out of the prover's
reach). Every invariant and every action property of a passing run is a theorem's.

Assumptions on the constants are named in each module (bounds are naturals,
choices are subsets of the named sets; for TabStrip the windows and tabs are finitely
many, there is a tab, and no VM or host is called like a page; for VmEdit a disk
file is called like nothing else a thing may hold, a machine of generation 1 has IDE
controllers and a controller has room for two drives, where Hyper-V has two IDE
controllers of two places and SCSI controllers of 64) and evaluated by every run.

## 5. What the models leave out

Rendering, layout arithmetic, focus and keyboard; the ActiveX control's
property writes; credential prompts; the JSON schema; perf counters and CPU
history; the WMI event subscription's threads. VmTab takes the child as
anything that may connect, drop, fail or die, in that order; RdpChild takes the
app as anything that may stop or crash; VmEdit takes Hyper-V as the two rules
`Accepts` and `Applied` with the outcomes of `Invoke`; VmSettings takes a setter as
one step, whose inside is VmEdit's.

Not modelled: the remote host tab's session and the remote hosts' dialog, the
settings page and the confirm dialogs beyond what they do to the strip, renaming a
snapshot, typing into a guest, the lists behind the pickers. They are forms over
one call each, except for the remote tab, whose session has a subset of the VM
tab's paths.

## 6. Plan

Done: the tab's session (the program's core), the poll it depends on, the marks
of state changes, the settings file, the child process, the windows and their tab
strips, the edits of a machine and the settings dialog, each with its runs, its
mutants and its proofs.

Next, in this order:

1. `RemoteTab`: the remote host tab's session, sharing VmTab's vocabulary, with the
   saved hosts and their dialog.
2. VmEdit's setters inside VmSettings' Save: that each setter of the dialog is a
   step of VmSettings when nothing fails in it.
