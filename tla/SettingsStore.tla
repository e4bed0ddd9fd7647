--------------------------- MODULE SettingsStore ---------------------------
(***************************************************************************)
(* The life of settings.json: setters on the UI thread change the cache and *)
(* mark it dirty, a save thread sleeps on a condition variable, debounces   *)
(* and writes the whole cache, SaveNow and the destructor write it on the   *)
(* UI thread, and a launch reads it back.                                   *)
(*                                                                          *)
(* The content is the set of changes the user has made; m_lock makes every  *)
(* change and every write of the file one step.  m_saveLock is held by the  *)
(* save thread from its test of the wait's predicate until it sleeps.       *)
(***************************************************************************)
EXTENDS Naturals

CONSTANTS
  Changes,     \* what the user may change, once each
  Faults,      \* what the file system may do
  MaxLaunches  \* bound on the launches of the program

ASSUME StoreAssumption ==
  /\ Faults \subseteq {"fail", "torn", "unread"}
  /\ MaxLaunches \in Nat

VARIABLES
  proc,     \* the program: its life and the progress of the destructor
  mem,      \* the cached settings
  disk,     \* the settings file: its changes, and whether it is whole
  dirty,    \* m_dirty
  shutdown, \* m_shutdown
  saver,    \* where the save thread is
  ui,       \* where the UI thread is in a setter
  launches, \* how often the program was launched
  failed    \* history: the last write failed, and nobody knows

vars == <<proc, mem, disk, dirty, shutdown, saver, ui, launches, failed>>

----------------------------------------------------------------------------
Alive == {"up", "closing", "joining"}
Procs == Alive \cup {"down", "exited"}
SaverPcs == {"head", "tested", "asleep", "woken", "debounce", "saving", "done"}

TypeOK ==
  /\ proc \in Procs
  /\ mem \subseteq Changes
  /\ disk \in [whole : BOOLEAN, content : SUBSET Changes]
  /\ dirty \in BOOLEAN
  /\ shutdown \in BOOLEAN
  /\ saver \in SaverPcs
  /\ ui \in {"idle", "changed", "marked"}
  /\ launches \in 0..MaxLaunches
  /\ failed \in BOOLEAN

Init ==
  /\ proc = "down"
  /\ mem = {}
  /\ disk = [whole |-> TRUE, content |-> {}]
  /\ dirty = FALSE
  /\ shutdown = FALSE
  /\ saver = "done"
  /\ ui = "idle"
  /\ launches = 0
  /\ failed = FALSE

----------------------------------------------------------------------------
(* The file.                                                                *)

\* SaveLocked writes a temporary file and moves it into place.  It may not get
\* to open or to move it, which it does not report; it does not look whether
\* all of it was written.
Write(ok) ==
  /\ failed' = ~ok
  /\ \/ ok /\ disk' = [whole |-> TRUE, content |-> mem]
     \/ ~ok /\ "fail" \in Faults /\ UNCHANGED disk
     \/ ~ok /\ "torn" \in Faults /\ disk' = [whole |-> FALSE, content |-> {}]

\* Load: a file that cannot be opened or parsed leaves the defaults.
Launch ==
  /\ proc \notin Alive
  /\ launches < MaxLaunches
  /\ launches' = launches + 1
  /\ \/ mem' = disk.content
     \/ "unread" \in Faults /\ mem' = {}
  /\ proc' = "up"
  /\ dirty' = FALSE
  /\ shutdown' = FALSE
  /\ saver' = "head"
  /\ ui' = "idle"
  /\ failed' = FALSE
  /\ UNCHANGED disk

----------------------------------------------------------------------------
(* The UI thread.                                                           *)

\* Mutation: a setter that takes its change for none and does not mark.
ChangeUnmarked(c) ==
  /\ proc = "up" /\ ui = "idle"
  /\ c \notin mem
  /\ mem' = mem \cup {c}
  /\ UNCHANGED <<proc, disk, dirty, shutdown, saver, ui, launches, failed>>

\* A setter; one that changes nothing returns early.
Change(c) ==
  /\ proc = "up" /\ ui = "idle"
  /\ c \notin mem
  /\ mem' = mem \cup {c}
  /\ ui' = "changed"
  /\ UNCHANGED <<proc, disk, dirty, shutdown, saver, launches, failed>>

\* MarkDirty sets the flag and notifies, both without m_saveLock.
Mark ==
  /\ proc = "up" /\ ui = "changed"
  /\ dirty' = TRUE
  /\ ui' = "marked"
  /\ UNCHANGED <<proc, mem, disk, shutdown, saver, launches, failed>>

Wake == saver' = IF saver = "asleep" THEN "woken" ELSE saver

Notify ==
  /\ proc = "up" /\ ui = "marked"
  /\ Wake
  /\ ui' = "idle"
  /\ UNCHANGED <<proc, mem, disk, dirty, shutdown, launches, failed>>

SaveNow ==
  /\ proc = "up" /\ ui = "idle"
  /\ \E ok \in BOOLEAN : Write(ok)
  /\ dirty' = FALSE
  /\ UNCHANGED <<proc, mem, shutdown, saver, ui, launches>>

----------------------------------------------------------------------------
(* The destructor.                                                          *)

\* Mutation: m_shutdown is set without m_saveLock.
BeginExitUnlocked ==
  /\ proc = "up" /\ ui = "idle"
  /\ shutdown' = TRUE
  /\ proc' = "closing"
  /\ UNCHANGED <<mem, disk, dirty, saver, ui, launches, failed>>

\* m_shutdown is set under m_saveLock: not between test and sleep.
BeginExit ==
  /\ proc = "up" /\ ui = "idle"
  /\ saver # "tested"
  /\ shutdown' = TRUE
  /\ proc' = "closing"
  /\ UNCHANGED <<mem, disk, dirty, saver, ui, launches, failed>>

NotifyExit ==
  /\ proc = "closing"
  /\ Wake
  /\ proc' = "joining"
  /\ UNCHANGED <<mem, disk, dirty, shutdown, ui, launches, failed>>

\* The save thread is joined; what is still dirty is written.
Flush ==
  /\ proc = "joining" /\ saver = "done"
  /\ IF dirty THEN \E ok \in BOOLEAN : Write(ok) ELSE UNCHANGED <<disk, failed>>
  /\ proc' = "exited"
  /\ dirty' = FALSE
  /\ UNCHANGED <<mem, shutdown, saver, ui, launches>>

\* The program is killed, or the machine stops.
Crash ==
  /\ proc \in Alive
  /\ proc' = "down"
  /\ UNCHANGED <<mem, disk, dirty, shutdown, saver, ui, launches, failed>>

----------------------------------------------------------------------------
(* The save thread.                                                         *)

\* It tests the predicate, under m_saveLock.
Test ==
  /\ proc \in Alive
  /\ saver \in {"head", "woken"}
  /\ saver' = CASE shutdown -> "done"
                [] ~shutdown /\ dirty -> "debounce"
                [] OTHER -> "tested"
  /\ UNCHANGED <<proc, mem, disk, dirty, shutdown, ui, launches, failed>>

Sleep ==
  /\ proc \in Alive
  /\ saver = "tested"
  /\ saver' = "asleep"
  /\ UNCHANGED <<proc, mem, disk, dirty, shutdown, ui, launches, failed>>

\* Mutation: the flag is cleared before the shutdown is noticed.
DebounceClearsFirst ==
  /\ proc \in Alive
  /\ saver = "debounce"
  /\ dirty' = FALSE
  /\ saver' = IF shutdown THEN "done" ELSE "saving"
  /\ UNCHANGED <<proc, mem, disk, shutdown, ui, launches, failed>>

\* The debounce is over or cut short by the shutdown; the flag is cleared
\* before the cache is read.
Debounce ==
  /\ proc \in Alive
  /\ saver = "debounce"
  /\ IF shutdown
     THEN saver' = "done" /\ UNCHANGED dirty
     ELSE saver' = "saving" /\ dirty' = FALSE
  /\ UNCHANGED <<proc, mem, disk, shutdown, ui, launches, failed>>

SaveInBackground ==
  /\ proc \in Alive
  /\ saver = "saving"
  /\ \E ok \in BOOLEAN : Write(ok)
  /\ saver' = "head"
  /\ UNCHANGED <<proc, mem, dirty, shutdown, ui, launches>>

SaveLoop == Test \/ Sleep \/ Debounce \/ SaveInBackground

Next ==
  \/ Launch \/ SaveNow \/ BeginExit \/ Mark \/ Notify \/ NotifyExit \/ Flush
  \/ \E c \in Changes : Change(c)
  \/ Crash
  \/ SaveLoop

Spec == Init /\ [][Next]_vars

\* Threads run on; the user need not do anything.
Fairness ==
  /\ WF_vars(SaveLoop)
  /\ WF_vars(Mark \/ Notify \/ NotifyExit \/ Flush)

FairSpec == Spec /\ Fairness

----------------------------------------------------------------------------
(* Properties.                                                              *)

\* Wherever the two threads are, a change that is not in the file is in a
\* setter that has yet to mark it, marked, or about to be written, or its write
\* has failed: the flag is cleared before the cache is read.
NothingForgotten ==
  (proc \in Alive /\ mem # disk.content)
    => dirty \/ ui = "changed" \/ saver = "saving" \/ failed

\* The cached settings and their file are what Preferences promises.  An exit
\* after a write that failed flushes nothing, as the failed write has cleared
\* the flag (Settings.cpp:789): it is no better than a crash.
Life ==
  CASE proc \in Alive -> "on"
    [] proc = "exited" /\ ~failed -> "exited"
    [] OTHER -> "off"

Promised == INSTANCE Preferences
              WITH life <- Life, made <- mem, saved <- disk.content
Implements == Promised!Spec

\* An exit is never stuck: the destructor's notification is not missed.
ExitCompletes == proc = "closing" ~> proc \notin Alive

----------------------------------------------------------------------------
(* What the header says and the code does not keep.                         *)

\* "Setters mark the cache dirty and notify a background save thread that
\* debounces writes": a change is written without waiting for another one, or
\* for the exit. (Settings.h:11)
DebouncedSave ==
  \A c \in Changes : (c \in mem /\ proc = "up") ~> (c \in disk.content \/ proc # "up")
=============================================================================
