------------------------ MODULE SettingsStore_proofs ------------------------
(***************************************************************************)
(* Proofs about SettingsStore, for any number of changes and launches: no   *)
(* change is forgotten, and the cache and its file implement Preferences,   *)
(* as long as a write that fails leaves the file alone.                     *)
(***************************************************************************)
EXTENDS SettingsStore, TLAPS

----------------------------------------------------------------------------
(* Types.                                                                   *)

LEMMA StoreInit == Init => TypeOK
<1> SUFFICES ASSUME Init PROVE TypeOK
  OBVIOUS
<1>1. disk \in [whole : BOOLEAN, content : SUBSET Changes]
  BY DEF Init
<1>2. launches \in 0..MaxLaunches
  BY StoreAssumption DEF Init
<1> QED
  BY <1>1, <1>2 DEF Init, TypeOK, Procs, Alive, SaverPcs

LEMMA WriteTypes ==
  ASSUME TypeOK, NEW ok \in BOOLEAN, Write(ok)
  PROVE  disk' \in [whole : BOOLEAN, content : SUBSET Changes] /\ failed' \in BOOLEAN
<1>1. disk \in [whole : BOOLEAN, content : SUBSET Changes] /\ mem \in SUBSET Changes
  BY DEF TypeOK
<1>2. [whole |-> TRUE, content |-> mem] \in [whole : BOOLEAN, content : SUBSET Changes]
  BY <1>1
<1>3. [whole |-> FALSE, content |-> {}] \in [whole : BOOLEAN, content : SUBSET Changes]
  OBVIOUS
<1> QED
  BY <1>1, <1>2, <1>3 DEF Write

LEMMA StoreTypes == TypeOK /\ [Next]_vars => TypeOK'
<1> SUFFICES ASSUME TypeOK, [Next]_vars PROVE TypeOK'
  OBVIOUS
<1> USE DEF TypeOK, Procs, Alive, SaverPcs
<1>1. CASE Launch
  <2>1. disk.content \in SUBSET Changes
    BY DEF TypeOK
  <2>2. mem' \subseteq Changes
    BY <1>1, <2>1 DEF Launch
  <2>3. launches' \in 0..MaxLaunches
    BY <1>1, StoreAssumption DEF Launch
  <2> QED
    BY <1>1, <2>2, <2>3 DEF Launch
<1>2. CASE SaveNow
  BY <1>2, WriteTypes DEF SaveNow
<1>3. CASE BeginExit \/ Mark \/ Notify \/ NotifyExit
  BY <1>3 DEF BeginExit, Mark, Notify, NotifyExit, Wake
<1>4. CASE Flush
  <2>1. disk' \in [whole : BOOLEAN, content : SUBSET Changes] /\ failed' \in BOOLEAN
    BY <1>4, WriteTypes DEF Flush
  <2> QED
    BY <1>4, <2>1 DEF Flush
<1>5. ASSUME NEW c \in Changes, Change(c) PROVE TypeOK'
  BY <1>5 DEF Change
<1>6. CASE Crash
  BY <1>6 DEF Crash
<1>7. CASE Test \/ Sleep \/ Debounce
  BY <1>7 DEF Test, Sleep, Debounce
<1>8. CASE SaveInBackground
  BY <1>8, WriteTypes DEF SaveInBackground
<1>9. CASE UNCHANGED vars
  BY <1>9 DEF vars
<1> QED
  BY <1>1, <1>2, <1>3, <1>4, <1>5, <1>6, <1>7, <1>8, <1>9 DEF Next, SaveLoop

\* Settings: every variable stays in its type, whatever the disk does.
THEOREM StoreTypeCorrect == Spec => []TypeOK
BY StoreInit, StoreTypes, PTL DEF Spec

----------------------------------------------------------------------------
(* On a disk whose failed writes leave the file as it was.  A thread that is past the clearing of the *)
(* flag has yet to read the cache; the others leave the flag, or the setter *)
(* that will set it, in place.  A setter is left only by the UI thread, so  *)
(* the destructor finds none under way.                                     *)

SoundDisk == Faults \subseteq {"fail"}

StoreInv ==
  /\ TypeOK
  /\ NothingForgotten
  /\ proc \in {"closing", "joining"} => ui = "idle"

LEMMA WholeWrites ==
  ASSUME SoundDisk, NEW ok \in BOOLEAN, Write(ok)
  PROVE  \/ ok /\ disk'.content = mem /\ ~failed'
         \/ ~ok /\ UNCHANGED disk /\ failed'
<1>1. "torn" \notin Faults
  BY DEF SoundDisk
<1>2. CASE ok
  <2>1. disk' = [whole |-> TRUE, content |-> mem] /\ failed' = FALSE
    BY <1>2 DEF Write
  <2> QED
    BY <1>2, <2>1
<1>3. CASE ~ok
  <2>1. UNCHANGED disk /\ failed' = TRUE
    BY <1>1, <1>3 DEF Write
  <2> QED
    BY <1>3, <2>1
<1> QED
  BY <1>2, <1>3

LEMMA StoreStep ==
  ASSUME SoundDisk, StoreInv, [Next]_vars
  PROVE  StoreInv'
<1>a. TypeOK /\ TypeOK'
  BY StoreTypes DEF StoreInv
<1> DEFINE Quiet == proc \in {"closing", "joining"} => ui = "idle"
<1>b. NothingForgotten /\ Quiet
  BY DEF StoreInv
<1> USE DEF NothingForgotten, Alive
<1>1. ASSUME Launch PROVE NothingForgotten' /\ Quiet'
  <2>1. mem' = disk'.content
    BY <1>1 DEF Launch, SoundDisk
  <2> QED
    BY <1>1, <2>1 DEF Launch
<1>2. ASSUME SaveNow PROVE NothingForgotten' /\ Quiet'
  BY <1>2, <1>b, WholeWrites DEF SaveNow
<1>3. ASSUME BeginExit \/ Mark \/ Notify \/ NotifyExit PROVE NothingForgotten' /\ Quiet'
  BY <1>3, <1>a, <1>b DEF BeginExit, Mark, Notify, NotifyExit, Wake, TypeOK
<1>4. ASSUME Flush PROVE NothingForgotten' /\ Quiet'
  <2>1. proc' \notin Alive
    BY <1>4 DEF Flush
  <2> QED
    BY <2>1
<1>5. ASSUME NEW c \in Changes, Change(c) PROVE NothingForgotten' /\ Quiet'
  BY <1>5 DEF Change
<1>6. ASSUME Crash PROVE NothingForgotten' /\ Quiet'
  BY <1>6 DEF Crash
<1>7. ASSUME Test \/ Sleep \/ Debounce PROVE NothingForgotten' /\ Quiet'
  BY <1>7, <1>b DEF Test, Sleep, Debounce
<1>8. ASSUME SaveInBackground PROVE NothingForgotten' /\ Quiet'
  BY <1>8, <1>b, WholeWrites DEF SaveInBackground
<1>9. ASSUME UNCHANGED vars PROVE NothingForgotten' /\ Quiet'
  BY <1>9, <1>b DEF vars
<1>10. NothingForgotten' /\ Quiet'
  BY <1>1, <1>2, <1>3, <1>4, <1>5, <1>6, <1>7, <1>8, <1>9 DEF Next, SaveLoop
<1> QED
  BY <1>a, <1>10 DEF StoreInv

LEMMA StoreInvInit == Init => StoreInv
  BY StoreInit DEF Init, StoreInv, NothingForgotten, Alive

\* SaveLoop, MarkDirty, SaveNow and the destructor never lose a change between
\* them; only a write that fails does.
THEOREM NoChangeForgotten ==
  ASSUME SoundDisk
  PROVE  Spec => []NothingForgotten
<1>1. StoreInv /\ [Next]_vars => StoreInv'
  BY StoreStep
<1>2. StoreInv => NothingForgotten
  BY DEF StoreInv
<1> QED
  BY <1>1, <1>2, StoreInvInit, PTL DEF Spec

----------------------------------------------------------------------------
(* Refinement: writes are Save, the destructor's last step is Exit.         *)

LEMMA StepPromised ==
  ASSUME SoundDisk, StoreInv, StoreInv', [Next]_vars
  PROVE  [Promised!Next]_(Promised!vars)
<1> USE DEF Promised!vars, Promised!Next, Life
<1>1. CASE Launch
  <2>1. mem' = disk.content /\ UNCHANGED disk
    BY <1>1 DEF Launch, SoundDisk
  <2>2. Life # "on" /\ Life' = "on"
    BY <1>1 DEF Launch, Alive
  <2> QED
    BY <2>1, <2>2 DEF Promised!Launch
<1>2. CASE SaveNow \/ SaveInBackground
  <2>1. disk'.content = mem \/ UNCHANGED disk
    BY <1>2, WholeWrites DEF SaveNow, SaveInBackground
  <2>2. proc \in Alive /\ UNCHANGED <<proc, mem>>
    BY <1>2 DEF SaveNow, SaveInBackground, Alive
  <2>3. Life = "on" /\ Life' = "on"
    BY <2>2 DEF Alive
  <2> QED
    BY <2>1, <2>2, <2>3 DEF Promised!Save
<1>3. CASE BeginExit \/ Mark \/ Notify \/ NotifyExit
  <2>1. proc \in Alive /\ proc' \in Alive /\ UNCHANGED <<mem, disk>>
    BY <1>3 DEF BeginExit, Mark, Notify, NotifyExit, Alive
  <2>2. Life = "on" /\ Life' = "on"
    BY <2>1 DEF Alive
  <2> QED
    BY <2>1, <2>2
<1>4. CASE Flush
  <2>1. proc = "joining" /\ saver = "done" /\ UNCHANGED mem
    BY <1>4 DEF Flush
  <2>2. proc' = "exited"
    BY <1>4 DEF Flush
  <2>3. Life = "on"
    BY <2>1 DEF Alive
  <2>4. CASE failed'
    <3>1. Life' = "off"
      BY <2>2, <2>4 DEF Alive
    <3>2. UNCHANGED disk
      BY <1>4, <2>4, WholeWrites DEF Flush
    <3> QED
      BY <2>1, <2>3, <3>1, <3>2 DEF Promised!Crash
  <2>5. CASE ~failed'
    <3>1. Life' = "exited"
      BY <2>2, <2>5 DEF Alive
    <3>2. disk'.content = mem
      <4>1. CASE dirty
        BY <1>4, <2>5, <4>1, WholeWrites DEF Flush
      <4>2. CASE ~dirty
        <5>1. ui = "idle" /\ UNCHANGED <<disk, failed>>
          BY <1>4, <2>1, <4>2 DEF Flush, StoreInv
        <5>2. mem = disk.content
          BY <2>1, <2>5, <4>2, <5>1 DEF StoreInv, NothingForgotten, Alive
        <5> QED
          BY <5>1, <5>2
      <4> QED
        BY <4>1, <4>2
    <3> QED
      BY <2>1, <2>3, <3>1, <3>2 DEF Promised!Exit
  <2> QED
    BY <2>4, <2>5
<1>5. ASSUME NEW c \in Changes, Change(c) PROVE Promised!Change
  <2>1. proc \in Alive /\ UNCHANGED <<proc, disk>>
    BY <1>5 DEF Change, Alive
  <2>2. c \in Changes \ mem /\ mem' = mem \cup {c}
    BY <1>5 DEF Change
  <2>3. Life = "on" /\ Life' = "on"
    BY <2>1 DEF Alive
  <2> QED
    BY <2>1, <2>2, <2>3 DEF Promised!Change
<1>6. CASE Crash
  BY <1>6 DEF Crash, Alive, Promised!Crash
<1>7. CASE Test \/ Sleep \/ Debounce \/ UNCHANGED vars
  <2>1. UNCHANGED <<proc, mem, disk, failed>>
    BY <1>7 DEF Test, Sleep, Debounce, vars
  <2> QED
    BY <2>1
<1> QED
  BY <1>1, <1>2, <1>3, <1>4, <1>5, <1>6, <1>7 DEF Next, SaveLoop

\* The settings and their file behave as Preferences says while failed writes
\* leave the file alone: an exit loses nothing unless the last write failed, a
\* crash what has not been written yet.
THEOREM StoreImplements ==
  ASSUME SoundDisk
  PROVE  Spec => Implements
<1>1. Init => Promised!Init
  BY DEF Init, Promised!Init, Life, Alive
<1>2. StoreInv /\ [Next]_vars => StoreInv'
  BY StoreStep
<1>3. StoreInv /\ StoreInv' /\ [Next]_vars => [Promised!Next]_(Promised!vars)
  BY StepPromised
<1> QED
  BY <1>1, <1>2, <1>3, StoreInvInit, PTL DEF Spec, Implements, Promised!Spec
=============================================================================
