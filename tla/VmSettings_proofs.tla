------------------------- MODULE VmSettings_proofs -------------------------
(***************************************************************************)
(* Proofs about VmSettings, for any edited fields, controllers, slots and   *)
(* bounds: the live session has the stored RDP options once the dialog is   *)
(* gone; queued devices have places of their own; a dialog opened after a   *)
(* Save shows what that Save wrote; the types; Save writes no group of      *)
(* settings in which the user touched nothing; a dialog that Save closed    *)
(* has applied what it showed.                                              *)
(***************************************************************************)
EXTENDS VmSettings, SequenceTheorems, FiniteSetTheorems, WellFoundedInduction, TLAPS

----------------------------------------------------------------------------
(* RDP options.  Only the setter of the group "rdp" writes them, and it     *)
(* leaves the mark that makes the opener reconnect.                         *)

\* The setters by name.
LEMMA SetterNames ==
  DOMAIN Setters =
    {"name", "notes", "memory", "processor", "firmware", "boot", "bootGen1", "checkpoint",
     "paging", "com1", "com2", "debugger", "auto", "tpm", "encrypt", "shield", "media",
     "qos", "integration", "switch", "mac", "vlan", "advanced", "bandwidth", "protected",
     "naming", "offload", "rdp"}
BY DEF Setters

LEMMA SetterByName ==
  /\ Setters["name"] = RenameVM
  /\ Setters["notes"] = SetNotes
  /\ Setters["memory"] = SetMemoryConfig
  /\ Setters["processor"] = SetProcessorConfig
  /\ Setters["firmware"] = SetSecureBoot
  /\ Setters["boot"] = SetBootOrder
  /\ Setters["bootGen1"] = SetBootOrderGen1
  /\ Setters["checkpoint"] = SetCheckpointConfig
  /\ Setters["paging"] = SetSmartPagingFileLocation
  /\ Setters["com1"] = SetSerialPortConnection("com 1")
  /\ Setters["com2"] = SetSerialPortConnection("com 2")
  /\ Setters["debugger"] = SetVmDebugger
  /\ Setters["auto"] = SetAutomaticActions
  /\ Setters["tpm"] = SetVmTpm
  /\ Setters["encrypt"] = SetVmStateEncryption
  /\ Setters["shield"] = SetVmShielded
  /\ Setters["media"] = SetDvdMedia
  /\ Setters["qos"] = SetDiskQos
  /\ Setters["integration"] = SetIntegrationServiceEnabled
  /\ Setters["switch"] = SetNetworkAdapterSwitch
  /\ Setters["mac"] = SetNetworkAdapterMac
  /\ Setters["vlan"] = SetNetworkAdapterVlan
  /\ Setters["advanced"] = SetNetworkAdapterAdvanced
  /\ Setters["bandwidth"] = SetNetworkAdapterBandwidth
  /\ Setters["protected"] = SetNetworkAdapterProtectedNetwork
  /\ Setters["naming"] = SetNetworkAdapterDeviceNaming
  /\ Setters["offload"] = SetNetworkAdapterOffload
  /\ Setters["rdp"] = SetRdpOptionsOverride
BY DEF Setters

LEMMA OnlyRdpWrites ==
  ASSUME NEW g \in DOMAIN Setters, g # "rdp"
  PROVE  "rdp options" \notin Setters[g].writes
<1>1. /\ "rdp options" \notin RenameVM.writes
      /\ "rdp options" \notin SetNotes.writes
      /\ "rdp options" \notin SetMemoryConfig.writes
      /\ "rdp options" \notin SetProcessorConfig.writes
      /\ "rdp options" \notin SetSecureBoot.writes
      /\ "rdp options" \notin SetBootOrder.writes
      /\ "rdp options" \notin SetBootOrderGen1.writes
      /\ "rdp options" \notin SetCheckpointConfig.writes
      /\ "rdp options" \notin SetSmartPagingFileLocation.writes
      /\ "rdp options" \notin SetSerialPortConnection("com 1").writes
      /\ "rdp options" \notin SetSerialPortConnection("com 2").writes
      /\ "rdp options" \notin SetVmDebugger.writes
      /\ "rdp options" \notin SetAutomaticActions.writes
      /\ "rdp options" \notin SetVmTpm.writes
      /\ "rdp options" \notin SetVmStateEncryption.writes
      /\ "rdp options" \notin SetVmShielded.writes
      /\ "rdp options" \notin SetDvdMedia.writes
      /\ "rdp options" \notin SetDiskQos.writes
      /\ "rdp options" \notin SetIntegrationServiceEnabled.writes
      /\ "rdp options" \notin SetNetworkAdapterSwitch.writes
      /\ "rdp options" \notin SetNetworkAdapterMac.writes
      /\ "rdp options" \notin SetNetworkAdapterVlan.writes
      /\ "rdp options" \notin SetNetworkAdapterAdvanced.writes
      /\ "rdp options" \notin SetNetworkAdapterBandwidth.writes
      /\ "rdp options" \notin SetNetworkAdapterProtectedNetwork.writes
      /\ "rdp options" \notin SetNetworkAdapterDeviceNaming.writes
      /\ "rdp options" \notin SetNetworkAdapterOffload.writes
  BY DEF Setter, RenameVM, SetNotes, SetMemoryConfig, SetProcessorConfig, SetSecureBoot,
         SetBootOrder, SetBootOrderGen1, SetCheckpointConfig, SetSmartPagingFileLocation,
         SetSerialPortConnection, SetVmDebugger, SetAutomaticActions, SetVmTpm,
         SetVmStateEncryption, SetVmShielded, SetDvdMedia, SetDiskQos,
         SetIntegrationServiceEnabled, SetNetworkAdapterSwitch, SetNetworkAdapterMac,
         SetNetworkAdapterVlan, SetNetworkAdapterAdvanced, SetNetworkAdapterBandwidth,
         SetNetworkAdapterProtectedNetwork, SetNetworkAdapterDeviceNaming,
         SetNetworkAdapterOffload
<1> QED
  BY <1>1, SetterNames, SetterByName

LEMMA GroupsAreSetters == Groups \subseteq DOMAIN Setters
BY SetterNames DEF Groups

LEMMA OnlyRdpGives ==
  ASSUME NEW g \in Groups, g # "rdp"
  PROVE  "rdp options" \notin DOMAIN Given(g)
<1>1. "rdp options" \notin Setters[g].writes
  BY OnlyRdpWrites, GroupsAreSetters
<1>2. CASE g = "checkpoint"
  BY <1>1, <1>2 DEF Given
<1>3. CASE g = "shield"
  BY <1>3 DEF Given, OnShieldingToggled
<1>4. CASE g \notin {"checkpoint", "shield"}
  BY <1>1, <1>4 DEF Given
<1> QED
  BY <1>2, <1>3, <1>4

LEMMA ShieldFields == {"tpm", "encrypt", "shield"} \subseteq Fields
<1>1. /\ "tpm" \in SetVmTpm.writes /\ "encrypt" \in SetVmStateEncryption.writes
      /\ "shield" \in SetVmShielded.writes
  BY DEF Setter, SetVmTpm, SetVmStateEncryption, SetVmShielded
<1>2. {"tpm", "encrypt", "shield"} \subseteq Groups
  BY DEF Groups
<1> QED
  BY <1>1, <1>2, SetterByName DEF Fields

LEMMA GivenFields ==
  ASSUME NEW g \in Groups PROVE DOMAIN Given(g) \subseteq Fields
<1>1. Setters[g].writes \subseteq Fields
  BY DEF Fields
<1>2. CASE g = "checkpoint"
  BY <1>1, <1>2 DEF Given
<1>3. CASE g = "shield"
  BY <1>3, ShieldFields DEF Given, OnShieldingToggled
<1>4. CASE g \notin {"checkpoint", "shield"}
  BY <1>1, <1>4 DEF Given
<1> QED
  BY <1>2, <1>3, <1>4

LEMMA RdpIsField == "rdp options" \in Fields /\ "rdp options" \notin Shared
<1>1. "rdp options" \in Setters["rdp"].writes
  <2>1. "rdp options" \in SetRdpOptionsOverride.writes
    BY DEF SetRdpOptionsOverride, Setter
  <2> QED
    BY <2>1, SetterByName
<1>2. "rdp" \in Groups
  BY DEF Groups
<1>3. "rdp options" \in InSettings
  BY DEF InSettings, SetRdpOptionsOverride, Setter
<1> QED
  BY <1>1, <1>2, <1>3, SettingsAssumption DEF Fields

\* The session has the stored options, or the dialog, which is still there,
\* has the mark.
RdpInv ==
  /\ DOMAIN form = {"orig", "shown", "power", "rdpChanged"}
  /\ form.rdpChanged \in BOOLEAN
  /\ DOMAIN host = Fields
  /\ session = host["rdp options"] \/ (form.rdpChanged /\ phase # "closed")

LEMMA RdpStep == RdpInv /\ [Next]_vars => RdpInv'
<1> SUFFICES ASSUME RdpInv, [Next]_vars PROVE RdpInv'
  OBVIOUS
<1> USE DEF RdpInv
<1>1. ASSUME UNCHANGED <<host, form, session>>, phase' # "closed" \/ phase' = phase PROVE RdpInv'
  BY <1>1
<1>2. ASSUME Open PROVE RdpInv'
  BY <1>2 DEF Open, LoadFromVm
<1>3. ASSUME NEW f \in Edited, Change(f) PROVE RdpInv'
  <2>1. PICK s : form' = [form EXCEPT !.shown = s]
    BY <1>3 DEF Change
  <2>2. DOMAIN form' = DOMAIN form /\ form'.rdpChanged = form.rdpChanged
    BY <2>1
  <2> QED
    BY <1>3, <2>2 DEF Change
<1>4. ASSUME AddScsiEnds \/ RemoveScsiControllerByRef PROVE RdpInv'
  <2>1. form' = form \/ form' = RebuiltForm
    BY <1>4 DEF AddScsiEnds, RemoveScsiControllerByRef, PendingEnds
  <2>2. DOMAIN form' = DOMAIN form /\ form'.rdpChanged = form.rdpChanged
    BY <2>1 DEF RebuiltForm
  <2> QED
    BY <1>4, <2>2 DEF AddScsiEnds, RemoveScsiControllerByRef, PendingEnds
<1>5. ASSUME NEW g \in Groups, phase = "setting", SetDone(g), UNCHANGED <<phase, session>> PROVE RdpInv'
  <2>1. /\ DOMAIN form' = DOMAIN form
        /\ form'.rdpChanged = (form.rdpChanged \/ g = "rdp")
    BY <1>5 DEF SetDone
  <2>2. host' = [f \in (DOMAIN Given(g)) \cup DOMAIN host |->
                   IF f \in DOMAIN Given(g) THEN Given(g)[f] ELSE host[f]]
    BY <1>5 DEF SetDone, With
  <2>3. DOMAIN Given(g) \subseteq Fields
    BY GivenFields
  <2>4. DOMAIN host' = Fields
    BY <2>2, <2>3
  <2>5. g # "rdp" => host'["rdp options"] = host["rdp options"]
    BY <2>2, OnlyRdpGives, RdpIsField
  <2>6. CASE g = "rdp"
    BY <1>5, <2>1, <2>4, <2>6
  <2>7. CASE g # "rdp"
    BY <1>5, <2>1, <2>4, <2>5, <2>7
  <2> QED
    BY <2>6, <2>7
<1>6. ASSUME Set PROVE RdpInv'
  BY <1>1, <1>5, <1>6 DEF Set, SetIgnored, DeviceDone, Fails
<1>7. ASSUME Opener PROVE RdpInv'
  BY <1>7 DEF Opener, NoForm
<1>8. ASSUME NEW f \in Shared, Foreign(f) PROVE RdpInv'
  <2>1. host'["rdp options"] = host["rdp options"] /\ DOMAIN host' = DOMAIN host
    BY <1>8, RdpIsField DEF Foreign
  <2> QED
    BY <1>8, <2>1 DEF Foreign, Disturb
<1>9. ASSUME NEW r, Click(r) PROVE RdpInv'
  BY <1>9 DEF Click
<1>10. ASSUME NEW kind, Queue(kind) PROVE RdpInv'
  BY <1>9, <1>10 DEF Queue
<1>11. ASSUME NEW task, Start(task) PROVE RdpInv'
  BY <1>11 DEF Start
<1>12. ASSUME Cancel \/ Save \/ BeginSets \/ EndSets \/ SaveEnds \/ Poll PROVE RdpInv'
  BY <1>12 DEF Cancel, Save, BeginSets, EndSets, SaveEnds, Poll
<1>13. ASSUME NEW state, PowerChange(state) PROVE RdpInv'
  BY <1>13 DEF PowerChange, Disturb
<1>14. ASSUME UNCHANGED vars PROVE RdpInv'
  BY <1>14 DEF vars
<1> QED
  BY <1>2, <1>3, <1>4, <1>6, <1>7, <1>8, <1>9, <1>10, <1>11, <1>12, <1>13, <1>14
     DEF Next, MarkDrive, MarkAdapter, OnNetworkAddAdapter, OnStorageAttachVhd,
         OnStorageCreateVhd, OnStorageAttachPhysical, OnStorageAddDvdDrive,
         OnStorageAddScsiController, OnRemoveScsiController

\* Once the dialog is gone, after a Save, a Save that failed halfway or a
\* Cancel, the live session has the RDP options that are stored.
THEOREM SessionFollowsOptions == Spec => []RdpChangeReconnects
<1>1. Init => RdpInv
  <2> SUFFICES ASSUME Init PROVE RdpInv
    OBVIOUS
  <2>1. \A odd, on, override : DOMAIN Stored(odd, on, override) = Fields
    BY DEF Stored
  <2>2. PICK odd, on, full : host = Stored(odd, on, full) /\ session = host["rdp options"]
    BY Zenon DEF Init
  <2>3. form = NoForm
    BY DEF Init
  <2> QED
    BY <2>1, <2>2, <2>3 DEF RdpInv, NoForm
<1>2. RdpInv => RdpChangeReconnects
  BY DEF RdpInv, RdpChangeReconnects
<1> QED
  BY <1>1, <1>2, RdpStep, PTL DEF Spec

----------------------------------------------------------------------------
(* Queued devices.  A place is queued once because the flyout leaves queued *)
(* places out; a controller that went with its queued places never comes    *)
(* back, for a new one is not among the known.                              *)

\* What a flyout offers is a place no drive and no queued device has, or none.
LEMMA PlacementsFree ==
  ASSUME rows.ctrls \subseteq Controllers, NEW at \in Placements
  PROVE  /\ at \in AnyPlace
         /\ at[2] >= 0 => /\ at \in Places /\ at[1] \in rows.ctrls
                          /\ at \notin rows.queued /\ rows.drives[at] = "none"
<1>1. ASSUME NEW c \in Controllers \cup {NoController}
      PROVE  Unplaced(c) \in AnyPlace /\ ~(Unplaced(c)[2] >= 0)
  <2>1. ~(Unplaced(c)[2] >= 0)
    BY DEF Unplaced
  <2> QED
    BY <2>1 DEF AnyPlace
<1>2. ASSUME NEW c \in rows.ctrls, NEW S, S = FreeSlots(c), at \in {c} \X S
      PROVE  /\ at \in AnyPlace /\ at \in Places /\ at[1] \in rows.ctrls
             /\ at \notin rows.queued /\ rows.drives[at] = "none"
  <2>1. PICK s \in S : at = <<c, s>>
    BY <1>2
  <2>2. s \in Slots /\ rows.drives[<<c, s>>] = "none" /\ <<c, s>> \notin rows.queued
    BY <1>2, <2>1 DEF FreeSlots
  <2> QED
    BY <2>1, <2>2 DEF AnyPlace, Places
<1>3. CASE rows.ctrls = {}
  BY <1>1, <1>3 DEF Placements, Here
<1>4. CASE rows.ctrls # {}
  <2>1. PICK c \in rows.ctrls :
          at \in IF FreeSlots(c) = {} THEN {Unplaced(c)} ELSE {c} \X FreeSlots(c)
    BY <1>4 DEF Placements
  <2> QED
    BY <1>1, <1>2, <2>1
<1> QED
  BY <1>3, <1>4

QueuedAt(i) == rows.queue[i].at

RowsShape ==
  /\ DOMAIN rows = {"ctrls", "drives", "marks", "queued", "queue", "nicRemove", "nicAdds"}
  /\ rows.queue \in Seq([do : Kinds, at : AnyPlace])
  /\ rows.ctrls \subseteq Controllers
  /\ DOMAIN disks = {"gen2", "checkpoints", "ctrls", "known", "nics", "drives"}
  /\ disks.ctrls \subseteq disks.known /\ disks.known \subseteq Controllers
  /\ DOMAIN ghost = {"touched", "disturbed", "retried", "nics"}

\* The form shows the controllers the machine has.
RowsInv ==
  IF phase = "closed" THEN rows.queue = <<>> ELSE rows.ctrls = disks.ctrls

\* A device queued for a place holds it as long as its controller is there.
HeldInv ==
  \A i \in DOMAIN rows.queue :
    QueuedAt(i)[2] >= 0 => /\ QueuedAt(i)[1] \in disks.known
                           /\ QueuedAt(i)[1] \in rows.ctrls => QueuedAt(i) \in rows.queued

DistinctInv ==
  \A i, j \in DOMAIN rows.queue :
    i # j /\ QueuedAt(i)[2] >= 0 => QueuedAt(i) # QueuedAt(j)

\* Until a Save the form shows the drives the machine has.
FreeInv ==
  phase = "open" /\ ~ghost.retried =>
    /\ rows.drives = disks.drives
    /\ \A i \in DOMAIN rows.queue : QueuedAt(i)[2] >= 0 => disks.drives[QueuedAt(i)] = "none"

PlacesInv == RowsShape /\ RowsInv /\ HeldInv /\ DistinctInv /\ FreeInv

LEMMA PlacesInit == Init => PlacesInv
<1> SUFFICES ASSUME Init PROVE PlacesInv
  OBVIOUS
<1>1. phase = "closed" /\ rows = NoRows /\ ghost = NoGhost
  BY DEF Init
<1>2. /\ DOMAIN disks = {"gen2", "checkpoints", "ctrls", "known", "nics", "drives"}
      /\ disks.ctrls = disks.known
      /\ disks.ctrls \in {Ide, {}} \cup {{CHOOSE c \in Scsi : TRUE}}
  <2>1. PICK full, ctrls, drives : /\ disks = [gen2 |-> ctrls # Ide, checkpoints |-> full, ctrls |-> ctrls,
                                            known |-> ctrls, nics |-> 1, drives |-> drives]
                                 /\ ctrls \in {Ide, {}} \cup {{CHOOSE c \in Scsi : TRUE}}
    BY Zenon DEF Init
  <2> QED
    BY <2>1
<1>3. disks.ctrls \subseteq Controllers
  BY <1>2, SettingsAssumption DEF Controllers
<1>4. RowsShape
  BY <1>1, <1>2, <1>3 DEF RowsShape, NoRows, NoGhost
<1> QED
  BY <1>1, <1>4 DEF PlacesInv, RowsInv, HeldInv, DistinctInv, FreeInv, NoRows

\* The flyouts: a new device takes its place.
LEMMA QueueKeepsPlaces ==
  ASSUME PlacesInv, NEW kind \in Kinds, Queue(kind)
  PROVE  PlacesInv'
<1> USE DEF PlacesInv, QueuedAt
<1>1. PICK at \in Placements :
        Click(ConsumeQueuedSlot([rows EXCEPT !.queue = Append(@, Task(kind, at))], at))
  BY DEF Queue
<1>2. /\ phase # "closed" /\ UNCHANGED <<phase, disks, ghost>>
      /\ rows' = ConsumeQueuedSlot([rows EXCEPT !.queue = Append(@, Task(kind, at))], at)
  BY <1>1 DEF Click, Interactive
<1>3. /\ at \in AnyPlace
      /\ at[2] >= 0 => /\ at \in Places /\ at[1] \in rows.ctrls
                       /\ at \notin rows.queued /\ rows.drives[at] = "none"
  BY PlacementsFree DEF RowsShape
<1>4. /\ DOMAIN rows' = DOMAIN rows /\ rows'.ctrls = rows.ctrls /\ rows'.drives = rows.drives
      /\ rows'.queue = Append(rows.queue, Task(kind, at))
      /\ rows.queued \subseteq rows'.queued
      /\ at[2] >= 0 => at \in rows'.queued
  <2>0. at[2] \in Int
    <3>1. \A c : Unplaced(c)[2] = -1
      BY DEF Unplaced
    <3>2. \A s \in Slots : s \in Int
      <4>1. Slots \subseteq Nat
        BY SettingsAssumption
      <4>2. \A n \in Nat : n \in Int
        OBVIOUS
      <4> QED
        BY <4>1, <4>2
    <3>3. ASSUME NEW x \in Controllers \X Slots PROVE x[2] \in Int
      <4>1. x[2] \in Slots
        OBVIOUS
      <4> QED
        BY <3>2, <4>1
    <3> QED
      BY <1>3, <3>1, <3>3 DEF AnyPlace, Places
  <2>1. CASE at[2] < 0
    BY <1>2, <2>0, <2>1 DEF ConsumeQueuedSlot, RowsShape
  <2>2. CASE ~(at[2] < 0)
    BY <1>2, <2>2 DEF ConsumeQueuedSlot, RowsShape
  <2> QED
    BY <2>1, <2>2
<1>5. Task(kind, at) \in [do : Kinds, at : AnyPlace] /\ Task(kind, at).at = at
  BY <1>3 DEF Task
<1>6. rows'.queue \in Seq([do : Kinds, at : AnyPlace])
  BY <1>4, <1>5 DEF RowsShape
<1>7. \A i \in DOMAIN rows'.queue :
        \/ i \in DOMAIN rows.queue /\ QueuedAt(i)' = QueuedAt(i)
        \/ i = Len(rows.queue) + 1 /\ QueuedAt(i)' = at
  BY <1>4, <1>5 DEF RowsShape
<1> HIDE DEF QueuedAt
<1>8. RowsShape' /\ RowsInv'
  BY <1>2, <1>4, <1>6 DEF RowsShape, RowsInv
<1>9. HeldInv'
  <2>1. at[2] >= 0 => at[1] \in disks.known
    BY <1>2, <1>3 DEF RowsInv, RowsShape
  <2> QED
    BY <1>2, <1>3, <1>4, <1>7, <2>1 DEF HeldInv
<1>10. DistinctInv'
  <2>1. \A i \in DOMAIN rows.queue : at[2] >= 0 => QueuedAt(i) # at
    BY <1>3 DEF HeldInv
  <2>2. \A i \in DOMAIN rows.queue : QueuedAt(i)[2] >= 0 => QueuedAt(i) # at
    BY <2>1
  <2> QED
    BY <1>7, <2>1, <2>2 DEF DistinctInv
<1>11. FreeInv'
  BY <1>2, <1>3, <1>4, <1>7 DEF FreeInv
<1> QED
  BY <1>8, <1>9, <1>10, <1>11

\* Adding and removing a controller.
LEMMA ControllersKeepPlaces ==
  ASSUME PlacesInv, AddScsiEnds \/ RemoveScsiControllerByRef
  PROVE  PlacesInv'
<1> USE DEF PlacesInv, QueuedAt
<1>1. UNCHANGED <<phase, ghost>>
  BY DEF AddScsiEnds, RemoveScsiControllerByRef, PendingEnds
<1>2. CASE UNCHANGED <<disks, rows>>
  BY <1>1, <1>2 DEF RowsShape, RowsInv, HeldInv, DistinctInv, FreeInv
<1>3. ASSUME NEW ctrls, NEW known,
             disks' = [disks EXCEPT !.ctrls = ctrls, !.known = known],
             ctrls \subseteq known, known \subseteq Controllers, disks.known \subseteq known,
             phase = "closed" => UNCHANGED rows,
             phase # "closed" =>
               /\ DOMAIN rows' = DOMAIN rows /\ rows'.queue = rows.queue
               /\ rows'.ctrls = ctrls /\ rows'.drives = disks.drives
               /\ \A i \in DOMAIN rows.queue :
                    QueuedAt(i)[2] >= 0 /\ QueuedAt(i)[1] \in ctrls => QueuedAt(i) \in rows'.queued
      PROVE  PlacesInv'
  <2>1. /\ DOMAIN disks' = DOMAIN disks /\ disks'.drives = disks.drives
        /\ disks'.ctrls = ctrls /\ disks'.known = known
    BY <1>3 DEF RowsShape
  <2>2. CASE phase = "closed"
    BY <1>1, <1>3, <2>1, <2>2 DEF RowsShape, RowsInv, HeldInv, DistinctInv, FreeInv
  <2>3. CASE phase # "closed"
    <3>1. RowsShape' /\ RowsInv'
      BY <1>1, <1>3, <2>1, <2>3 DEF RowsShape, RowsInv
    <3>2. HeldInv' /\ DistinctInv'
      BY <1>3, <2>1, <2>3 DEF HeldInv, DistinctInv
    <3>3. FreeInv'
      BY <1>1, <1>3, <2>1, <2>3 DEF FreeInv
    <3> QED
      BY <3>1, <3>2, <3>3
  <2> QED
    BY <2>2, <2>3
<1>4. ASSUME NEW c \in Scsi \ disks.known,
             PendingEnds(TRUE, disks.ctrls \cup {c}, disks.known \cup {c}, rows)
      PROVE  PlacesInv'
  <2> DEFINE ctrls == disks.ctrls \cup {c}
             known == disks.known \cup {c}
  <2>1. ctrls \subseteq known /\ known \subseteq Controllers /\ disks.known \subseteq known
    BY DEF RowsShape, Controllers
  <2>2. \/ UNCHANGED <<disks, rows>>
        \/ /\ disks' = [disks EXCEPT !.ctrls = ctrls, !.known = known]
           /\ IF phase = "closed" THEN UNCHANGED rows
              ELSE rows' = [RebuildStorageCards(rows) EXCEPT !.ctrls = ctrls]
    BY <1>4 DEF PendingEnds
  <2>3. ASSUME phase # "closed", rows' = [RebuildStorageCards(rows) EXCEPT !.ctrls = ctrls]
        PROVE  /\ DOMAIN rows' = DOMAIN rows /\ rows'.queue = rows.queue
               /\ rows'.ctrls = ctrls /\ rows'.drives = disks.drives
               /\ \A i \in DOMAIN rows.queue :
                    QueuedAt(i)[2] >= 0 /\ QueuedAt(i)[1] \in ctrls => QueuedAt(i) \in rows'.queued
    <3>1. /\ DOMAIN rows' = DOMAIN rows /\ rows'.queue = rows.queue /\ rows'.queued = rows.queued
          /\ rows'.ctrls = ctrls /\ rows'.drives = disks.drives
      BY <2>3 DEF RebuildStorageCards, RowsShape
    <3>2. \A i \in DOMAIN rows.queue :
            QueuedAt(i)[2] >= 0 /\ QueuedAt(i)[1] \in ctrls => QueuedAt(i) \in rows.queued
      BY <2>3 DEF HeldInv, RowsInv
    <3> QED
      BY <3>1, <3>2
  <2> HIDE DEF ctrls, known, QueuedAt
  <2> QED
    BY <1>2, <1>3, <2>1, <2>2, <2>3
<1>5. ASSUME NEW c, NEW ok,
             PendingEnds(ok, disks.ctrls \ {c}, disks.known,
                         [rows EXCEPT !.queued = {p \in @ : p[1] # c}])
      PROVE  PlacesInv'
  <2> DEFINE ctrls == disks.ctrls \ {c}
             known == disks.known
             r == [rows EXCEPT !.queued = {p \in @ : p[1] # c}]
  <2>1. ctrls \subseteq known /\ known \subseteq Controllers /\ disks.known \subseteq known
    BY DEF RowsShape
  <2>2. \/ UNCHANGED <<disks, rows>>
        \/ /\ disks' = [disks EXCEPT !.ctrls = ctrls, !.known = known]
           /\ IF phase = "closed" THEN UNCHANGED rows
              ELSE rows' = [RebuildStorageCards(r) EXCEPT !.ctrls = ctrls]
    BY <1>5 DEF PendingEnds
  <2>3. DOMAIN r = DOMAIN rows /\ r.queue = rows.queue /\ r.queued = {p \in rows.queued : p[1] # c}
    BY DEF RowsShape
  <2>4. ASSUME phase # "closed", rows' = [RebuildStorageCards(r) EXCEPT !.ctrls = ctrls]
        PROVE  /\ DOMAIN rows' = DOMAIN rows /\ rows'.queue = rows.queue
               /\ rows'.ctrls = ctrls /\ rows'.drives = disks.drives
               /\ \A i \in DOMAIN rows.queue :
                    QueuedAt(i)[2] >= 0 /\ QueuedAt(i)[1] \in ctrls => QueuedAt(i) \in rows'.queued
    <3>1. /\ DOMAIN rows' = DOMAIN rows /\ rows'.queue = rows.queue /\ rows'.queued = r.queued
          /\ rows'.ctrls = ctrls /\ rows'.drives = disks.drives
      <4> HIDE DEF r, ctrls
      <4> QED
        BY <2>3, <2>4 DEF RebuildStorageCards, RowsShape
    <3>2. \A i \in DOMAIN rows.queue :
            QueuedAt(i)[2] >= 0 /\ QueuedAt(i)[1] \in ctrls => QueuedAt(i) \in r.queued
      BY <2>3, <2>4 DEF HeldInv, RowsInv
    <3> QED
      BY <3>1, <3>2
  <2> HIDE DEF r, ctrls, known, QueuedAt
  <2> QED
    BY <1>2, <1>3, <2>1, <2>2, <2>4
<1> QED
  BY <1>4, <1>5 DEF AddScsiEnds, RemoveScsiControllerByRef

LEMMA PlacesStep == PlacesInv /\ [Next]_vars => PlacesInv'
<1> SUFFICES ASSUME PlacesInv, [Next]_vars PROVE PlacesInv'
  OBVIOUS
<1> USE DEF PlacesInv, QueuedAt
<1>1. ASSUME UNCHANGED <<disks, rows>>, DOMAIN ghost' = DOMAIN ghost,
             phase' = phase \/ (phase # "closed" /\ phase' # "closed"),
             phase' = "open" => ghost'.retried \/ (phase = "open" /\ ghost'.retried = ghost.retried)
      PROVE  PlacesInv'
  BY <1>1 DEF RowsShape, RowsInv, HeldInv, DistinctInv, FreeInv
<1>2. ASSUME Open PROVE PlacesInv'
  <2>1. /\ rows' = RebuildStorageCards(NoRows) /\ UNCHANGED disks /\ phase' = "open"
        /\ ghost' = [NoGhost EXCEPT !.nics = disks.nics, !.disturbed = behind]
    BY <1>2 DEF Open, LoadFromVm
  <2>2. /\ DOMAIN rows' = DOMAIN NoRows /\ rows'.queue = <<>> /\ rows'.ctrls = disks.ctrls
        /\ rows'.drives = disks.drives
    BY <2>1 DEF RebuildStorageCards, NoRows
  <2>3. DOMAIN ghost' = {"touched", "disturbed", "retried", "nics"}
    BY <2>1 DEF NoGhost
  <2>4. RowsShape'
    <3>1. DOMAIN rows' = {"ctrls", "drives", "marks", "queued", "queue", "nicRemove", "nicAdds"}
      BY <2>2 DEF NoRows
    <3>2. rows'.queue \in Seq([do : Kinds, at : AnyPlace])
      BY <2>2
    <3> QED
      BY <2>1, <2>2, <2>3, <3>1, <3>2 DEF RowsShape
  <2>5. DOMAIN rows'.queue = {}
    BY <2>2
  <2> QED
    BY <2>1, <2>2, <2>4, <2>5 DEF RowsInv, HeldInv, DistinctInv, FreeInv
<1>3. ASSUME NEW f \in Edited, Change(f) PROVE PlacesInv'
  <2>1. PICK t : ghost' = [ghost EXCEPT !.touched = t]
    BY <1>3 DEF Change
  <2>2. DOMAIN ghost' = DOMAIN ghost /\ ghost'.retried = ghost.retried
    BY <2>1
  <2> QED
    BY <1>1, <1>3, <2>2 DEF Change, FreeInv
<1>4. ASSUME NEW r, Click(r), RowsShape' /\ rows'.queue = rows.queue /\ rows'.ctrls = rows.ctrls
                             /\ rows'.queued = rows.queued /\ rows'.drives = rows.drives
      PROVE  PlacesInv'
  BY <1>4 DEF Click, RowsInv, HeldInv, DistinctInv, FreeInv
<1>5. ASSUME NEW p \in Places, MarkDrive(p) PROVE PlacesInv'
  <2>1. rows' = [rows EXCEPT !.marks = @ \cup {p}]
    BY <1>5 DEF MarkDrive, Click
  <2>2. RowsShape'
    BY <1>5, <2>1 DEF MarkDrive, Click, RowsShape
  <2> QED
    BY <1>4, <1>5, <2>1, <2>2 DEF MarkDrive, RowsShape
<1>6. ASSUME MarkAdapter PROVE PlacesInv'
  <2>1. rows' = [rows EXCEPT !.nicRemove = TRUE]
    BY <1>6 DEF MarkAdapter, Click
  <2>2. RowsShape'
    BY <1>6, <2>1 DEF MarkAdapter, Click, RowsShape
  <2> QED
    BY <1>4, <1>6, <2>1, <2>2 DEF MarkAdapter, RowsShape
<1>7. ASSUME OnNetworkAddAdapter PROVE PlacesInv'
  <2>1. rows' = [rows EXCEPT !.nicAdds = @ + 1]
    BY <1>7 DEF OnNetworkAddAdapter, Click
  <2>2. RowsShape'
    BY <1>7, <2>1 DEF OnNetworkAddAdapter, Click, RowsShape
  <2> QED
    BY <1>4, <1>7, <2>1, <2>2 DEF OnNetworkAddAdapter, RowsShape
<1>8. ASSUME OnStorageAttachVhd \/ OnStorageCreateVhd \/ OnStorageAttachPhysical \/ OnStorageAddDvdDrive
      PROVE  PlacesInv'
  BY <1>8, QueueKeepsPlaces DEF OnStorageAttachVhd, OnStorageCreateVhd, OnStorageAttachPhysical,
                               OnStorageAddDvdDrive, Kinds
<1>9. ASSUME AddScsiEnds \/ RemoveScsiControllerByRef PROVE PlacesInv'
  BY <1>9, ControllersKeepPlaces
<1>10. ASSUME NEW task, Start(task) PROVE PlacesInv'
  BY <1>1, <1>10 DEF Start
<1>11. ASSUME Cancel \/ Save \/ BeginSets \/ EndSets \/ Poll PROVE PlacesInv'
  BY <1>1, <1>11 DEF Cancel, Save, BeginSets, EndSets, Poll
<1>12. ASSUME SaveEnds PROVE PlacesInv'
  <2>1. DOMAIN ghost' = DOMAIN ghost /\ (ghost'.retried = (ghost.retried \/ saved.errors))
    BY <1>12 DEF SaveEnds, RowsShape
  <2>2. /\ UNCHANGED <<disks, rows>> /\ phase # "closed" /\ phase' # "closed"
        /\ phase' = "open" => saved.errors
    BY <1>12 DEF SaveEnds
  <2> QED
    BY <1>1, <2>1, <2>2
<1>13. ASSUME Set PROVE PlacesInv'
  <2>1. /\ UNCHANGED <<rows, ghost, phase>> /\ phase = "setting"
        /\ DOMAIN disks' = DOMAIN disks /\ disks'.ctrls = disks.ctrls /\ disks'.known = disks.known
    <3>1. ASSUME NEW t, DeviceDone(t)
          PROVE  DOMAIN disks' = DOMAIN disks /\ disks'.ctrls = disks.ctrls /\ disks'.known = disks.known
      BY <3>1 DEF DeviceDone, DeviceResults, RowsShape
    <3> QED
      BY <1>13, <3>1 DEF Set, SetDone, SetIgnored, Fails
  <2> QED
    BY <2>1 DEF RowsShape, RowsInv, HeldInv, DistinctInv, FreeInv
<1>14. ASSUME Opener PROVE PlacesInv'
  <2>1. rows' = NoRows /\ ghost' = NoGhost /\ phase' = "closed" /\ UNCHANGED disks
    BY <1>14 DEF Opener
  <2> QED
    BY <2>1 DEF RowsShape, RowsInv, HeldInv, DistinctInv, FreeInv, NoRows, NoGhost
<1>15. ASSUME Disturb PROVE PlacesInv'
  <2>1. DOMAIN ghost' = DOMAIN ghost /\ ghost'.retried = ghost.retried
    BY <1>15 DEF Disturb, RowsShape
  <2> QED
    BY <1>1, <1>15, <2>1 DEF Disturb
<1>16. ASSUME UNCHANGED vars PROVE PlacesInv'
  BY <1>1, <1>16
     DEF vars
<1> HIDE DEF PlacesInv
<1> QED
  BY <1>2, <1>3, <1>5, <1>6, <1>7, <1>8, <1>9, <1>10, <1>11, <1>12,
     <1>13, <1>14, <1>15, <1>16
     DEF Next, OnStorageAddScsiController, OnRemoveScsiController, Foreign, PowerChange

\* Devices queued for places have different places, free on the machine until
\* Save, whichever controllers come and go beside the form.
THEOREM QueuedPlacesStayDistinct == Spec => []QueuedPlacesDistinct
<1>1. PlacesInv => QueuedPlacesDistinct
  BY DEF PlacesInv, DistinctInv, FreeInv, QueuedAt, QueuedPlacesDistinct
<1> QED
  BY <1>1, PlacesInit, PlacesStep, PTL DEF Spec

----------------------------------------------------------------------------
(* The cache.  Where the dialog reads the poll cache it reads what the host *)
(* has, unless another tool or a wait that ran out came between.            *)

LEMMA WritesByName ==
  /\ RenameVM.writes = {"name"}
  /\ SetNotes.writes = {"notes"}
  /\ SetMemoryConfig.writes = {"memory size", "numa memory", "memory weight"}
  /\ SetProcessorConfig.writes = {"processor count", "numa topology", "processor share"}
  /\ SetSecureBoot.writes = {"secure boot", "template"}
  /\ SetBootOrder.writes = {"boot order"}
  /\ SetBootOrderGen1.writes = {"boot codes"}
  /\ SetCheckpointConfig.writes = {"checkpoint type", "automatic checkpoints", "checkpoint location"}
  /\ SetSmartPagingFileLocation.writes = {"paging location"}
  /\ SetSerialPortConnection("com 1").writes = {"com 1"}
  /\ SetSerialPortConnection("com 2").writes = {"com 2"}
  /\ SetVmDebugger.writes = {"debugger"}
  /\ SetAutomaticActions.writes = {"start action", "start delay", "stop action"}
  /\ SetVmTpm.writes = {"tpm"}
  /\ SetVmStateEncryption.writes = {"encrypt"}
  /\ SetVmShielded.writes = {"shield"}
  /\ SetDvdMedia.writes = {"medium"}
  /\ SetDiskQos.writes = {"iops"}
  /\ SetIntegrationServiceEnabled.writes = {"integration"}
  /\ SetNetworkAdapterSwitch.writes = {"switch"}
  /\ SetNetworkAdapterMac.writes = {"mac"}
  /\ SetNetworkAdapterVlan.writes = {"vlan"}
  /\ SetNetworkAdapterAdvanced.writes = {"guards", "mirroring"}
  /\ SetNetworkAdapterBandwidth.writes = {"bandwidth min", "bandwidth max"}
  /\ SetNetworkAdapterProtectedNetwork.writes = {"protected"}
  /\ SetNetworkAdapterDeviceNaming.writes = {"naming"}
  /\ SetNetworkAdapterOffload.writes = {"offload"}
  /\ SetRdpOptionsOverride.writes = {"rdp override", "rdp options"}
BY DEF Setter, RenameVM, SetNotes, SetMemoryConfig, SetProcessorConfig, SetSecureBoot,
         SetBootOrder, SetBootOrderGen1, SetCheckpointConfig, SetSmartPagingFileLocation,
         SetSerialPortConnection, SetVmDebugger, SetAutomaticActions, SetVmTpm,
         SetVmStateEncryption, SetVmShielded, SetDvdMedia, SetDiskQos,
         SetIntegrationServiceEnabled, SetNetworkAdapterSwitch, SetNetworkAdapterMac,
         SetNetworkAdapterVlan, SetNetworkAdapterAdvanced, SetNetworkAdapterBandwidth,
         SetNetworkAdapterProtectedNetwork, SetNetworkAdapterDeviceNaming,
         SetNetworkAdapterOffload, SetRdpOptionsOverride

\* The fields of the sections of the dialog.
FromCacheNames ==
  {"name", "notes", "secure boot", "template", "start action", "start delay", "stop action",
   "checkpoint type", "automatic checkpoints", "checkpoint location", "paging location",
   "switch", "mac", "vlan", "guards", "mirroring", "protected", "naming", "bandwidth min",
   "bandwidth max", "offload"}

ReadNowNames ==
  {"memory size", "numa memory", "memory weight", "processor count", "numa topology",
   "processor share", "boot order", "boot codes", "tpm", "encrypt", "shield", "com 1", "com 2",
   "debugger", "integration", "medium", "iops", "rdp override", "rdp options"}

LEMMA FieldsNamed == Fields \subseteq FromCacheNames \cup ReadNowNames
<1> SUFFICES ASSUME NEW g \in DOMAIN Setters
             PROVE  Setters[g].writes \subseteq FromCacheNames \cup ReadNowNames
  BY GroupsAreSetters DEF Fields
<1>1. /\ RenameVM.writes \subseteq FromCacheNames \cup ReadNowNames
      /\ SetNotes.writes \subseteq FromCacheNames \cup ReadNowNames
      /\ SetMemoryConfig.writes \subseteq FromCacheNames \cup ReadNowNames
      /\ SetProcessorConfig.writes \subseteq FromCacheNames \cup ReadNowNames
      /\ SetSecureBoot.writes \subseteq FromCacheNames \cup ReadNowNames
      /\ SetBootOrder.writes \subseteq FromCacheNames \cup ReadNowNames
      /\ SetBootOrderGen1.writes \subseteq FromCacheNames \cup ReadNowNames
      /\ SetCheckpointConfig.writes \subseteq FromCacheNames \cup ReadNowNames
      /\ SetSmartPagingFileLocation.writes \subseteq FromCacheNames \cup ReadNowNames
      /\ SetSerialPortConnection("com 1").writes \subseteq FromCacheNames \cup ReadNowNames
      /\ SetSerialPortConnection("com 2").writes \subseteq FromCacheNames \cup ReadNowNames
      /\ SetVmDebugger.writes \subseteq FromCacheNames \cup ReadNowNames
      /\ SetAutomaticActions.writes \subseteq FromCacheNames \cup ReadNowNames
      /\ SetVmTpm.writes \subseteq FromCacheNames \cup ReadNowNames
      /\ SetVmStateEncryption.writes \subseteq FromCacheNames \cup ReadNowNames
      /\ SetVmShielded.writes \subseteq FromCacheNames \cup ReadNowNames
      /\ SetDvdMedia.writes \subseteq FromCacheNames \cup ReadNowNames
      /\ SetDiskQos.writes \subseteq FromCacheNames \cup ReadNowNames
      /\ SetIntegrationServiceEnabled.writes \subseteq FromCacheNames \cup ReadNowNames
      /\ SetNetworkAdapterSwitch.writes \subseteq FromCacheNames \cup ReadNowNames
      /\ SetNetworkAdapterMac.writes \subseteq FromCacheNames \cup ReadNowNames
      /\ SetNetworkAdapterVlan.writes \subseteq FromCacheNames \cup ReadNowNames
      /\ SetNetworkAdapterAdvanced.writes \subseteq FromCacheNames \cup ReadNowNames
      /\ SetNetworkAdapterBandwidth.writes \subseteq FromCacheNames \cup ReadNowNames
      /\ SetNetworkAdapterProtectedNetwork.writes \subseteq FromCacheNames \cup ReadNowNames
      /\ SetNetworkAdapterDeviceNaming.writes \subseteq FromCacheNames \cup ReadNowNames
      /\ SetNetworkAdapterOffload.writes \subseteq FromCacheNames \cup ReadNowNames
      /\ SetRdpOptionsOverride.writes \subseteq FromCacheNames \cup ReadNowNames
  BY WritesByName DEF FromCacheNames, ReadNowNames
<1> QED
  BY <1>1, SetterNames, SetterByName

LEMMA CachedNamed == FromCacheNames \subseteq Cached
<1>1. SetNetworkAdapterSwitch.writes \cup SetNetworkAdapterMac.writes \cup SetNetworkAdapterVlan.writes
        \cup SetNetworkAdapterAdvanced.writes \cup SetNetworkAdapterBandwidth.writes
        \cup SetNetworkAdapterProtectedNetwork.writes \cup SetNetworkAdapterDeviceNaming.writes
        \cup SetNetworkAdapterOffload.writes \subseteq Adapter
  <2>1. \A g \in {"switch", "mac", "vlan", "advanced", "bandwidth", "protected", "naming", "offload"} :
          Setters[g].writes \subseteq Adapter
    BY DEF Adapter
  <2> QED
    BY <2>1, SetterByName
<1>2. RenameVM.writes \cup SetNotes.writes \cup SetSecureBoot.writes \cup SetAutomaticActions.writes
        \cup SetCheckpointConfig.writes \cup SetSmartPagingFileLocation.writes \subseteq Cached
  BY SetterByName DEF Cached
<1> QED
  BY <1>1, <1>2, WritesByName DEF Cached, FromCacheNames

\* A section of the dialog shows the values the host has, or the poll saw.
Faithful(section) ==
  /\ DOMAIN section \subseteq Fields
  /\ \A f \in DOMAIN section :
       section[f] = host[f] \/ (f \in CachedFields /\ section[f] = cache.value[f])

LEMMA FromCacheFaithful ==
  ASSUME NEW fs, fs \subseteq FromCacheNames
  PROVE  Faithful(FromCache(fs)) /\ DOMAIN FromCache(fs) = fs \cap Fields
BY CachedNamed DEF Faithful, FromCache, CachedFields

LEMMA ReadNowFaithful ==
  ASSUME NEW fs
  PROVE  Faithful(ReadNow(fs)) /\ DOMAIN ReadNow(fs) = fs \cap Fields
BY DEF Faithful, ReadNow

LEMMA WithFaithful ==
  ASSUME NEW a, NEW b, Faithful(a), Faithful(b)
  PROVE  Faithful(With(a, b)) /\ DOMAIN With(a, b) = DOMAIN a \cup DOMAIN b
BY DEF Faithful, With

\* What opening the dialog loads, the host has or the poll saw.
LEMMA LoadedIsFaithful ==
  /\ DOMAIN Loaded = Fields
  /\ \A f \in Fields : Loaded[f] = host[f] \/ (f \in CachedFields /\ Loaded[f] = cache.value[f])
<1>2. \A fs : fs \subseteq FromCacheNames =>
        Faithful(FromCache(fs)) /\ DOMAIN FromCache(fs) = fs \cap Fields
  BY FromCacheFaithful
<1>3. Faithful(LoadGeneral)
      /\ DOMAIN LoadGeneral = Fields \cap {"name", "notes", "memory size", "numa memory",
           "memory weight", "processor count", "numa topology", "processor share"}
  <2> DEFINE cached == {"name", "notes"}
             now    == SetMemoryConfig.writes \cup SetProcessorConfig.writes
  <2>1. cached \subseteq FromCacheNames
    BY DEF FromCacheNames
  <2>2. cached \cup now = {"name", "notes", "memory size", "numa memory",
           "memory weight", "processor count", "numa topology", "processor share"}
    BY WritesByName
  <2>3. LoadGeneral = With(FromCache(cached), ReadNow(now))
    BY DEF LoadGeneral
  <2> HIDE DEF cached, now
  <2>4. /\ Faithful(FromCache(cached)) /\ DOMAIN FromCache(cached) = cached \cap Fields
        /\ Faithful(ReadNow(now)) /\ DOMAIN ReadNow(now) = now \cap Fields
    BY <1>2, <2>1, ReadNowFaithful
  <2>5. /\ Faithful(LoadGeneral)
        /\ DOMAIN LoadGeneral = DOMAIN FromCache(cached) \cup DOMAIN ReadNow(now)
    BY <2>3, <2>4, WithFaithful
  <2> QED
    BY <2>2, <2>4, <2>5
<1>4. Faithful(LoadFirmware)
      /\ DOMAIN LoadFirmware = Fields \cap {"secure boot", "template", "boot order", "boot codes"}
  <2> DEFINE cached == SetSecureBoot.writes
             now    == {"boot order", "boot codes"}
  <2>1. cached \subseteq FromCacheNames
    BY WritesByName DEF FromCacheNames
  <2>2. cached \cup now = {"secure boot", "template", "boot order", "boot codes"}
    BY WritesByName
  <2>3. LoadFirmware = With(FromCache(cached), ReadNow(now))
    BY DEF LoadFirmware
  <2> HIDE DEF cached, now
  <2>4. /\ Faithful(FromCache(cached)) /\ DOMAIN FromCache(cached) = cached \cap Fields
        /\ Faithful(ReadNow(now)) /\ DOMAIN ReadNow(now) = now \cap Fields
    BY <1>2, <2>1, ReadNowFaithful
  <2>5. /\ Faithful(LoadFirmware)
        /\ DOMAIN LoadFirmware = DOMAIN FromCache(cached) \cup DOMAIN ReadNow(now)
    BY <2>3, <2>4, WithFaithful
  <2> QED
    BY <2>2, <2>4, <2>5
<1>5. Faithful(LoadAutomatic)
      /\ DOMAIN LoadAutomatic = Fields \cap {"start action", "start delay", "stop action"}
  <2>1. SetAutomaticActions.writes = {"start action", "start delay", "stop action"}
    BY WritesByName
  <2>2. {"start action", "start delay", "stop action"} \subseteq FromCacheNames
    BY DEF FromCacheNames
  <2> QED
    BY <1>2, <2>1, <2>2 DEF LoadAutomatic
<1>6. Faithful(LoadCheckpoints)
      /\ DOMAIN LoadCheckpoints = Fields \cap {"checkpoint type", "automatic checkpoints",
           "checkpoint location", "paging location"}
  <2>1. SetCheckpointConfig.writes \cup SetSmartPagingFileLocation.writes =
          {"checkpoint type", "automatic checkpoints", "checkpoint location", "paging location"}
    BY WritesByName
  <2>2. {"checkpoint type", "automatic checkpoints", "checkpoint location", "paging location"}
         \subseteq FromCacheNames
    BY DEF FromCacheNames
  <2> QED
    BY <1>2, <2>1, <2>2 DEF LoadCheckpoints
<1>7. Faithful(LoadAdapter) /\ DOMAIN LoadAdapter = Fields \cap {"switch", "mac"}
  <2>1. {"switch", "mac"} \subseteq FromCacheNames
    BY DEF FromCacheNames
  <2> QED
    BY <1>2, <2>1 DEF LoadAdapter
<1>8. Faithful(LoadVlan) /\ DOMAIN LoadVlan = Fields \cap {"vlan"}
  <2>1. {"vlan"} \subseteq FromCacheNames
    BY DEF FromCacheNames
  <2> QED
    BY <1>2, <2>1 DEF LoadVlan
<1>9. Faithful(LoadAdvanced)
      /\ DOMAIN LoadAdvanced = Fields \cap {"guards", "mirroring", "protected", "naming"}
  <2>1. SetNetworkAdapterAdvanced.writes \cup {"protected", "naming"}
          = {"guards", "mirroring", "protected", "naming"}
    BY WritesByName
  <2>2. {"guards", "mirroring", "protected", "naming"} \subseteq FromCacheNames
    BY DEF FromCacheNames
  <2> QED
    BY <1>2, <2>1, <2>2 DEF LoadAdvanced
<1>10. Faithful(LoadBandwidth)
      /\ DOMAIN LoadBandwidth = Fields \cap {"bandwidth min", "bandwidth max"}
  <2>1. SetNetworkAdapterBandwidth.writes = {"bandwidth min", "bandwidth max"}
    BY WritesByName
  <2>2. {"bandwidth min", "bandwidth max"} \subseteq FromCacheNames
    BY DEF FromCacheNames
  <2> QED
    BY <1>2, <2>1, <2>2 DEF LoadBandwidth
<1>11. Faithful(LoadOffload) /\ DOMAIN LoadOffload = Fields \cap {"offload"}
  <2>1. {"offload"} \subseteq FromCacheNames
    BY DEF FromCacheNames
  <2> QED
    BY <1>2, <2>1 DEF LoadOffload
<1>12. Faithful(LoadSecurity) /\ DOMAIN LoadSecurity = Fields \cap {"tpm", "encrypt", "shield"}
  BY ReadNowFaithful DEF LoadSecurity
<1>13. Faithful(LoadPorts) /\ DOMAIN LoadPorts = Fields \cap {"com 1", "com 2", "debugger"}
  BY ReadNowFaithful DEF LoadPorts
<1>14. Faithful(LoadIntegration) /\ DOMAIN LoadIntegration = Fields \cap {"integration"}
  BY ReadNowFaithful DEF LoadIntegration
<1>15. Faithful(LoadDrives) /\ DOMAIN LoadDrives = Fields \cap {"medium", "iops"}
  BY ReadNowFaithful DEF LoadDrives
<1>16. Faithful(LoadRdp) /\ DOMAIN LoadRdp = Fields \cap {"rdp override", "rdp options"}
  <2>1. SetRdpOptionsOverride.writes = {"rdp override", "rdp options"}
    BY WritesByName
  <2> QED
    BY <2>1, ReadNowFaithful DEF LoadRdp
<1>17. \A section \in Sections : Faithful(section)
  BY ZenonT(60), <1>3, <1>4, <1>5, <1>6, <1>7, <1>8, <1>9, <1>10, <1>11, <1>12,
     <1>13, <1>14, <1>15, <1>16
     DEF Sections
<1>18. ASSUME NEW f \in Fields PROVE \E section \in Sections : f \in DOMAIN section
  <2>1. f \in FromCacheNames \cup ReadNowNames
    BY FieldsNamed
  <2> QED
    BY <1>3, <1>4, <1>5, <1>6, <1>7, <1>8, <1>9, <1>10, <1>11, <1>12,
     <1>13, <1>14, <1>15, <1>16, <2>1
     DEF Sections, FromCacheNames, ReadNowNames
<1>19. ASSUME NEW f \in Fields
       PROVE  Loaded[f] = host[f] \/ (f \in CachedFields /\ Loaded[f] = cache.value[f])
  <2> DEFINE section == CHOOSE section \in Sections : f \in DOMAIN section
  <2>1. section \in Sections /\ f \in DOMAIN section
    BY <1>18
  <2>2. Loaded[f] = section[f]
    BY DEF Loaded
  <2> QED
    BY <1>17, <2>1, <2>2 DEF Faithful
<1> QED
  BY <1>19 DEF Loaded

CacheInv ==
  /\ host = [f \in Fields |-> host[f]]
  /\ ~behind /\ phase \notin {"setting", "waiting"} =>
       cache.value = [f \in CachedFields |-> host[f]]

LEMMA LoadedIsHost ==
  ASSUME CacheInv, phase = "closed", ~behind
  PROVE  Loaded = host
<1>1. cache.value = [f \in CachedFields |-> host[f]]
  BY DEF CacheInv
<1>2. \A f \in Fields : Loaded[f] = host[f]
  BY <1>1, LoadedIsFaithful
<1>3. Loaded = [f \in Fields |-> Loaded[f]]
  BY DEF Loaded
<1> QED
  BY <1>2, <1>3 DEF CacheInv

LEMMA CacheStep == CacheInv /\ [Next]_vars => CacheInv'
<1> SUFFICES ASSUME CacheInv, [Next]_vars PROVE CacheInv'
  OBVIOUS
<1> USE DEF CacheInv
<1>1. ASSUME UNCHANGED <<host, cache, behind>>,
             phase' \notin {"setting", "waiting"} => phase \notin {"setting", "waiting"}
      PROVE  CacheInv'
  BY <1>1
<1>2. ASSUME UNCHANGED host, (cache' = Snapshot /\ UNCHANGED behind) \/ behind' = TRUE
             \/ (cache' = Snapshot /\ behind' = FALSE)
      PROVE  CacheInv'
  BY <1>2 DEF Snapshot
<1>3. ASSUME Open \/ Opener \/ Cancel PROVE CacheInv'
  BY <1>1, <1>3 DEF Open, Opener, Cancel
<1>4. ASSUME Save \/ BeginSets \/ EndSets PROVE CacheInv'
  BY <1>1, <1>4 DEF Save, BeginSets, EndSets
<1>5. ASSUME SaveEnds \/ Poll PROVE CacheInv'
  BY <1>2, <1>5 DEF SaveEnds, Poll
<1>6. ASSUME Set PROVE CacheInv'
  <2>1. ASSUME NEW g \in Groups, SetDone(g) PROVE host' = [f \in Fields |-> host'[f]]
    <3>1. DOMAIN Given(g) \subseteq Fields
      BY GivenFields
    <3> QED
      BY <2>1, <3>1 DEF SetDone, With
  <2>2. host' = [f \in Fields |-> host'[f]]
    BY <1>6, <2>1 DEF Set, SetIgnored, DeviceDone, Fails
  <2>3. phase' = "setting"
    BY <1>6 DEF Set
  <2> QED
    BY <2>2, <2>3
<1>7. ASSUME NEW f \in Edited, Change(f) PROVE CacheInv'
  BY <1>1, <1>7 DEF Change
<1>8. ASSUME NEW r, Click(r) PROVE CacheInv'
  BY <1>1, <1>8 DEF Click
<1>9. ASSUME NEW kind, Queue(kind) PROVE CacheInv'
  BY <1>8, <1>9 DEF Queue
<1>10. ASSUME NEW task, Start(task) PROVE CacheInv'
  BY <1>1, <1>10 DEF Start
<1>11. ASSUME AddScsiEnds \/ RemoveScsiControllerByRef PROVE CacheInv'
  BY <1>1, <1>11 DEF AddScsiEnds, RemoveScsiControllerByRef, PendingEnds
<1>12. ASSUME NEW f \in Shared, Foreign(f) PROVE CacheInv'
  BY <1>12 DEF Foreign, Disturb
<1>13. ASSUME NEW state, PowerChange(state) PROVE CacheInv'
  BY <1>2, <1>13 DEF PowerChange, Disturb
<1>14. ASSUME UNCHANGED vars PROVE CacheInv'
  BY <1>1, <1>14 DEF vars
<1> QED
  BY <1>3, <1>4, <1>5, <1>6, <1>7, <1>8, <1>9, <1>10, <1>11, <1>12, <1>13, <1>14
     DEF Next, MarkDrive, MarkAdapter, OnNetworkAddAdapter, OnStorageAttachVhd,
         OnStorageCreateVhd, OnStorageAttachPhysical, OnStorageAddDvdDrive,
         OnStorageAddScsiController, OnRemoveScsiController

LEMMA OnlyOpenOpens == Next /\ phase = "closed" /\ phase' = "open" => Open
BY DEF Next, Cancel, Save, BeginSets, Set, EndSets, SaveEnds, Opener, Change, Interactive, MarkDrive,
       MarkAdapter, OnNetworkAddAdapter, Click, OnStorageAttachVhd, OnStorageCreateVhd,
       OnStorageAttachPhysical, OnStorageAddDvdDrive, Queue, OnStorageAddScsiController, AddScsiEnds,
       RemoveScsiControllerByRef, OnRemoveScsiController, Start, PendingEnds, Poll, Foreign,
       PowerChange, Disturb

LEMMA CacheInit == Init => CacheInv
<1> SUFFICES ASSUME Init PROVE CacheInv
  OBVIOUS
<1>1. PICK odd, on, full : host = Stored(odd, on, full)
  BY Zenon DEF Init
<1>2. cache.value = [f \in CachedFields |-> host[f]]
  <2>1. PICK state : cache = [value |-> [f \in CachedFields |-> host[f]], power |-> state]
    BY Zenon DEF Init
  <2> QED
    BY <2>1
<1>3. host = [f \in Fields |-> host[f]]
  BY <1>1 DEF Stored
<1> QED
  BY <1>2, <1>3 DEF CacheInv

\* A dialog opened after a Save shows what that Save wrote.
THEOREM ReopenedIsFresh == Spec => ReopenShowsSaved
<1>1. CacheInv /\ [Next]_vars =>
        [phase = "closed" /\ phase' = "open" /\ ~behind => form'.orig = host]_vars
  <2> SUFFICES ASSUME CacheInv, Next, phase = "closed", phase' = "open", ~behind
               PROVE  form'.orig = host
    OBVIOUS
  <2>1. form'.orig = Loaded
    BY OnlyOpenOpens DEF Open, LoadFromVm
  <2> QED
    BY <2>1, LoadedIsHost
<1> QED
  BY <1>1, CacheInit, CacheStep, PTL DEF Spec, ReopenShowsSaved

----------------------------------------------------------------------------
(* Induction over numbers, and the sequences Save puts its plan together    *)
(* from.                                                                   *)

\* What holds of 0, and of n + 1 if it holds of n, holds of every number.
LEMMA NatSets ==
  ASSUME NEW T \in SUBSET Nat, 0 \in T, \A n \in T : n + 1 \in T
  PROVE  T = Nat
<1> SUFFICES ASSUME Nat \ T # {} PROVE FALSE
  OBVIOUS
<1>1. PICK x \in Nat \ T : \A y \in Nat \ T : <<y, x>> \notin OpToRel(<, Nat)
  BY WFMin, NatLessThanWellFounded
<1>2. x - 1 \in Nat
  OBVIOUS
<1>3. <<x - 1, x>> \in OpToRel(<, Nat)
  BY <1>2 DEF OpToRel
<1>4. x - 1 \in T
  BY <1>1, <1>2, <1>3
<1>5. (x - 1) + 1 \in T
  BY <1>4
<1> QED
  BY <1>5

\* The function Only is defined by, up to the m-th element.
Taking(f, s, keep, n) ==
  IF n = 0 THEN <<>> ELSE IF s[n] \in keep THEN Append(f[n - 1], s[n]) ELSE f[n - 1]

Takes(f, s, keep, m) == f = [n \in 0 .. m |-> Taking(f, s, keep, n)]

LEMMA TakesExists ==
  ASSUME NEW s, NEW keep, NEW n \in Nat
  PROVE  \E f : Takes(f, s, keep, n)
<1> DEFINE T == {m \in Nat : \E f : Takes(f, s, keep, m)}
<1>1. 0 \in T
  <2> DEFINE f == [i \in 0 .. 0 |-> <<>>]
  <2>1. \A i \in 0 .. 0 : Taking(f, s, keep, i) = <<>>
    BY DEF Taking
  <2>2. Takes(f, s, keep, 0)
    BY <2>1 DEF Takes
  <2> QED
    BY <2>2
<1>2. ASSUME NEW m \in T PROVE m + 1 \in T
  <2>1. m \in Nat /\ m + 1 \in Nat
    OBVIOUS
  <2>2. PICK f : Takes(f, s, keep, m)
    OBVIOUS
  <2> DEFINE g == [i \in 0 .. m + 1 |-> Taking(f, s, keep, i)]
  <2>3. \A i \in 0 .. m : f[i] = Taking(f, s, keep, i)
    BY <2>2, Zenon DEF Takes
  <2>4. \A i \in 0 .. m : i \in 0 .. m + 1
    BY <2>1
  <2>5. \A i \in 0 .. m : g[i] = f[i]
    BY <2>3, <2>4
  <2> HIDE DEF g
  <2>6. ASSUME NEW i \in 0 .. m + 1 PROVE Taking(f, s, keep, i) = Taking(g, s, keep, i)
    <3>1. CASE i = 0
      BY <3>1 DEF Taking
    <3>2. CASE i # 0
      <4>1. i - 1 \in 0 .. m
        BY <2>1, <3>2
      <4>2. g[i - 1] = f[i - 1]
        BY <2>5, <4>1
      <4> QED
        BY <4>2 DEF Taking
    <3> QED
      BY <3>1, <3>2
  <2>7. g = [i \in 0 .. m + 1 |-> Taking(g, s, keep, i)]
    BY <2>6 DEF g
  <2>8. Takes(g, s, keep, m + 1)
    BY <2>7, Zenon DEF Takes
  <2> QED
    BY <2>1, <2>8
<1> HIDE DEF T
<1>3. T \in SUBSET Nat
  BY DEF T
<1>4. T = Nat
  BY <1>1, <1>2, <1>3, NatSets
<1> QED
  BY <1>4 DEF T

\* What Only keeps: the elements of both, and no others.
LEMMA OnlyIs ==
  ASSUME NEW S, NEW s \in Seq(S), NEW keep
  PROVE  Only(s, keep) \in Seq(S) /\ ToSet(Only(s, keep)) = ToSet(s) \cap keep
<1>1. Len(s) \in Nat /\ DOMAIN s = 1 .. Len(s) /\ \A i \in 1 .. Len(s) : s[i] \in S
  BY LenProperties, ElementOfSeq
<1> DEFINE g == CHOOSE f : Takes(f, s, keep, Len(s))
<1>2. Takes(g, s, keep, Len(s))
  BY <1>1, TakesExists
<1>3. Only(s, keep) = g[Len(s)]
  BY Zenon DEF Only, Takes, Taking
<1> HIDE DEF g
<1>4. \A i \in 0 .. Len(s) : g[i] = Taking(g, s, keep, i)
  BY <1>2, Zenon DEF Takes
<1> DEFINE Upto(n) == {s[i] : i \in 1 .. n}
           Kept(n) == g[n] \in Seq(S) /\ ToSet(g[n]) = Upto(n) \cap keep
           T == {n \in Nat : n <= Len(s) => Kept(n)}
<1>5. 0 \in T
  <2>1. g[0] = <<>>
    BY <1>1, <1>4 DEF Taking
  <2>2. Upto(0) = {} /\ ToSet(<<>>) = {} /\ <<>> \in Seq(S)
    BY DEF ToSet
  <2>3. Kept(0)
    BY <2>1, <2>2
  <2> HIDE DEF Kept
  <2> QED
    BY <2>3
<1>6. ASSUME NEW n \in T PROVE n + 1 \in T
  <2>0. n \in Nat /\ n + 1 \in Nat /\ (n <= Len(s) => Kept(n))
    OBVIOUS
  <2>1. CASE ~(n + 1 <= Len(s))
    BY <2>0, <2>1
  <2>2. CASE n + 1 <= Len(s)
    <3> DEFINE q == g[n]
               x == s[n + 1]
    <3>1. q \in Seq(S) /\ ToSet(q) = Upto(n) \cap keep
      BY <1>1, <2>0, <2>2
    <3>2. n + 1 \in 1 .. Len(s) /\ n + 1 # 0 /\ (n + 1) - 1 = n /\ n + 1 \in 0 .. Len(s)
      BY <1>1, <2>0, <2>2
    <3>3. x \in S
      BY <1>1, <3>2
    <3>4. g[n + 1] = IF x \in keep THEN Append(q, x) ELSE q
      BY <1>4, <3>2 DEF Taking
    <3>5. Upto(n + 1) = Upto(n) \cup {x}
      BY <2>0
    <3>6. ToSet(Append(q, x)) = ToSet(q) \cup {x} /\ Append(q, x) \in Seq(S)
      <4> HIDE DEF q, x
      <4>1. /\ DOMAIN q = 1 .. Len(q) /\ Len(q) \in Nat
            /\ DOMAIN Append(q, x) = 1 .. Len(q) + 1
            /\ \A k \in 1 .. Len(q) : Append(q, x)[k] = q[k]
            /\ Append(q, x)[Len(q) + 1] = x /\ Append(q, x) \in Seq(S)
        BY <3>1, <3>3, LenProperties, AppendProperties
      <4> QED
        BY <4>1 DEF ToSet
    <3> HIDE DEF Upto, q, x
    <3>7. Kept(n + 1)
      BY <3>1, <3>4, <3>5, <3>6
    <3> HIDE DEF Kept
    <3> QED
      BY <2>0, <3>7
  <2> QED
    BY <2>1, <2>2
<1> HIDE DEF Kept
<1>7. T \in SUBSET Nat
  OBVIOUS
<1> HIDE DEF T
<1>8. T = Nat
  BY <1>5, <1>6, <1>7, NatSets
<1>9. Kept(Len(s))
  BY <1>1, <1>8 DEF T
<1> QED
  BY <1>1, <1>3, <1>9 DEF ToSet, Kept

\* A finite set as a sequence.
LEMMA SetToSeqIs ==
  ASSUME NEW S, IsFiniteSet(S)
  PROVE  SetToSeq(S) \in Seq(S) /\ ToSet(SetToSeq(S)) = S
<1> DEFINE n == Cardinality(S)
<1>1. n \in Nat /\ ExistsBijection(1 .. n, S)
  BY FS_CardinalityType
<1>2. PICK h : h \in [1 .. n -> S] /\ IsInjective(h)
  BY <1>1 DEF ExistsBijection, Bijection, Injection, IsInjective
<1> DEFINE f == SetToSeq(S)
<1>3. f \in [1 .. n -> S] /\ IsInjective(f)
  BY <1>2 DEF SetToSeq
<1>4. f \in Seq(S)
  BY <1>1, <1>3, IsASeq
<1>5. f \in Injection(1 .. n, S)
  BY <1>3 DEF Injection, IsInjective
<1>6. IsFiniteSet(1 .. n) /\ Cardinality(1 .. n) = n
  BY <1>1, FS_Interval
<1>7. f \in Surjection(1 .. n, S)
  BY <1>5, <1>6, FS_Injection
<1> QED
  BY <1>3, <1>4, <1>7 DEF ToSet, Surjection
----------------------------------------------------------------------------
(* Types.                                                                  *)

Powers     == {"Off", "Running", "Saved"}
DriveKinds == {"none", "disk", "dvd", "raw"}
Queues     == Seq([do : Kinds, at : AnyPlace])
Tasks ==
  [do : Groups, at : {Here}] \cup [do : Kinds, at : AnyPlace]
    \cup [do : {"dvdRemove", "detach"}, at : Places]
    \cup [do : {"nicRemove", "nicAdd"}, at : {Here}]

Texture == [Fields -> Values]

DisksTyped(d) ==
  /\ d \in [gen2 : BOOLEAN, checkpoints : BOOLEAN, ctrls : SUBSET Controllers,
            known : SUBSET Controllers, nics : Nat, drives : [Places -> DriveKinds]]
  /\ d.ctrls \subseteq d.known

RowsTyped(r) ==
  /\ r \in [ctrls : SUBSET Controllers, drives : [Places -> DriveKinds], marks : SUBSET Places,
            queued : SUBSET Places, queue : Queues, nicRemove : BOOLEAN, nicAdds : Nat]
  /\ IsFiniteSet(r.marks)

FormTyped(f) == f \in [orig : Texture, shown : Texture, power : Powers, rdpChanged : BOOLEAN]

SavedTyped(s) ==
  s \in [shown : Texture, unshown : SUBSET Fields, changed : SUBSET Groups, marks : SUBSET Places, queue : Queues,
         nics : Int, plan : Seq(Tasks), errors : BOOLEAN]

Typed ==
  /\ host \in Texture /\ DisksTyped(disks) /\ power \in Powers
  /\ cache \in [value : [CachedFields -> Values], power : Powers]
  /\ phase \in {"closed", "open", "saving", "setting", "waiting", "saved", "cancelled"}
  /\ FormTyped(form) /\ RowsTyped(rows)
  /\ pending \in {Task("none", Here), Task("add", Here)} \cup {Task("remove", Unplaced(c)) : c \in Controllers}
  /\ overlay \in BOOLEAN
  /\ SavedTyped(saved)
  /\ session \in Values
  /\ ghost \in [touched : SUBSET Fields, disturbed : BOOLEAN, retried : BOOLEAN, nics : Nat]
  /\ behind \in BOOLEAN
  /\ budget \in [edits : Nat, trouble : Nat]

LEMMA TypedIsTypeOK == Typed => TypeOK
<1> SUFFICES ASSUME Typed PROVE TypeOK
  OBVIOUS
<1>1. ASSUME NEW i \in DOMAIN rows.queue
      PROVE  rows.queue[i].do \in Kinds /\ rows.queue[i].at \in AnyPlace
  <2>1. rows.queue \in Queues
    BY DEF Typed, RowsTyped
  <2>2. rows.queue[i] \in [do : Kinds, at : AnyPlace]
    BY <2>1, ElementOfSeq, LenProperties DEF Queues
  <2> QED
    BY <2>2
<1>2. ASSUME NEW i \in DOMAIN saved.plan PROVE saved.plan[i].do \in Groups \cup DeviceTasks
  <2>1. saved.plan \in Seq(Tasks)
    BY DEF Typed, SavedTyped
  <2>2. saved.plan[i] \in Tasks
    BY <2>1, ElementOfSeq, LenProperties
  <2> QED
    BY <2>2 DEF Tasks, DeviceTasks
<1>3. host \in [Fields -> Values] /\ session \in Values /\ power \in Powers /\ overlay \in BOOLEAN
  BY DEF Typed, Texture
<1>4. /\ disks.drives \in [Places -> DriveKinds] /\ disks.nics \in Nat
      /\ disks.ctrls \subseteq disks.known /\ disks.known \subseteq Controllers
  BY DEF Typed, DisksTyped
<1>5. cache.value \in [CachedFields -> Values] /\ cache.power \in Powers
  BY DEF Typed
<1>6. form.orig \in [Fields -> Values] /\ form.shown \in [Fields -> Values]
  BY DEF Typed, FormTyped, Texture
<1>7. /\ rows.ctrls \subseteq Controllers /\ rows.drives \in [Places -> DriveKinds]
      /\ rows.marks \subseteq Places /\ rows.queued \subseteq Places
  BY DEF Typed, RowsTyped
<1>8. /\ phase \in {"closed", "open", "saving", "setting", "waiting", "saved", "cancelled"}
      /\ pending \in {Task("none", Here), Task("add", Here)} \cup {Task("remove", Unplaced(c)) : c \in Controllers}
  BY DEF Typed
<1> QED
  BY <1>1, <1>2, <1>3, <1>4, <1>5, <1>6, <1>7, <1>8 DEF TypeOK, Powers, DriveKinds

LEMMA NothingTyped == FormTyped(NoForm) /\ RowsTyped(NoRows) /\ SavedTyped(NotSaved)
<1>1. "old" \in Values /\ [f \in Fields |-> "old"] \in Texture
  BY DEF Values, Texture
<1>2. FormTyped(NoForm)
  BY <1>1 DEF FormTyped, NoForm, Powers
<1>3. RowsTyped(NoRows)
  BY FS_EmptySet DEF RowsTyped, NoRows, DriveKinds, Queues
<1>4. SavedTyped(NotSaved)
  BY <1>1 DEF SavedTyped, NotSaved, NoForm, Queues
<1> QED
  BY <1>2, <1>3, <1>4

LEMMA TypedInit == Init => Typed
<1> SUFFICES ASSUME Init PROVE Typed
  OBVIOUS
<1>1. PICK full \in BOOLEAN, state \in {"Off", "Running", "Saved"}, odd \in {{}} \cup {{f} : f \in Odd},
           on \in {{}, {"tpm", "encrypt", "shield"}}, ctrls \in {Ide, {}} \cup {{CHOOSE c \in Scsi : TRUE}} :
        /\ full <=> odd # {}
        /\ ctrls = Ide => on = {}
        /\ host = Stored(odd, on, full)
        /\ disks = [gen2 |-> ctrls # Ide, checkpoints |-> full, ctrls |-> ctrls, known |-> ctrls, nics |-> 1,
                    drives |-> [p \in Places |-> IF ~full \/ p[1] \notin ctrls THEN "none"
                                               ELSE IF p[2] = 0 THEN "disk" ELSE IF p[2] = 1 THEN "dvd" ELSE "none"]]
        /\ power = state
        /\ cache = [value |-> [f \in CachedFields |-> host[f]], power |-> state]
        /\ session = host["rdp options"]
  BY DEF Init
<1>2. host \in Texture
  <2>1. \A f \in Fields : StoredValue(f, odd, on, full) \in Values
    BY DEF StoredValue, Values, OnOff
  <2> QED
    BY <1>1, <2>1 DEF Stored, Texture
<1>3. DisksTyped(disks)
  <2>1. ctrls \in SUBSET Controllers
    BY SettingsAssumption DEF Controllers
  <2> DEFINE gen == ctrls # Ide
             drives == [p \in Places |-> IF ~full \/ p[1] \notin ctrls THEN "none"
                                         ELSE IF p[2] = 0 THEN "disk" ELSE IF p[2] = 1 THEN "dvd" ELSE "none"]
  <2>2. gen \in BOOLEAN /\ drives \in [Places -> DriveKinds]
    BY DEF DriveKinds
  <2>3. disks = [gen2 |-> gen, checkpoints |-> full, ctrls |-> ctrls, known |-> ctrls, nics |-> 1, drives |-> drives]
    BY <1>1
  <2> HIDE DEF gen, drives
  <2> QED
    BY <2>1, <2>2, <2>3 DEF DisksTyped
<1>4. session \in Values /\ cache \in [value : [CachedFields -> Values], power : Powers]
  BY <1>1, <1>2, RdpIsField DEF Texture, CachedFields, Powers
<1>5. ghost \in [touched : SUBSET Fields, disturbed : BOOLEAN, retried : BOOLEAN, nics : Nat]
  BY DEF Init, NoGhost
<1>6. budget \in [edits : Nat, trouble : Nat]
  BY SettingsAssumption DEF Init
<1> QED
  BY <1>1, <1>2, <1>3, <1>4, <1>5, <1>6, NothingTyped DEF Init, Typed, Powers

----------------------------------------------------------------------------
(* What Save is to do.                                                     *)

LEMMA CatIs ==
  ASSUME NEW S, NEW a \in Seq(S), NEW b \in Seq(S)
  PROVE  a \o b \in Seq(S) /\ ToSet(a \o b) = ToSet(a) \cup ToSet(b)
<1>1. /\ DOMAIN a = 1 .. Len(a) /\ Len(a) \in Nat /\ DOMAIN b = 1 .. Len(b) /\ Len(b) \in Nat
      /\ DOMAIN (a \o b) = 1 .. Len(a) + Len(b) /\ a \o b \in Seq(S)
      /\ \A i \in 1 .. Len(a) + Len(b) : (a \o b)[i] = IF i <= Len(a) THEN a[i] ELSE b[i - Len(a)]
  BY LenProperties, ConcatProperties
<1>2. ASSUME NEW i \in 1 .. Len(b) PROVE (a \o b)[Len(a) + i] = b[i] /\ Len(a) + i \in 1 .. Len(a) + Len(b)
  BY <1>1
<1>3. ASSUME NEW i \in 1 .. Len(a) PROVE (a \o b)[i] = a[i] /\ i \in 1 .. Len(a) + Len(b)
  BY <1>1
<1>4. ASSUME NEW i \in 1 .. Len(a) + Len(b) PROVE (a \o b)[i] \in ToSet(a) \cup ToSet(b)
  <2>1. i <= Len(a) => i \in DOMAIN a
    BY <1>1
  <2>2. ~(i <= Len(a)) => i - Len(a) \in DOMAIN b
    BY <1>1
  <2> QED
    BY <1>1, <2>1, <2>2 DEF ToSet
<1>5. ToSet(a \o b) \subseteq ToSet(a) \cup ToSet(b)
  BY <1>1, <1>4 DEF ToSet
<1>6. ToSet(a) \subseteq ToSet(a \o b)
  BY <1>1, <1>3 DEF ToSet
<1>7. ToSet(b) \subseteq ToSet(a \o b)
  <2>1. ASSUME NEW i \in 1 .. Len(b) PROVE b[i] \in ToSet(a \o b)
    BY <1>1, <1>2 DEF ToSet
  <2> QED
    BY <1>1, <2>1 DEF ToSet
<1> QED
  BY <1>1, <1>5, <1>6, <1>7

\* The parts of a plan.
SetTasks(order, changes) ==
  LET due == Only(order, changes) IN [i \in DOMAIN due |-> Task(due[i], Here)]
QueuedTasks(kind) == Only(rows.queue, {q \in ToSet(rows.queue) : q.do = kind})
MarkedTasks(kinds, do) ==
  LET ps == SetToSeq({p \in rows.marks : rows.drives[p] \in kinds}) IN [i \in DOMAIN ps |-> Task(do, ps[i])]
NicRemovals  == IF rows.nicRemove THEN <<Task("nicRemove", Here)>> ELSE <<>>
NicAdditions == [i \in 1 .. rows.nicAdds |-> Task("nicAdd", Here)]

LEMMA PlanParts ==
  ASSUME NEW changes
  PROVE  SavePlan(changes) =
           SetTasks(GeneralOrder, changes)
             \o MarkedTasks({"dvd"}, "dvdRemove") \o QueuedTasks("dvdAdd")
             \o MarkedTasks({"disk", "raw"}, "detach") \o QueuedTasks("attach") \o QueuedTasks("create")
             \o SetTasks(<<"qos">>, changes) \o QueuedTasks("physical")
             \o SetTasks(AdapterOrder, changes)
             \o NicRemovals \o NicAdditions
             \o SetTasks(<<"rdp">>, changes)
BY DEF SavePlan, SetTasks, QueuedTasks, MarkedTasks, NicRemovals, NicAdditions


\* The group names in the orders of the sets are all there are.
LEMMA OrdersIs ==
  /\ GeneralOrder \in Seq(DOMAIN Setters) /\ AdapterOrder \in Seq(DOMAIN Setters)
  /\ <<"qos">> \in Seq(DOMAIN Setters) /\ <<"rdp">> \in Seq(DOMAIN Setters)
  /\ DOMAIN Setters = ToSet(GeneralOrder) \cup ToSet(AdapterOrder) \cup ToSet(<<"qos">>) \cup ToSet(<<"rdp">>)
<1>1. DOMAIN GeneralOrder = 1 .. 17 /\ DOMAIN AdapterOrder = 1 .. 9
  BY DEF GeneralOrder, AdapterOrder
<1>2. /\ GeneralOrder \in Seq(DOMAIN Setters) /\ AdapterOrder \in Seq(DOMAIN Setters)
      /\ <<"qos">> \in Seq(DOMAIN Setters) /\ <<"rdp">> \in Seq(DOMAIN Setters)
  BY SetterNames DEF GeneralOrder, AdapterOrder
<1>3. ToSet(<<"qos">>) = {"qos"} /\ ToSet(<<"rdp">>) = {"rdp"}
  BY DEF ToSet
<1>4. /\ GeneralOrder[1] = "name" /\ GeneralOrder[2] = "notes" /\ GeneralOrder[3] = "memory"
      /\ GeneralOrder[4] = "processor" /\ GeneralOrder[5] = "firmware" /\ GeneralOrder[6] = "boot"
      /\ GeneralOrder[7] = "bootGen1" /\ GeneralOrder[8] = "checkpoint" /\ GeneralOrder[9] = "paging"
      /\ GeneralOrder[10] = "com1" /\ GeneralOrder[11] = "com2" /\ GeneralOrder[12] = "debugger"
      /\ GeneralOrder[13] = "auto" /\ GeneralOrder[14] = "tpm" /\ GeneralOrder[15] = "encrypt"
      /\ GeneralOrder[16] = "shield" /\ GeneralOrder[17] = "media"
  BY DEF GeneralOrder
<1>5. /\ AdapterOrder[1] = "integration" /\ AdapterOrder[2] = "switch" /\ AdapterOrder[3] = "mac"
      /\ AdapterOrder[4] = "vlan" /\ AdapterOrder[5] = "advanced" /\ AdapterOrder[6] = "bandwidth"
      /\ AdapterOrder[7] = "protected" /\ AdapterOrder[8] = "naming" /\ AdapterOrder[9] = "offload"
  BY DEF AdapterOrder
<1>6. \A i \in 1 .. 17 : GeneralOrder[i] \in ToSet(GeneralOrder)
  BY <1>1 DEF ToSet
<1>7. \A i \in 1 .. 9 : AdapterOrder[i] \in ToSet(AdapterOrder)
  BY <1>1 DEF ToSet
<1>8. {"name", "notes", "memory", "processor", "firmware", "boot", "bootGen1", "checkpoint", "paging",
       "com1", "com2", "debugger", "auto", "tpm", "encrypt", "shield", "media"} \subseteq ToSet(GeneralOrder)
  BY <1>4, <1>6
<1>9. {"integration", "switch", "mac", "vlan", "advanced", "bandwidth", "protected", "naming", "offload"}
        \subseteq ToSet(AdapterOrder)
  BY <1>5, <1>7
<1>10. ToSet(GeneralOrder) \subseteq DOMAIN Setters /\ ToSet(AdapterOrder) \subseteq DOMAIN Setters
  BY <1>2, LenProperties, ElementOfSeq DEF ToSet
<1> QED
  BY <1>2, <1>3, <1>8, <1>9, <1>10, SetterNames

LEMMA SetTasksIs ==
  ASSUME NEW order \in Seq(DOMAIN Setters), NEW changes, changes \subseteq Groups
  PROVE  /\ SetTasks(order, changes) \in Seq(Tasks)
         /\ ToSet(SetTasks(order, changes)) = {Task(g, Here) : g \in ToSet(order) \cap changes}
<1> DEFINE due == Only(order, changes)
<1>1. due \in Seq(DOMAIN Setters) /\ ToSet(due) = ToSet(order) \cap changes
  BY OnlyIs
<1>2. SetTasks(order, changes) = [i \in DOMAIN due |-> Task(due[i], Here)]
  BY DEF SetTasks
<1> HIDE DEF due
<1>3. DOMAIN due = 1 .. Len(due) /\ Len(due) \in Nat /\ \A i \in 1 .. Len(due) : due[i] \in ToSet(order) \cap changes
  BY <1>1, LenProperties DEF ToSet
<1>4. \A g \in changes : Task(g, Here) \in Tasks
  BY DEF Task, Tasks
<1>5. SetTasks(order, changes) \in [1 .. Len(due) -> Tasks]
  BY <1>2, <1>3, <1>4
<1> QED
  BY <1>1, <1>2, <1>3, <1>5, IsASeq DEF ToSet

LEMMA QueuedTasksIs ==
  ASSUME rows.queue \in Queues, NEW kind
  PROVE  /\ QueuedTasks(kind) \in Seq(Tasks)
         /\ ToSet(QueuedTasks(kind)) = {q \in ToSet(rows.queue) : q.do = kind}
<1> DEFINE S == [do : Kinds, at : AnyPlace]
<1>1. /\ QueuedTasks(kind) \in Seq(S)
      /\ ToSet(QueuedTasks(kind)) = ToSet(rows.queue) \cap {q \in ToSet(rows.queue) : q.do = kind}
  BY OnlyIs DEF QueuedTasks, Queues
<1>2. S \subseteq Tasks
  BY DEF Tasks
<1> HIDE DEF S
<1>3. QueuedTasks(kind) \in Seq(Tasks)
  <2>1. DOMAIN QueuedTasks(kind) = 1 .. Len(QueuedTasks(kind)) /\ Len(QueuedTasks(kind)) \in Nat
    BY <1>1, LenProperties
  <2>2. \A i \in 1 .. Len(QueuedTasks(kind)) : QueuedTasks(kind)[i] \in Tasks
    BY <1>1, <1>2, <2>1, ElementOfSeq
  <2>3. QueuedTasks(kind) \in [1 .. Len(QueuedTasks(kind)) -> S]
    BY <1>1, LenProperties
  <2>4. QueuedTasks(kind) \in [1 .. Len(QueuedTasks(kind)) -> Tasks]
    BY <2>2, <2>3
  <2> QED
    BY <2>1, <2>4, IsASeq
<1> QED
  BY <1>1, <1>3

LEMMA MarkedTasksIs ==
  ASSUME RowsTyped(rows), NEW kinds, NEW do \in {"dvdRemove", "detach"}
  PROVE  /\ MarkedTasks(kinds, do) \in Seq(Tasks)
         /\ ToSet(MarkedTasks(kinds, do)) = {Task(do, p) : p \in {p \in rows.marks : rows.drives[p] \in kinds}}
<1> DEFINE S == {p \in rows.marks : rows.drives[p] \in kinds}
           ps == SetToSeq(S)
<1>1. IsFiniteSet(S)
  BY FS_Subset DEF RowsTyped
<1>2. MarkedTasks(kinds, do) = [i \in DOMAIN ps |-> Task(do, ps[i])]
  BY DEF MarkedTasks
<1>3. S \subseteq Places
  BY DEF RowsTyped
<1> HIDE DEF S
<1>4. ps \in Seq(S) /\ ToSet(ps) = S
  BY <1>1, SetToSeqIs
<1> HIDE DEF ps
<1>5. DOMAIN ps = 1 .. Len(ps) /\ Len(ps) \in Nat /\ \A i \in 1 .. Len(ps) : ps[i] \in S
  BY <1>4, LenProperties, ElementOfSeq
<1>6. \A p \in S : Task(do, p) \in Tasks
  BY <1>3 DEF Task, Tasks
<1>7. MarkedTasks(kinds, do) \in [1 .. Len(ps) -> Tasks]
  BY <1>2, <1>5, <1>6
<1>8. MarkedTasks(kinds, do) \in Seq(Tasks)
  BY <1>5, <1>7, IsASeq
<1>9. ToSet(MarkedTasks(kinds, do)) = {Task(do, p) : p \in S}
  BY <1>2, <1>4, <1>5 DEF ToSet
<1> QED
  BY <1>8, <1>9 DEF S

LEMMA NicTasksIs ==
  ASSUME RowsTyped(rows)
  PROVE  /\ NicRemovals \in Seq(Tasks) /\ NicAdditions \in Seq(Tasks)
         /\ ToSet(NicRemovals) = (IF rows.nicRemove THEN {Task("nicRemove", Here)} ELSE {})
         /\ ToSet(NicAdditions) = (IF rows.nicAdds > 0 THEN {Task("nicAdd", Here)} ELSE {})
<1>1. Task("nicRemove", Here) \in Tasks /\ Task("nicAdd", Here) \in Tasks
  BY DEF Task, Tasks
<1>2. rows.nicAdds \in Nat
  BY DEF RowsTyped
<1>3. NicRemovals \in Seq(Tasks) /\ ToSet(NicRemovals) = (IF rows.nicRemove THEN {Task("nicRemove", Here)} ELSE {})
  BY <1>1 DEF NicRemovals, ToSet
<1>4. NicAdditions \in [1 .. rows.nicAdds -> Tasks]
  BY <1>1 DEF NicAdditions
<1>5. NicAdditions \in Seq(Tasks)
  BY <1>2, <1>4, IsASeq
<1>6. ToSet(NicAdditions) = (IF rows.nicAdds > 0 THEN {Task("nicAdd", Here)} ELSE {})
  <2>1. rows.nicAdds > 0 => 1 \in 1 .. rows.nicAdds
    BY <1>2
  <2> QED
    BY <1>2, <2>1 DEF NicAdditions, ToSet
<1> QED
  BY <1>3, <1>5, <1>6

\* What a Save of the changes is to do: a set of each changed group, the
\* removals of what is marked, what is queued, and the adapters.
PlanTasks(changes) ==
  {Task(g, Here) : g \in changes}
    \cup {Task("dvdRemove", p) : p \in {p \in rows.marks : rows.drives[p] \in {"dvd"}}}
    \cup {Task("detach", p) : p \in {p \in rows.marks : rows.drives[p] \in {"disk", "raw"}}}
    \cup ToSet(rows.queue)
    \cup (IF rows.nicRemove THEN {Task("nicRemove", Here)} ELSE {})
    \cup (IF rows.nicAdds > 0 THEN {Task("nicAdd", Here)} ELSE {})

LEMMA PlanIs ==
  ASSUME RowsTyped(rows), NEW changes, changes \subseteq Groups
  PROVE  SavePlan(changes) \in Seq(Tasks) /\ ToSet(SavePlan(changes)) = PlanTasks(changes)
<1> DEFINE a1 == SetTasks(GeneralOrder, changes)
           a2 == MarkedTasks({"dvd"}, "dvdRemove")
           a3 == QueuedTasks("dvdAdd")
           a4 == MarkedTasks({"disk", "raw"}, "detach")
           a5 == QueuedTasks("attach")
           a6 == QueuedTasks("create")
           a7 == SetTasks(<<"qos">>, changes)
           a8 == QueuedTasks("physical")
           a9 == SetTasks(AdapterOrder, changes)
           a10 == NicRemovals
           a11 == NicAdditions
           a12 == SetTasks(<<"rdp">>, changes)
<1>1. SavePlan(changes) = a1 \o a2 \o a3 \o a4 \o a5 \o a6 \o a7 \o a8 \o a9 \o a10 \o a11 \o a12
  BY PlanParts
<1>2. /\ a1 \in Seq(Tasks) /\ ToSet(a1) = {Task(g, Here) : g \in ToSet(GeneralOrder) \cap changes}
      /\ a7 \in Seq(Tasks) /\ ToSet(a7) = {Task(g, Here) : g \in ToSet(<<"qos">>) \cap changes}
      /\ a9 \in Seq(Tasks) /\ ToSet(a9) = {Task(g, Here) : g \in ToSet(AdapterOrder) \cap changes}
      /\ a12 \in Seq(Tasks) /\ ToSet(a12) = {Task(g, Here) : g \in ToSet(<<"rdp">>) \cap changes}
  BY OrdersIs, SetTasksIs
<1>3. rows.queue \in Queues
  BY DEF RowsTyped
<1>4. /\ a3 \in Seq(Tasks) /\ ToSet(a3) = {q \in ToSet(rows.queue) : q.do = "dvdAdd"}
      /\ a5 \in Seq(Tasks) /\ ToSet(a5) = {q \in ToSet(rows.queue) : q.do = "attach"}
      /\ a6 \in Seq(Tasks) /\ ToSet(a6) = {q \in ToSet(rows.queue) : q.do = "create"}
      /\ a8 \in Seq(Tasks) /\ ToSet(a8) = {q \in ToSet(rows.queue) : q.do = "physical"}
  BY <1>3, QueuedTasksIs
<1>5. /\ a2 \in Seq(Tasks) /\ ToSet(a2) = {Task("dvdRemove", p) : p \in {p \in rows.marks : rows.drives[p] \in {"dvd"}}}
      /\ a4 \in Seq(Tasks) /\ ToSet(a4) = {Task("detach", p) : p \in {p \in rows.marks : rows.drives[p] \in {"disk", "raw"}}}
  BY MarkedTasksIs
<1>6. /\ a10 \in Seq(Tasks) /\ ToSet(a10) = (IF rows.nicRemove THEN {Task("nicRemove", Here)} ELSE {})
      /\ a11 \in Seq(Tasks) /\ ToSet(a11) = (IF rows.nicAdds > 0 THEN {Task("nicAdd", Here)} ELSE {})
  BY NicTasksIs
<1>7. ToSet(rows.queue) = ToSet(a3) \cup ToSet(a5) \cup ToSet(a6) \cup ToSet(a8)
  <2>0. \A i \in DOMAIN rows.queue : rows.queue[i] \in [do : Kinds, at : AnyPlace]
    BY <1>3, LenProperties, ElementOfSeq DEF Queues
  <2>1. \A q \in ToSet(rows.queue) : q \in [do : Kinds, at : AnyPlace]
    BY <2>0 DEF ToSet
  <2>2. \A q \in ToSet(rows.queue) : q.do \in Kinds
    BY <2>1
  <2> HIDE DEF a3, a5, a6, a8
  <2> QED
    BY <1>4, <2>2 DEF Kinds
<1>8. {Task(g, Here) : g \in changes} = ToSet(a1) \cup ToSet(a7) \cup ToSet(a9) \cup ToSet(a12)
  <2>1. \A g \in changes : g \in ToSet(GeneralOrder) \cup ToSet(AdapterOrder) \cup ToSet(<<"qos">>) \cup ToSet(<<"rdp">>)
    BY OrdersIs, GroupsAreSetters
  <2> HIDE DEF a1, a7, a9, a12
  <2> QED
    BY <1>2, <2>1
<1> HIDE DEF a1, a2, a3, a4, a5, a6, a7, a8, a9, a10, a11, a12
<1> DEFINE b2 == a1 \o a2
           b3 == b2 \o a3
           b4 == b3 \o a4
           b5 == b4 \o a5
           b6 == b5 \o a6
           b7 == b6 \o a7
           b8 == b7 \o a8
           b9 == b8 \o a9
           b10 == b9 \o a10
           b11 == b10 \o a11
           b12 == b11 \o a12
<1>9. SavePlan(changes) = b12
  BY <1>1
<1>12. b2 \in Seq(Tasks) /\ ToSet(b2) = ToSet(a1) \cup ToSet(a2)
  BY <1>2, <1>5, CatIs
<1> HIDE DEF b2
<1>13. b3 \in Seq(Tasks) /\ ToSet(b3) = ToSet(b2) \cup ToSet(a3)
  BY <1>4, <1>12, CatIs
<1> HIDE DEF b3
<1>14. b4 \in Seq(Tasks) /\ ToSet(b4) = ToSet(b3) \cup ToSet(a4)
  BY <1>5, <1>13, CatIs
<1> HIDE DEF b4
<1>15. b5 \in Seq(Tasks) /\ ToSet(b5) = ToSet(b4) \cup ToSet(a5)
  BY <1>4, <1>14, CatIs
<1> HIDE DEF b5
<1>16. b6 \in Seq(Tasks) /\ ToSet(b6) = ToSet(b5) \cup ToSet(a6)
  BY <1>4, <1>15, CatIs
<1> HIDE DEF b6
<1>17. b7 \in Seq(Tasks) /\ ToSet(b7) = ToSet(b6) \cup ToSet(a7)
  BY <1>2, <1>16, CatIs
<1> HIDE DEF b7
<1>18. b8 \in Seq(Tasks) /\ ToSet(b8) = ToSet(b7) \cup ToSet(a8)
  BY <1>4, <1>17, CatIs
<1> HIDE DEF b8
<1>19. b9 \in Seq(Tasks) /\ ToSet(b9) = ToSet(b8) \cup ToSet(a9)
  BY <1>2, <1>18, CatIs
<1> HIDE DEF b9
<1>20. b10 \in Seq(Tasks) /\ ToSet(b10) = ToSet(b9) \cup ToSet(a10)
  BY <1>6, <1>19, CatIs
<1> HIDE DEF b10
<1>21. b11 \in Seq(Tasks) /\ ToSet(b11) = ToSet(b10) \cup ToSet(a11)
  BY <1>6, <1>20, CatIs
<1> HIDE DEF b11
<1>22. b12 \in Seq(Tasks) /\ ToSet(b12) = ToSet(b11) \cup ToSet(a12)
  BY <1>2, <1>21, CatIs
<1> HIDE DEF b12
<1>23. ToSet(b12) = ToSet(a1) \cup ToSet(a2) \cup ToSet(a3) \cup ToSet(a4) \cup ToSet(a5) \cup ToSet(a6)
         \cup ToSet(a7) \cup ToSet(a8) \cup ToSet(a9) \cup ToSet(a10) \cup ToSet(a11) \cup ToSet(a12)
  BY <1>12, <1>13, <1>14, <1>15, <1>16, <1>17, <1>18, <1>19, <1>20, <1>21, <1>22
<1> DEFINE sets == {Task(g, Here) : g \in changes}
           queued == ToSet(rows.queue)
<1>24. PlanTasks(changes) = sets \cup ToSet(a2) \cup ToSet(a4) \cup queued \cup ToSet(a10) \cup ToSet(a11)
  BY <1>5, <1>6 DEF PlanTasks
<1> HIDE DEF sets, queued
<1>25. ToSet(b12) = sets \cup ToSet(a2) \cup ToSet(a4) \cup queued \cup ToSet(a10) \cup ToSet(a11)
  BY <1>7, <1>8, <1>23 DEF sets, queued
<1> QED
  BY <1>9, <1>22, <1>24, <1>25

----------------------------------------------------------------------------
(* Every step keeps the types.                                             *)

LEMMA WithTyped ==
  ASSUME NEW a \in Texture, NEW b, DOMAIN b \subseteq Fields, \A f \in DOMAIN b : b[f] \in Values
  PROVE  With(a, b) \in Texture
<1>1. DOMAIN a = Fields /\ \A f \in Fields : a[f] \in Values
  BY DEF Texture
<1>2. DOMAIN a \cup DOMAIN b = Fields
  BY <1>1
<1> QED
  BY <1>1, <1>2 DEF With, Texture

LEMMA LoadedTyped == Typed => Loaded \in Texture
<1> SUFFICES ASSUME Typed PROVE Loaded \in Texture
  OBVIOUS
<1>1. ASSUME NEW f \in Fields PROVE Loaded[f] \in Values
  BY LoadedIsFaithful DEF Typed, Texture
<1>2. Loaded = [f \in Fields |-> Loaded[f]]
  BY DEF Loaded
<1> QED
  BY <1>1, <1>2 DEF Texture

LEMMA NearestTyped ==
  ASSUME NEW v \in Values PROVE Nearest(v) \in Values /\ Nearest(v) # "odd"
BY DEF Nearest, Values

LEMMA RebuildTyped ==
  ASSUME DisksTyped(disks), NEW r, RowsTyped(r)
  PROVE  RowsTyped(RebuildStorageCards(r))
<1>1. RebuildStorageCards(r) =
        [ctrls |-> disks.ctrls, drives |-> disks.drives, marks |-> {}, queued |-> r.queued,
         queue |-> r.queue, nicRemove |-> r.nicRemove, nicAdds |-> r.nicAdds]
  <2>1. r = [ctrls |-> r.ctrls, drives |-> r.drives, marks |-> r.marks, queued |-> r.queued,
             queue |-> r.queue, nicRemove |-> r.nicRemove, nicAdds |-> r.nicAdds]
    BY DEF RowsTyped
  <2> DEFINE a == r.drives
             b == r.queued
             c == r.queue
             d == r.nicRemove
             e == r.nicAdds
             f == r.marks
             g == r.ctrls
  <2>2. r = [ctrls |-> g, drives |-> a, marks |-> f, queued |-> b, queue |-> c, nicRemove |-> d, nicAdds |-> e]
    BY <2>1
  <2>3. RebuildStorageCards(r) = [r EXCEPT !.ctrls = disks.ctrls, !.drives = disks.drives, !.marks = {}]
    BY DEF RebuildStorageCards
  <2> HIDE DEF a, b, c, d, e, f, g
  <2>4. RebuildStorageCards(r) = [ctrls |-> disks.ctrls, drives |-> disks.drives, marks |-> {}, queued |-> b,
         queue |-> c, nicRemove |-> d, nicAdds |-> e]
    BY <2>2, <2>3
  <2> QED
    BY <2>4 DEF b, c, d, e
<1>2. disks.ctrls \subseteq Controllers /\ disks.drives \in [Places -> DriveKinds]
  BY DEF DisksTyped
<1>3. r.queued \subseteq Places /\ r.queue \in Queues /\ r.nicRemove \in BOOLEAN /\ r.nicAdds \in Nat
  BY DEF RowsTyped
<1> QED
  BY <1>1, <1>2, <1>3, FS_EmptySet DEF RowsTyped

LEMMA RebuiltFormTyped ==
  ASSUME Typed PROVE FormTyped(RebuiltForm)
<1>1. /\ DOMAIN LoadDrives \subseteq Fields
      /\ \A f \in DOMAIN LoadDrives : LoadDrives[f] \in Values
  BY DEF LoadDrives, ReadNow, Typed, Texture
<1> DEFINE shown == [f \in DOMAIN LoadDrives |-> Nearest(LoadDrives[f])]
<1>2. DOMAIN shown = DOMAIN LoadDrives /\ \A f \in DOMAIN shown : shown[f] \in Values
  BY <1>1, NearestTyped
<1>3. /\ form.orig \in Texture /\ form.shown \in Texture /\ form.power \in Powers
      /\ form.rdpChanged \in BOOLEAN
      /\ form = [orig |-> form.orig, shown |-> form.shown, power |-> form.power,
                 rdpChanged |-> form.rdpChanged]
  BY DEF Typed, FormTyped
<1> HIDE DEF shown
<1>4. With(form.orig, LoadDrives) \in Texture /\ With(form.shown, shown) \in Texture
  BY <1>1, <1>2, <1>3, WithTyped
<1>5. RebuiltForm = [orig |-> With(form.orig, LoadDrives), shown |-> With(form.shown, shown),
                     power |-> form.power, rdpChanged |-> form.rdpChanged]
  <2>1. RebuiltForm = [form EXCEPT !.orig = With(form.orig, LoadDrives),
                                   !.shown = With(form.shown, shown)]
    BY DEF RebuiltForm, shown
  <2> DEFINE orig == With(form.orig, LoadDrives)
             kept == With(form.shown, shown)
  <2>2. RebuiltForm = [form EXCEPT !.orig = orig, !.shown = kept]
    BY <2>1
  <2> HIDE DEF orig, kept
  <2>3. RebuiltForm = [orig |-> orig, shown |-> kept, power |-> form.power, rdpChanged |-> form.rdpChanged]
    BY <1>3, <2>2
  <2> QED
    BY <2>3 DEF orig, kept
<1> QED
  BY <1>3, <1>4, <1>5 DEF FormTyped

LEMMA OpenTyped == Typed /\ Open => Typed'
<1> SUFFICES ASSUME Typed, Open PROVE Typed'
  OBVIOUS
<1>1. FormTyped(form')
  <2>1. Loaded \in Texture /\ [f \in Fields |-> Nearest(Loaded[f])] \in Texture
    BY LoadedTyped, NearestTyped DEF Texture
  <2>2. cache.power \in Powers
    BY DEF Typed
  <2> QED
    BY <2>1, <2>2 DEF Open, LoadFromVm, FormTyped
<1>2. RowsTyped(rows')
  <2>1. RowsTyped(NoRows)
    BY NothingTyped
  <2> QED
    BY <2>1, RebuildTyped DEF Open, LoadFromVm, Typed
<1>3. ghost' \in [touched : SUBSET Fields, disturbed : BOOLEAN, retried : BOOLEAN, nics : Nat]
  BY DEF Open, NoGhost, Typed, DisksTyped
<1> QED
  BY <1>1, <1>2, <1>3 DEF Open, Typed

LEMMA ChangeTyped == ASSUME Typed, NEW f \in Edited, Change(f) PROVE Typed'
<1>1. f \in Fields
  BY SettingsAssumption
<1>2. PICK v \in Positions(f) \ {form.shown[f]} :
        LET set == IF f = "shield" THEN OnShieldingToggled(v) ELSE [x \in {f} |-> v] IN
        /\ form' = [form EXCEPT !.shown = With(@, set)]
        /\ ghost' = [ghost EXCEPT !.touched = @ \cup DOMAIN set]
  BY DEF Change
<1> DEFINE set == IF f = "shield" THEN OnShieldingToggled(v) ELSE [x \in {f} |-> v]
<1>3. v \in Values
  <2>1. form.orig[f] \in Values
    BY <1>1 DEF Typed, FormTyped, Texture
  <2> QED
    BY <2>1, NearestTyped DEF Positions, Values
<1>4. DOMAIN set \subseteq Fields /\ \A x \in DOMAIN set : set[x] \in Values
  BY <1>1, <1>3, ShieldFields DEF OnShieldingToggled
<1> HIDE DEF set
<1>5. FormTyped(form')
  <2>1. /\ form.orig \in Texture /\ form.shown \in Texture /\ form.power \in Powers
        /\ form.rdpChanged \in BOOLEAN
        /\ form = [orig |-> form.orig, shown |-> form.shown, power |-> form.power,
                   rdpChanged |-> form.rdpChanged]
    BY DEF Typed, FormTyped
  <2>2. With(form.shown, set) \in Texture
    BY <1>4, <2>1, WithTyped
  <2>3. form' = [orig |-> form.orig, shown |-> With(form.shown, set), power |-> form.power,
                 rdpChanged |-> form.rdpChanged]
    BY <1>2, <2>1 DEF set
  <2> QED
    BY <2>1, <2>2, <2>3 DEF FormTyped
<1>6. ghost' \in [touched : SUBSET Fields, disturbed : BOOLEAN, retried : BOOLEAN, nics : Nat]
  <2>1. ghost' = [ghost EXCEPT !.touched = @ \cup DOMAIN set]
    BY <1>2 DEF set
  <2> QED
    BY <1>4, <2>1 DEF Typed
<1>7. budget' \in [edits : Nat, trouble : Nat]
  BY DEF Change, Interactive, Typed
<1> QED
  BY <1>5, <1>6, <1>7 DEF Change, Typed

LEMMA ClickTyped == ASSUME Typed, NEW r, RowsTyped(r), Click(r) PROVE Typed'
<1>1. budget' \in [edits : Nat, trouble : Nat]
  BY DEF Click, Interactive, Typed
<1> QED
  BY <1>1 DEF Click, Typed

LEMMA MarksTyped ==
  ASSUME Typed, (\E p \in Places : MarkDrive(p)) \/ MarkAdapter \/ OnNetworkAddAdapter
  PROVE  Typed'
<1>1. RowsTyped(rows)
  BY DEF Typed
<1>2. ASSUME NEW p \in Places, MarkDrive(p) PROVE Typed'
  <2> DEFINE r == [rows EXCEPT !.marks = @ \cup {p}]
  <2>1. IsFiniteSet(rows.marks \cup {p})
    BY <1>1, FS_AddElement DEF RowsTyped
  <2>2. RowsTyped(r)
    BY <1>1, <2>1 DEF RowsTyped
  <2> QED
    BY <1>2, <2>2, ClickTyped DEF MarkDrive
<1>3. ASSUME MarkAdapter PROVE Typed'
  <2>1. RowsTyped([rows EXCEPT !.nicRemove = TRUE])
    BY <1>1 DEF RowsTyped
  <2> QED
    BY <1>3, <2>1, ClickTyped DEF MarkAdapter
<1>4. ASSUME OnNetworkAddAdapter PROVE Typed'
  <2>1. RowsTyped([rows EXCEPT !.nicAdds = @ + 1])
    BY <1>1 DEF RowsTyped
  <2> QED
    BY <1>4, <2>1, ClickTyped DEF OnNetworkAddAdapter
<1> QED
  BY <1>2, <1>3, <1>4

LEMMA SlotOfPlace == ASSUME NEW at \in AnyPlace PROVE at[2] \in Int
<1>1. \A c : Unplaced(c)[2] = -1
  BY DEF Unplaced
<1>2. \A s \in Slots : s \in Int
  <2>1. \A n \in Nat : n \in Int
    OBVIOUS
  <2> QED
    BY <2>1, SettingsAssumption
<1>3. ASSUME NEW x \in Controllers \X Slots PROVE x[2] \in Int
  <2>1. x[2] \in Slots
    OBVIOUS
  <2> QED
    BY <1>2, <2>1
<1> QED
  BY <1>1, <1>3 DEF AnyPlace, Places

LEMMA QueueTyped == ASSUME Typed, NEW kind \in Kinds, Queue(kind) PROVE Typed'
<1>1. PICK at \in Placements :
        Click(ConsumeQueuedSlot([rows EXCEPT !.queue = Append(@, Task(kind, at))], at))
  BY DEF Queue
<1> DEFINE queue == Append(rows.queue, Task(kind, at))
           r == [rows EXCEPT !.queue = Append(@, Task(kind, at))]
<1>2. RowsTyped(rows)
  BY DEF Typed
<1>3. rows.ctrls \subseteq Controllers
  BY <1>2 DEF RowsTyped
<1>4. at \in AnyPlace /\ (at[2] >= 0 => at \in Places)
  BY <1>3, PlacementsFree
<1>5. queue \in Queues
  <2>1. Task(kind, at) \in [do : Kinds, at : AnyPlace]
    BY <1>4 DEF Task
  <2>2. rows.queue \in Queues
    BY <1>2 DEF RowsTyped
  <2> QED
    BY <2>1, <2>2, AppendProperties DEF Queues
<1> HIDE DEF queue
<1>6. RowsTyped(r)
  <2>1. r = [rows EXCEPT !.queue = queue]
    BY DEF queue
  <2> QED
    BY <1>2, <1>5, <2>1 DEF RowsTyped
<1> HIDE DEF r
<1>7. RowsTyped(ConsumeQueuedSlot(r, at))
  <2>1. CASE at[2] < 0
    BY <1>6, <2>1 DEF ConsumeQueuedSlot
  <2>2. CASE ~(at[2] < 0)
    <3>1. at \in Places
      BY <1>4, <2>2, SlotOfPlace
    <3>2. ConsumeQueuedSlot(r, at) = [r EXCEPT !.queued = @ \cup {at}]
      BY <2>2 DEF ConsumeQueuedSlot
    <3> QED
      BY <1>6, <3>1, <3>2 DEF RowsTyped
  <2> QED
    BY <2>1, <2>2
<1> QED
  BY <1>1, <1>7, ClickTyped DEF r

LEMMA StartTyped ==
  ASSUME Typed, OnStorageAddScsiController \/ \E c \in Scsi : OnRemoveScsiController(c)
  PROVE  Typed'
<1>1. PICK task \in {Task("add", Here)} \cup {Task("remove", Unplaced(c)) : c \in Controllers} : Start(task)
  BY DEF OnStorageAddScsiController, OnRemoveScsiController, Controllers
<1>2. budget' \in [edits : Nat, trouble : Nat]
  BY <1>1 DEF Start, Interactive, Typed
<1>3. pending' \in {Task("none", Here), Task("add", Here)} \cup {Task("remove", Unplaced(c)) : c \in Controllers}
  BY <1>1 DEF Start
<1> QED
  BY <1>1, <1>2, <1>3 DEF Start, Typed

LEMMA PendingEndsTyped ==
  ASSUME Typed, NEW ok, NEW ctrls, NEW known, NEW r, PendingEnds(ok, ctrls, known, r),
         ctrls \subseteq known, known \subseteq Controllers, RowsTyped(r)
  PROVE  Typed'
<1>1. DisksTyped(disks')
  <2>1. DisksTyped(disks)
    BY DEF Typed
  <2>2. DisksTyped([disks EXCEPT !.ctrls = ctrls, !.known = known])
    BY <2>1 DEF DisksTyped
  <2> QED
    BY <2>1, <2>2 DEF PendingEnds
<1>2. RowsTyped(rows')
  <2>1. RowsTyped(rows) /\ DisksTyped(disks)
    BY DEF Typed
  <2>2. RowsTyped(RebuildStorageCards(r))
    BY <2>1, RebuildTyped
  <2>3. ctrls \subseteq Controllers
    OBVIOUS
  <2>4. RowsTyped([RebuildStorageCards(r) EXCEPT !.ctrls = ctrls])
    BY <2>2, <2>3 DEF RowsTyped
  <2> QED
    BY <2>1, <2>4 DEF PendingEnds
<1>3. FormTyped(form')
  BY RebuiltFormTyped DEF PendingEnds, Typed
<1>4. budget' \in [edits : Nat, trouble : Nat]
  <2>1. budget' = budget \/ (budget.trouble > 0 /\ budget' = [budget EXCEPT !.trouble = @ - 1])
    BY DEF PendingEnds
  <2> QED
    BY <2>1 DEF Typed
<1>5. /\ UNCHANGED <<host, power, cache, phase, saved, session, ghost, behind>>
      /\ pending' = Task("none", Here) /\ overlay' = FALSE
  BY DEF PendingEnds
<1> QED
  BY <1>1, <1>2, <1>3, <1>4, <1>5 DEF Typed

LEMMA ControllerTyped == Typed /\ (AddScsiEnds \/ RemoveScsiControllerByRef) => Typed'
<1> SUFFICES ASSUME Typed, AddScsiEnds \/ RemoveScsiControllerByRef PROVE Typed'
  OBVIOUS
<1>1. DisksTyped(disks) /\ RowsTyped(rows)
  BY DEF Typed
<1>2. disks.ctrls \subseteq disks.known /\ disks.known \subseteq Controllers
  BY <1>1 DEF DisksTyped
<1>3. ASSUME AddScsiEnds PROVE Typed'
  <2>1. PICK c \in Scsi \ disks.known :
          PendingEnds(TRUE, disks.ctrls \cup {c}, disks.known \cup {c}, rows)
    BY <1>3 DEF AddScsiEnds
  <2>2. disks.ctrls \cup {c} \subseteq disks.known \cup {c} /\ disks.known \cup {c} \subseteq Controllers
    BY <1>2 DEF Controllers
  <2> QED
    BY <1>1, <2>1, <2>2, PendingEndsTyped
<1>4. ASSUME RemoveScsiControllerByRef PROVE Typed'
  <2> DEFINE c == pending.at[1]
             ok == c \in disks.ctrls /\ \A s \in Slots : disks.drives[<<c, s>>] = "none"
             r  == [rows EXCEPT !.queued = {p \in @ : p[1] # c}]
  <2>1. PendingEnds(ok, disks.ctrls \ {c}, disks.known, r)
    BY <1>4 DEF RemoveScsiControllerByRef
  <2>2. RowsTyped(r)
    BY <1>1 DEF RowsTyped
  <2>3. disks.ctrls \ {c} \subseteq disks.known
    BY <1>2
  <2> HIDE DEF c, ok, r
  <2> QED
    BY <1>2, <2>1, <2>2, <2>3, PendingEndsTyped
<1> QED
  BY <1>3, <1>4

LEMMA ChangesAreGroups == Changes \subseteq Groups
<1>1. \A gs : Changed(gs) \subseteq Groups
  BY DEF Changed
<1>2. RdpDiff \subseteq Groups
  BY DEF RdpDiff, Groups
<1> QED
  BY <1>1, <1>2 DEF Changes, GeneralDiff, FirmwareDiff, PlatformDiff, SecurityDiff, ServicesDiff,
       StorageDiff, AdapterDiff, FeaturesDiff

LEMMA SaveTyped == Typed /\ Save => Typed'
<1> SUFFICES ASSUME Typed, Save PROVE Typed'
  OBVIOUS
<1> DEFINE shown == [f \in Fields |-> Written(f)]
           plan == SavePlan(Changes)
           nics == ghost.nics + rows.nicAdds - (IF rows.nicRemove THEN 1 ELSE 0)
<1>1. SavedTyped(saved')
  <2>1. saved' = [shown |-> shown, unshown |-> Unshown, changed |-> Changes, marks |-> rows.marks, queue |-> rows.queue,
                  plan |-> plan, errors |-> FALSE, nics |-> nics]
    BY DEF Save
  <2>2. shown \in Texture
    <3>1. \A f \in Fields : form.orig[f] \in Values /\ form.shown[f] \in Values
      BY DEF Typed, FormTyped, Texture
    <3> QED
      BY <3>1 DEF Written, Texture
  <2>3. plan \in Seq(Tasks)
    BY ChangesAreGroups, PlanIs DEF Typed
  <2>4. ghost.nics \in Nat /\ rows.nicAdds \in Nat /\ rows.marks \subseteq Places /\ rows.queue \in Queues
    BY DEF Typed, RowsTyped
  <2>5. nics \in Int
    BY <2>4
  <2>6. Unshown \subseteq Fields
    BY DEF Unshown
  <2> HIDE DEF shown, plan, nics
  <2> QED
    BY <2>1, <2>2, <2>3, <2>4, <2>5, <2>6, ChangesAreGroups DEF SavedTyped
<1>2. budget' \in [edits : Nat, trouble : Nat]
  BY DEF Save, Typed
<1>3. overlay' \in BOOLEAN /\ phase' \in {"saved", "saving"}
  BY DEF Save, Typed
<1> QED
  BY <1>1, <1>2, <1>3 DEF Save, Typed

LEMMA GivenTyped ==
  ASSUME SavedTyped(saved), NEW g \in Groups, NEW f \in DOMAIN Given(g)
  PROVE  Given(g)[f] \in Values
<1>1. \A x \in Fields : saved.shown[x] \in Values
  BY DEF SavedTyped, Texture
<1>2. Setters[g].writes \subseteq Fields
  BY DEF Fields
<1>3. "default" \in Values
  BY DEF Values
<1>4. CASE g = "checkpoint"
  BY <1>1, <1>2, <1>4 DEF Given
<1>5. CASE g = "shield"
  BY <1>1, <1>5, ShieldFields DEF Given, OnShieldingToggled
<1>6. CASE g = "rdp"
  BY <1>1, <1>2, <1>3, <1>6 DEF Given
<1>7. CASE g \notin {"checkpoint", "shield", "rdp"}
  BY <1>1, <1>2, <1>7 DEF Given
<1> QED
  BY <1>4, <1>5, <1>6, <1>7

\* The tasks a Save still has to do after the first.
LEMMA TailIs ==
  ASSUME SavedTyped(saved), saved.plan # <<>>
  PROVE  /\ Head(saved.plan) \in Tasks /\ Head(saved.plan) \in ToSet(saved.plan)
         /\ Tail(saved.plan) \in Seq(Tasks)
         /\ ToSet(saved.plan) = {Head(saved.plan)} \cup ToSet(Tail(saved.plan))
<1> DEFINE s == saved.plan
<1>1. s \in Seq(Tasks)
  BY DEF SavedTyped
<1> HIDE DEF s
<1>2. s # <<>>
  BY DEF s
<1>3. /\ DOMAIN s = 1 .. Len(s) /\ Len(s) \in Nat /\ Len(s) >= 1
      /\ \A i \in 1 .. Len(s) : s[i] \in Tasks
  BY <1>1, <1>2, LenProperties, ElementOfSeq, EmptySeq
<1>4. /\ Head(s) = s[1] /\ Tail(s) \in Seq(Tasks) /\ Len(Tail(s)) = Len(s) - 1
      /\ \A i \in 1 .. Len(Tail(s)) : Tail(s)[i] = s[i + 1]
  BY <1>1, <1>2, HeadTailProperties
<1>5. DOMAIN Tail(s) = 1 .. Len(s) - 1
  BY <1>4, LenProperties
<1>6. ASSUME NEW i \in 1 .. Len(s) PROVE s[i] \in {Head(s)} \cup ToSet(Tail(s))
  <2>1. CASE i = 1
    BY <1>4, <2>1
  <2>2. CASE i # 1
    <3>1. i - 1 \in 1 .. Len(s) - 1
      BY <1>3, <2>2
    <3>2. Tail(s)[i - 1] = s[i]
      BY <1>3, <1>4, <3>1
    <3> QED
      BY <1>5, <3>1, <3>2 DEF ToSet
  <2> QED
    BY <2>1, <2>2
<1>7. ASSUME NEW i \in 1 .. Len(s) - 1 PROVE Tail(s)[i] \in ToSet(s)
  <2>1. i + 1 \in 1 .. Len(s) /\ Tail(s)[i] = s[i + 1]
    BY <1>3, <1>4
  <2> QED
    BY <1>3, <2>1 DEF ToSet
<1>8. 1 \in 1 .. Len(s)
  BY <1>3
<1>9. Head(s) \in ToSet(s) /\ Head(s) \in Tasks
  BY <1>3, <1>4, <1>8 DEF ToSet
<1>10. ToSet(s) \subseteq {Head(s)} \cup ToSet(Tail(s))
  BY <1>3, <1>6 DEF ToSet
<1>11. ToSet(Tail(s)) \subseteq ToSet(s)
  BY <1>5, <1>7 DEF ToSet
<1> QED
  BY <1>4, <1>9, <1>10, <1>11 DEF s

LEMMA TaskEndsTyped ==
  ASSUME SavedTyped(saved), saved.plan # <<>>, NEW failed \in BOOLEAN, TaskEnds(failed)
  PROVE  /\ SavedTyped(saved') /\ saved'.plan = Tail(saved.plan)
         /\ saved'.errors = (saved.errors \/ failed)
         /\ saved'.shown = saved.shown /\ saved'.unshown = saved.unshown
         /\ saved'.changed = saved.changed /\ saved'.marks = saved.marks
         /\ saved'.queue = saved.queue /\ saved'.nics = saved.nics
<1> DEFINE errors == saved.errors \/ failed
           plan == Tail(saved.plan)
<1>1. plan \in Seq(Tasks)
  BY TailIs
<1>2. errors \in BOOLEAN
  OBVIOUS
<1>3. saved' = [saved EXCEPT !.plan = plan, !.errors = errors]
  BY DEF TaskEnds
<1> HIDE DEF errors, plan
<1>4. SavedTyped(saved')
  BY <1>1, <1>2, <1>3 DEF SavedTyped
<1>5. /\ saved'.plan = plan /\ saved'.errors = errors
      /\ saved'.shown = saved.shown /\ saved'.unshown = saved.unshown
      /\ saved'.changed = saved.changed /\ saved'.marks = saved.marks
      /\ saved'.queue = saved.queue /\ saved'.nics = saved.nics
  BY <1>3 DEF SavedTyped
<1> QED
  BY <1>4, <1>5 DEF errors, plan

\* What a device task may leave, by what it does.
LEMMA ResultsIs ==
  ASSUME NEW t
  PROVE  /\ t.do \in Kinds =>
              DeviceResults(t) = {[disks EXCEPT !.drives[p] = Device(t.do)] : p \in ResolveStorageTarget(t.at)}
         /\ t.do = "nicAdd" => DeviceResults(t) = {[disks EXCEPT !.nics = @ + 1]}
         /\ t.do = "nicRemove" =>
              DeviceResults(t) = IF disks.nics > 0 THEN {[disks EXCEPT !.nics = @ - 1]} ELSE {}
         /\ t.do \notin Kinds \cup {"nicAdd", "nicRemove"} =>
              DeviceResults(t) = IF disks.drives[t.at] \in Removes(t.do)
                                 THEN {[disks EXCEPT !.drives[t.at] = "none"]} ELSE {}
<1> DEFINE k == t.do \in Kinds
<1>1. "nicAdd" \notin Kinds /\ "nicRemove" \notin Kinds /\ "nicAdd" # "nicRemove"
  BY DEF Kinds
<1>2. CASE k
  BY <1>1, <1>2 DEF DeviceResults
<1>3. CASE ~k /\ t.do = "nicAdd"
  BY <1>3 DEF DeviceResults
<1>4. CASE ~k /\ t.do = "nicRemove"
  BY <1>4 DEF DeviceResults
<1>5. CASE ~k /\ t.do \notin {"nicAdd", "nicRemove"}
  BY <1>5 DEF DeviceResults
<1> QED
  BY <1>1, <1>2, <1>3, <1>4, <1>5

LEMMA DeviceTyped ==
  ASSUME DisksTyped(disks), NEW t \in Tasks, NEW d \in DeviceResults(t)
  PROVE  DisksTyped(d)
<1>1. CASE t.do \in Kinds
  <2>1. PICK p \in ResolveStorageTarget(t.at) : d = [disks EXCEPT !.drives[p] = Device(t.do)]
    BY <1>1, ResultsIs
  <2>2. Device(t.do) \in DriveKinds
    BY DEF Device, DriveKinds
  <2> DEFINE drives == [disks.drives EXCEPT ![p] = Device(t.do)]
  <2>3. drives \in [Places -> DriveKinds]
    BY <2>2 DEF DisksTyped
  <2>4. d = [disks EXCEPT !.drives = drives]
    BY <2>1 DEF DisksTyped
  <2> HIDE DEF drives
  <2> QED
    BY <2>3, <2>4 DEF DisksTyped
<1>2. CASE t.do \notin Kinds /\ t.do = "nicAdd"
  <2>1. d = [disks EXCEPT !.nics = @ + 1]
    BY <1>2, ResultsIs
  <2> QED
    BY <2>1 DEF DisksTyped
<1>3. CASE t.do \notin Kinds /\ t.do = "nicRemove"
  <2>1. d = [disks EXCEPT !.nics = @ - 1] /\ disks.nics > 0
    BY <1>3, ResultsIs
  <2> QED
    BY <2>1 DEF DisksTyped
<1>4. CASE t.do \notin Kinds \cup {"nicAdd", "nicRemove"}
  <2>1. d = [disks EXCEPT !.drives[t.at] = "none"] /\ disks.drives[t.at] \in Removes(t.do)
    BY <1>4, ResultsIs
  <2> DEFINE drives == [disks.drives EXCEPT ![t.at] = "none"]
  <2>2. drives \in [Places -> DriveKinds]
    BY DEF DisksTyped, DriveKinds
  <2>3. d = [disks EXCEPT !.drives = drives]
    BY <2>1 DEF DisksTyped
  <2> HIDE DEF drives
  <2> QED
    BY <2>2, <2>3 DEF DisksTyped
<1> QED
  BY <1>1, <1>2, <1>3, <1>4

LEMMA SetTyped == Typed /\ Set => Typed'
<1> SUFFICES ASSUME Typed, Set PROVE Typed'
  OBVIOUS
<1> DEFINE t == Head(saved.plan)
<1>1. SavedTyped(saved) /\ saved.plan # <<>> /\ DisksTyped(disks) /\ FormTyped(form) /\ host \in Texture
  BY DEF Typed, Set
<1>2. t \in Tasks
  BY <1>1, TailIs
<1>3. \/ t.do \in Groups /\ SetDone(t.do)
      \/ t.do \in Groups /\ SetIgnored(t.do)
      \/ \E expected : Fails(expected)
      \/ DeviceDone(t)
  BY DEF Set
<1> HIDE DEF t
<1>4. SavedTyped(saved')
  BY <1>1, <1>3, TaskEndsTyped DEF SetDone, SetIgnored, DeviceDone, Fails
<1>5. host' \in Texture
  <2>1. ASSUME NEW g \in Groups PROVE With(host, Given(g)) \in Texture
    BY <1>1, GivenFields, GivenTyped, WithTyped
  <2> QED
    BY <1>1, <1>3, <2>1 DEF SetDone, SetIgnored, DeviceDone, Fails
<1>6. DisksTyped(disks')
  BY <1>1, <1>2, <1>3, DeviceTyped DEF SetDone, SetIgnored, DeviceDone, Fails
<1>7. FormTyped(form')
  <2>1. ASSUME NEW g, form' = [form EXCEPT !.rdpChanged = @ \/ g = "rdp"] PROVE FormTyped(form')
    <3> DEFINE mark == form.rdpChanged \/ g = "rdp"
    <3>1. mark \in BOOLEAN
      OBVIOUS
    <3>2. form' = [form EXCEPT !.rdpChanged = mark]
      BY <2>1
    <3> HIDE DEF mark
    <3> QED
      BY <1>1, <3>1, <3>2 DEF FormTyped
  <2> QED
    BY <1>1, <1>3, <2>1 DEF SetDone, SetIgnored, DeviceDone, Fails
<1>8. budget' \in [edits : Nat, trouble : Nat]
  <2>1. ASSUME NEW expected, Fails(expected) PROVE budget' \in [edits : Nat, trouble : Nat]
    <3>1. budget' = budget \/ (budget.trouble > 0 /\ budget' = [budget EXCEPT !.trouble = @ - 1])
      BY <2>1 DEF Fails
    <3> QED
      BY <3>1 DEF Typed
  <2> QED
    BY <1>3, <2>1 DEF SetDone, SetIgnored, DeviceDone, Typed
<1>9. UNCHANGED <<power, cache, phase, rows, pending, overlay, session, ghost, behind>>
  BY DEF Set
<1> QED
  BY <1>4, <1>5, <1>6, <1>7, <1>8, <1>9 DEF Typed

LEMMA SnapshotTyped == Typed => Snapshot \in [value : [CachedFields -> Values], power : Powers]
BY DEF Snapshot, Typed, Texture, CachedFields

LEMMA SaveEndsTyped == Typed /\ SaveEnds => Typed'
<1> SUFFICES ASSUME Typed, SaveEnds PROVE Typed'
  OBVIOUS
<1>1. cache' \in [value : [CachedFields -> Values], power : Powers]
  BY SnapshotTyped DEF SaveEnds, Typed
<1>2. budget' \in [edits : Nat, trouble : Nat]
  <2>1. budget' = budget \/ (budget.trouble > 0 /\ budget' = [budget EXCEPT !.trouble = @ - 1])
    BY DEF SaveEnds
  <2> QED
    BY <2>1 DEF Typed
<1>3. ghost' \in [touched : SUBSET Fields, disturbed : BOOLEAN, retried : BOOLEAN, nics : Nat]
  <2> DEFINE retried == ghost.retried \/ saved.errors
  <2>1. retried \in BOOLEAN
    OBVIOUS
  <2>2. ghost' = [ghost EXCEPT !.retried = retried]
    BY DEF SaveEnds
  <2> HIDE DEF retried
  <2> QED
    BY <2>1, <2>2 DEF Typed
<1>4. phase' \in {"open", "saved"} /\ behind' \in BOOLEAN
  BY DEF SaveEnds
<1> QED
  BY <1>1, <1>2, <1>3, <1>4 DEF SaveEnds, Typed

LEMMA OpenerTyped == Typed /\ Opener => Typed'
<1> SUFFICES ASSUME Typed, Opener PROVE Typed'
  OBVIOUS
<1>1. form' = NoForm /\ rows' = NoRows /\ saved' = NotSaved
  BY DEF Opener
<1>2. FormTyped(form') /\ RowsTyped(rows') /\ SavedTyped(saved')
  BY <1>1, NothingTyped, Zenon
<1>5. session' \in Values
  BY RdpIsField DEF Opener, Typed, Texture
<1>6. ghost' \in [touched : SUBSET Fields, disturbed : BOOLEAN, retried : BOOLEAN, nics : Nat]
  BY DEF Opener, NoGhost
<1> QED
  BY <1>2, <1>5, <1>6 DEF Opener, Typed

LEMMA DisturbTyped ==
  ASSUME Typed, Disturb, host' \in Texture, power' \in Powers PROVE Typed'
<1>1. budget' \in [edits : Nat, trouble : Nat]
  BY DEF Disturb, Typed
<1>2. ghost' \in [touched : SUBSET Fields, disturbed : BOOLEAN, retried : BOOLEAN, nics : Nat]
  <2> DEFINE there == phase # "closed"
  <2>1. there \in BOOLEAN
    OBVIOUS
  <2>2. ghost' = [ghost EXCEPT !.disturbed = there]
    BY DEF Disturb
  <2> HIDE DEF there
  <2> QED
    BY <2>1, <2>2 DEF Typed
<1> QED
  BY <1>1, <1>2 DEF Disturb, Typed

LEMMA TypedStep == Typed /\ [Next]_vars => Typed'
<1> SUFFICES ASSUME Typed, [Next]_vars PROVE Typed'
  OBVIOUS
<1>1. ASSUME Cancel \/ BeginSets \/ EndSets PROVE Typed'
  BY <1>1 DEF Cancel, BeginSets, EndSets, Typed
<1>2. ASSUME Poll PROVE Typed'
  BY <1>2, SnapshotTyped DEF Poll, Typed
<1>3. ASSUME NEW f \in Shared, Foreign(f) PROVE Typed'
  <2>1. host' \in Texture
    BY <1>3 DEF Foreign, Typed, Texture, Values, OnOff
  <2> QED
    BY <1>3, <2>1, DisturbTyped DEF Foreign, Typed
<1>4. ASSUME NEW state \in {"Off", "Running", "Saved"}, PowerChange(state) PROVE Typed'
  BY <1>4, DisturbTyped DEF PowerChange, Typed, Powers
<1>5. ASSUME NEW kind \in Kinds, Queue(kind) PROVE Typed'
  BY <1>5, QueueTyped
<1>6. ASSUME OnStorageAttachVhd \/ OnStorageCreateVhd \/ OnStorageAttachPhysical \/ OnStorageAddDvdDrive
      PROVE  Typed'
  BY <1>5, <1>6 DEF OnStorageAttachVhd, OnStorageCreateVhd, OnStorageAttachPhysical,
       OnStorageAddDvdDrive, Kinds
<1>7. ASSUME UNCHANGED vars PROVE Typed'
  BY <1>7 DEF vars, Typed
<1> QED
  BY <1>1, <1>2, <1>3, <1>4, <1>6, <1>7, OpenTyped, ChangeTyped, MarksTyped, StartTyped,
     ControllerTyped, SaveTyped, SetTyped, SaveEndsTyped, OpenerTyped
     DEF Next

\* Type correctness of the settings dialog, for any fields, controllers and
\* slots.
THEOREM SettingsTypeCorrect == Spec => []TypeOK
BY TypedInit, TypedStep, TypedIsTypeOK, PTL DEF Spec

----------------------------------------------------------------------------
(* What the user touched.  A group a Save writes has a field the user        *)
(* touched: of the others the form shows what it showed at first.           *)

\* A step that changes nothing but rows, the budget, the overlay, the pending
\* controller or the dialog's phase.
Quiet ==
  /\ UNCHANGED <<host, disks, power, cache, form, saved, session, ghost, behind>>
  /\ phase' = phase \/ Cancel \/ BeginSets \/ EndSets

LEMMA StepKinds ==
  [Next]_vars =>
    \/ Open \/ Save \/ Set \/ SaveEnds \/ Opener \/ Poll \/ AddScsiEnds \/ RemoveScsiControllerByRef
    \/ (\E f \in Edited : Change(f)) \/ (\E f \in Shared : Foreign(f))
    \/ (\E state \in {"Off", "Running", "Saved"} : PowerChange(state))
    \/ Quiet
<1> SUFFICES ASSUME [Next]_vars
             PROVE  \/ Open \/ Save \/ Set \/ SaveEnds \/ Opener \/ Poll \/ AddScsiEnds
                    \/ RemoveScsiControllerByRef \/ (\E f \in Edited : Change(f))
                    \/ (\E f \in Shared : Foreign(f))
                    \/ (\E state \in {"Off", "Running", "Saved"} : PowerChange(state))
                    \/ Quiet
  OBVIOUS
<1>1. ASSUME NEW r, Click(r) PROVE Quiet
  BY <1>1 DEF Click, Quiet
<1>2. ASSUME NEW kind, Queue(kind) PROVE Quiet
  BY <1>1, <1>2 DEF Queue
<1>3. ASSUME NEW task, Start(task) PROVE Quiet
  BY <1>3 DEF Start, Quiet
<1>4. ASSUME UNCHANGED vars PROVE Quiet
  BY <1>4 DEF vars, Quiet
<1>5. ASSUME Cancel \/ BeginSets \/ EndSets PROVE Quiet
  BY <1>5 DEF Cancel, BeginSets, EndSets, Quiet
<1> QED
  BY <1>1, <1>2, <1>3, <1>4, <1>5
     DEF Next, MarkDrive, MarkAdapter, OnNetworkAddAdapter, OnStorageAttachVhd, OnStorageCreateVhd,
         OnStorageAttachPhysical, OnStorageAddDvdDrive, OnStorageAddScsiController,
         OnRemoveScsiController

\* Which of the three records change in which step.
LEMMA FormSteps ==
  ASSUME Typed, AddScsiEnds \/ RemoveScsiControllerByRef
  PROVE  /\ UNCHANGED <<host, power, cache, phase, saved, session, ghost, behind>>
         /\ disks'.drives = disks.drives /\ disks'.nics = disks.nics
         /\ phase # "setting"
         /\ form' = form \/ form' = RebuiltForm
<1>1. PICK ok, ctrls, known, r : PendingEnds(ok, ctrls, known, r)
  BY DEF AddScsiEnds, RemoveScsiControllerByRef
<1>2. disks' = disks \/ disks' = [disks EXCEPT !.ctrls = ctrls, !.known = known]
  BY <1>1 DEF PendingEnds
<1>3. disks'.drives = disks.drives /\ disks'.nics = disks.nics
  BY <1>2 DEF Typed, DisksTyped
<1> QED
  BY <1>1, <1>3 DEF PendingEnds, Free

\* The form with its drives read again.
LEMMA RebuiltFormIs ==
  ASSUME Typed
  PROVE  /\ RebuiltForm.power = form.power /\ RebuiltForm.rdpChanged = form.rdpChanged
         /\ \A f \in Fields \ {"medium", "iops"} :
              RebuiltForm.orig[f] = form.orig[f] /\ RebuiltForm.shown[f] = form.shown[f]
         /\ \A f \in Fields \cap {"medium", "iops"} :
              RebuiltForm.orig[f] = host[f] /\ RebuiltForm.shown[f] = Nearest(host[f])
<1> DEFINE orig == With(form.orig, LoadDrives)
           shown == With(form.shown, [f \in DOMAIN LoadDrives |-> Nearest(LoadDrives[f])])
<1>1. RebuiltForm = [form EXCEPT !.orig = orig, !.shown = shown]
  BY DEF RebuiltForm
<1>2. DOMAIN LoadDrives = {"medium", "iops"} \cap Fields /\ \A f \in DOMAIN LoadDrives : LoadDrives[f] = host[f]
  BY DEF LoadDrives, ReadNow
<1>3. DOMAIN form.orig = Fields /\ DOMAIN form.shown = Fields
  BY DEF Typed, FormTyped, Texture
<1>4. /\ \A f \in Fields \ {"medium", "iops"} : orig[f] = form.orig[f] /\ shown[f] = form.shown[f]
      /\ \A f \in Fields \cap {"medium", "iops"} : orig[f] = host[f] /\ shown[f] = Nearest(host[f])
  BY <1>2, <1>3 DEF With
<1> HIDE DEF orig, shown
<1>5. /\ RebuiltForm.orig = orig /\ RebuiltForm.shown = shown
      /\ RebuiltForm.power = form.power /\ RebuiltForm.rdpChanged = form.rdpChanged
  BY <1>1 DEF Typed, FormTyped
<1> QED
  BY <1>4, <1>5

\* What Change does to the form.
Switched(f, v) == IF f = "shield" THEN OnShieldingToggled(v) ELSE [x \in {f} |-> v]

LEMMA ChangeIs ==
  ASSUME Typed, NEW f \in Edited, Change(f)
  PROVE  \E v \in Positions(f) \ {form.shown[f]} :
           /\ form'.orig = form.orig /\ form'.power = form.power /\ form'.rdpChanged = form.rdpChanged
           /\ form'.shown = With(form.shown, Switched(f, v))
           /\ ghost'.touched = ghost.touched \cup DOMAIN Switched(f, v)
           /\ ghost'.disturbed = ghost.disturbed /\ ghost'.retried = ghost.retried
           /\ ghost'.nics = ghost.nics
           /\ f \in DOMAIN Switched(f, v) /\ DOMAIN Switched(f, v) \subseteq Fields
           /\ \A x \in DOMAIN Switched(f, v) : Switched(f, v)[x] = v
           /\ v # "odd"
<1>1. PICK v \in Positions(f) \ {form.shown[f]} :
        LET set == IF f = "shield" THEN OnShieldingToggled(v) ELSE [x \in {f} |-> v] IN
        /\ form' = [form EXCEPT !.shown = With(@, set)]
        /\ ghost' = [ghost EXCEPT !.touched = @ \cup DOMAIN set]
  BY DEF Change
<1> DEFINE shown == With(form.shown, Switched(f, v))
           touched == ghost.touched \cup DOMAIN Switched(f, v)
<1>2. form' = [form EXCEPT !.shown = shown] /\ ghost' = [ghost EXCEPT !.touched = touched]
  BY <1>1 DEF Switched
<1>3. /\ f \in DOMAIN Switched(f, v) /\ DOMAIN Switched(f, v) \subseteq Fields
      /\ \A x \in DOMAIN Switched(f, v) : Switched(f, v)[x] = v
  BY ShieldFields, SettingsAssumption DEF Switched, OnShieldingToggled
<1>4. v # "odd"
  <2>1. f \in Fields
    BY SettingsAssumption
  <2>2. Nearest(form.orig[f]) # "odd"
    BY <2>1, NearestTyped DEF Typed, FormTyped, Texture
  <2> QED
    BY <2>2 DEF Positions
<1> HIDE DEF shown, touched
<1>5. /\ form'.orig = form.orig /\ form'.power = form.power /\ form'.rdpChanged = form.rdpChanged
      /\ form'.shown = shown
  BY <1>2 DEF Typed, FormTyped
<1>6. /\ ghost'.touched = touched /\ ghost'.disturbed = ghost.disturbed
      /\ ghost'.retried = ghost.retried /\ ghost'.nics = ghost.nics
  BY <1>2 DEF Typed
<1> QED
  BY <1>3, <1>4, <1>5, <1>6 DEF shown, touched

\* What a set does, by how it ends.
LEMMA SetIs ==
  ASSUME Typed, Set, NEW t, t = Head(saved.plan)
  PROVE  /\ saved.plan # <<>> /\ saved'.plan = Tail(saved.plan) /\ phase = "setting"
         /\ ToSet(saved.plan) = {t} \cup ToSet(saved'.plan)
         /\ t \in Tasks /\ t \in ToSet(saved.plan)
         /\ saved'.shown = saved.shown /\ saved'.unshown = saved.unshown
         /\ saved'.changed = saved.changed /\ saved'.marks = saved.marks
         /\ saved'.queue = saved.queue /\ saved'.nics = saved.nics
         /\ UNCHANGED <<power, cache, phase, rows, pending, overlay, session, ghost, behind>>
         /\ form'.orig = form.orig /\ form'.shown = form.shown /\ form'.power = form.power
         /\ \/ t.do \in Groups /\ SetDone(t.do) /\ saved'.errors = saved.errors
            \/ t.do \in Groups /\ SetIgnored(t.do) /\ saved'.errors = saved.errors /\ UNCHANGED <<host, disks, budget>>
            \/ DeviceDone(t) /\ t.do \in DeviceTasks /\ saved'.errors = saved.errors /\ UNCHANGED <<host, budget>>
            \/ saved'.errors = TRUE /\ UNCHANGED <<host, disks>>
<1>1. SavedTyped(saved) /\ saved.plan # <<>> /\ phase = "setting"
  BY DEF Typed, Set
<1>2. \/ t.do \in Groups /\ SetDone(t.do)
      \/ t.do \in Groups /\ SetIgnored(t.do)
      \/ \E expected : Fails(expected)
      \/ t.do \in DeviceTasks /\ DeviceDone(t)
  BY DEF Set
<1>3. PICK failed \in BOOLEAN :
        /\ TaskEnds(failed)
        /\ \/ t.do \in Groups /\ SetDone(t.do) /\ failed = FALSE
           \/ t.do \in Groups /\ SetIgnored(t.do) /\ failed = FALSE
           \/ (\E expected : Fails(expected)) /\ failed = TRUE
           \/ t.do \in DeviceTasks /\ DeviceDone(t) /\ failed = FALSE
  BY <1>2 DEF SetDone, SetIgnored, Fails, DeviceDone
<1>4. /\ saved'.plan = Tail(saved.plan)
      /\ saved'.errors = (saved.errors \/ failed)
      /\ saved'.shown = saved.shown /\ saved'.unshown = saved.unshown
      /\ saved'.changed = saved.changed /\ saved'.marks = saved.marks
      /\ saved'.queue = saved.queue /\ saved'.nics = saved.nics
  BY <1>1, <1>3, TaskEndsTyped
<1>5. /\ t \in Tasks /\ t \in ToSet(saved.plan)
      /\ ToSet(saved.plan) = {t} \cup ToSet(saved'.plan)
  BY <1>1, <1>4, TailIs
<1>6. UNCHANGED <<power, cache, phase, rows, pending, overlay, session, ghost, behind>>
  BY DEF Set
<1>7. form'.orig = form.orig /\ form'.shown = form.shown /\ form'.power = form.power
  <2>1. form' = form \/ \E g : form' = [form EXCEPT !.rdpChanged = @ \/ g = "rdp"]
    BY <1>2 DEF SetDone, SetIgnored, Fails, DeviceDone
  <2> QED
    BY <2>1 DEF Typed, FormTyped
<1>8. saved.errors \in BOOLEAN
  BY <1>1 DEF SavedTyped
<1>9. \/ t.do \in Groups /\ SetDone(t.do) /\ saved'.errors = saved.errors
      \/ t.do \in Groups /\ SetIgnored(t.do) /\ saved'.errors = saved.errors /\ UNCHANGED <<host, disks, budget>>
      \/ DeviceDone(t) /\ t.do \in DeviceTasks /\ saved'.errors = saved.errors /\ UNCHANGED <<host, budget>>
      \/ saved'.errors = TRUE /\ UNCHANGED <<host, disks>>
  BY <1>3, <1>4, <1>8 DEF SetIgnored, DeviceDone, Fails
<1> QED
  BY <1>1, <1>4, <1>5, <1>6, <1>7, <1>9

\* Only fields that may hold a value the form cannot show ever do.
OddInv ==
  /\ \A f \in Fields \ Odd :
       /\ host[f] # "odd" /\ form.orig[f] # "odd" /\ saved.shown[f] # "odd"
       /\ f \in CachedFields => cache.value[f] # "odd"
  /\ \A f \in Fields : form.shown[f] # "odd"

LEMMA HostChanges ==
  ASSUME Typed, NEW g \in Groups, SetDone(g)
  PROVE  \A f \in Fields : host'[f] = IF f \in DOMAIN Given(g) THEN Given(g)[f] ELSE host[f]
<1>1. DOMAIN Given(g) \cup DOMAIN host = Fields
  BY GivenFields DEF Typed, Texture
<1> QED
  BY <1>1 DEF SetDone, With

LEMMA GivenValues ==
  ASSUME NEW g \in Groups, NEW f \in DOMAIN Given(g)
  PROVE  \/ Given(g)[f] = saved.shown[f] /\ f \in Setters[g].writes
         \/ Given(g)[f] = "default" /\ g = "rdp" /\ f = "rdp options"
         \/ Given(g)[f] = "on" /\ g = "shield" /\ saved.shown["shield"] = "on" /\ f \in {"tpm", "encrypt", "shield"}
<1>1. CASE g = "checkpoint"
  BY <1>1 DEF Given
<1>2. CASE g = "shield"
  <2>1. "shield" \in SetVmShielded.writes /\ Setters["shield"] = SetVmShielded
    BY SetterByName DEF SetVmShielded, Setter
  <2> QED
    BY <1>2, <2>1 DEF Given, OnShieldingToggled
<1>3. CASE g = "rdp"
  BY <1>3 DEF Given
<1>4. CASE g \notin {"checkpoint", "shield", "rdp"}
  BY <1>4 DEF Given
<1> QED
  BY <1>1, <1>2, <1>3, <1>4

LEMMA OddInit == Init => OddInv
<1> SUFFICES ASSUME Init PROVE OddInv
  OBVIOUS
<1>1. PICK full \in BOOLEAN, state \in {"Off", "Running", "Saved"}, odd \in {{}} \cup {{f} : f \in Odd},
           on \in {{}, {"tpm", "encrypt", "shield"}}, ctrls \in {Ide, {}} \cup {{CHOOSE c \in Scsi : TRUE}} :
        /\ full <=> odd # {}
        /\ ctrls = Ide => on = {}
        /\ host = Stored(odd, on, full)
        /\ disks = [gen2 |-> ctrls # Ide, checkpoints |-> full, ctrls |-> ctrls, known |-> ctrls, nics |-> 1,
                    drives |-> [p \in Places |-> IF ~full \/ p[1] \notin ctrls THEN "none"
                                               ELSE IF p[2] = 0 THEN "disk" ELSE IF p[2] = 1 THEN "dvd" ELSE "none"]]
        /\ power = state
        /\ cache = [value |-> [f \in CachedFields |-> host[f]], power |-> state]
        /\ session = host["rdp options"]
  BY DEF Init
<1>2. ASSUME NEW f \in Fields \ Odd PROVE host[f] # "odd"
  <2>1. host[f] = StoredValue(f, odd, on, full)
    BY <1>1 DEF Stored
  <2>2. f \notin odd
    BY <1>1
  <2> QED
    BY <2>1, <2>2 DEF StoredValue, OnOff
<1>3. \A f \in CachedFields : cache.value[f] = host[f]
  BY <1>1
<1>4. form = NoForm /\ saved = NotSaved
  BY DEF Init
<1> QED
  BY <1>2, <1>3, <1>4 DEF OddInv, NoForm, NotSaved

LEMMA OddStep == Typed /\ OddInv /\ [Next]_vars => OddInv'
<1> SUFFICES ASSUME Typed, OddInv, [Next]_vars PROVE OddInv'
  OBVIOUS
<1> USE DEF OddInv
<1>1. ASSUME Open PROVE OddInv'
  <2>1. /\ form'.orig = Loaded /\ form'.shown = [f \in Fields |-> Nearest(Loaded[f])]
        /\ UNCHANGED <<host, saved, cache>>
    BY <1>1 DEF Open, LoadFromVm
  <2>2. \A f \in Fields : Nearest(Loaded[f]) # "odd"
    BY DEF Nearest
  <2>3. \A f \in Fields \ Odd : Loaded[f] # "odd"
    BY LoadedIsFaithful
  <2> QED
    BY <2>1, <2>2, <2>3
<1>2. ASSUME Save PROVE OddInv'
  <2>1. saved'.shown = [f \in Fields |-> Written(f)]
    BY <1>2 DEF Save
  <2>2. \A f \in Fields \ Odd : Written(f) # "odd"
    BY DEF Written
  <2>3. UNCHANGED <<host, form, cache>>
    BY <1>2 DEF Save
  <2> QED
    BY <2>1, <2>2, <2>3
<1>3. ASSUME Set PROVE OddInv'
  <2> DEFINE t == Head(saved.plan)
  <2>1. /\ saved'.shown = saved.shown /\ form'.orig = form.orig /\ form'.shown = form.shown
        /\ UNCHANGED cache
        /\ UNCHANGED host \/ (t.do \in Groups /\ SetDone(t.do))
    BY <1>3, SetIs
  <2> HIDE DEF t
  <2>2. ASSUME t.do \in Groups, SetDone(t.do), NEW f \in Fields \ Odd PROVE host'[f] # "odd"
    <3>1. host'[f] = IF f \in DOMAIN Given(t.do) THEN Given(t.do)[f] ELSE host[f]
      BY <2>2, HostChanges
    <3>2. f \in DOMAIN Given(t.do) =>
            \/ Given(t.do)[f] = saved.shown[f]
            \/ Given(t.do)[f] = "default"
            \/ Given(t.do)[f] = "on"
      BY <2>2, GivenValues
    <3>3. host[f] # "odd" /\ saved.shown[f] # "odd"
      OBVIOUS
    <3> QED
      BY <3>1, <3>2, <3>3
  <2> QED
    BY <2>1, <2>2
<1>4. ASSUME SaveEnds \/ Poll PROVE OddInv'
  <2>1. UNCHANGED <<host, form, saved>> /\ (cache' = Snapshot \/ cache' = cache)
    BY <1>4 DEF SaveEnds, Poll
  <2>2. \A f \in CachedFields : f \in Fields /\ Snapshot.value[f] = host[f]
    BY DEF Snapshot, CachedFields
  <2> QED
    BY <2>1, <2>2
<1>5. ASSUME Opener PROVE OddInv'
  BY <1>5 DEF Opener, NoForm, NotSaved
<1>6. ASSUME AddScsiEnds \/ RemoveScsiControllerByRef PROVE OddInv'
  <2>1. UNCHANGED <<host, saved, cache>> /\ (form' = form \/ form' = RebuiltForm)
    BY <1>6, FormSteps
  <2>2. \A f \in Fields : Nearest(host[f]) # "odd"
    BY DEF Nearest
  <2>3. /\ \A f \in Fields \ Odd : RebuiltForm.orig[f] # "odd"
        /\ \A f \in Fields : RebuiltForm.shown[f] # "odd"
    BY <2>2, RebuiltFormIs
  <2> QED
    BY <2>1, <2>3
<1>7. ASSUME NEW f \in Edited, Change(f) PROVE OddInv'
  <2>1. PICK v \in Positions(f) \ {form.shown[f]} :
           /\ form'.orig = form.orig
           /\ form'.shown = With(form.shown, Switched(f, v))
           /\ \A x \in DOMAIN Switched(f, v) : Switched(f, v)[x] = v
           /\ v # "odd"
    BY <1>7, ChangeIs
  <2>2. DOMAIN form.shown = Fields
    BY DEF Typed, FormTyped, Texture
  <2>3. \A x \in Fields : form'.shown[x] # "odd"
    BY <2>1, <2>2 DEF With
  <2>4. UNCHANGED <<host, saved, cache>>
    BY <1>7 DEF Change
  <2> QED
    BY <2>1, <2>3, <2>4
<1>8. ASSUME NEW f \in Shared, Foreign(f) PROVE OddInv'
  <2>1. \A x \in Fields : host'[x] = host[x] \/ host'[x] # "odd"
    BY <1>8 DEF Foreign, OnOff, Typed, Texture
  <2>2. UNCHANGED <<form, saved, cache>>
    BY <1>8 DEF Foreign, Disturb
  <2> QED
    BY <2>1, <2>2
<1>9. ASSUME NEW state, PowerChange(state) PROVE OddInv'
  BY <1>9 DEF PowerChange, Disturb
<1>10. ASSUME Quiet PROVE OddInv'
  BY <1>10 DEF Quiet
<1> QED
  BY <1>1, <1>2, <1>3, <1>4, <1>5, <1>6, <1>7, <1>8, <1>9, <1>10, StepKinds

\* What the user did not touch the form shows as it did at first; what is left
\* to set, the user touched, or its loaded value could not be shown.
TouchedInv ==
  /\ \A f \in Fields \ ghost.touched : form.shown[f] = Nearest(form.orig[f])
  /\ \A t \in ToSet(saved.plan) : t.do \in Groups =>
       Setters[t.do].writes \cap (ghost.touched \cup saved.unshown) # {}
  /\ phase = "closed" => saved.plan = <<>>

LEMMA ChangesTouched ==
  ASSUME TouchedInv, NEW g \in Changes
  PROVE  \E f \in Setters[g].writes \cap (ghost.touched \cup Unshown) : Differs(f)
<1> DEFINE Found(h) == \E x \in Setters[h].writes \cap (ghost.touched \cup Unshown) : Differs(x)
<1>1. ASSUME NEW h \in Groups, NEW f \in Setters[h].writes, Differs(f) PROVE Found(h)
  <2>1. f \in Fields
    BY DEF Fields
  <2>2. f \notin ghost.touched => form.shown[f] = Nearest(form.orig[f])
    BY <2>1 DEF TouchedInv
  <2>3. f \notin ghost.touched => f \in Unshown
    BY <1>1, <2>1, <2>2 DEF Differs, Baseline, Nearest, Unshown
  <2> QED
    BY <1>1, <2>3
<1>2. ASSUME NEW gs, g \in Changed(gs) PROVE Found(g)
  BY <1>1, <1>2 DEF Changed
<1>3. ASSUME g \in RdpDiff PROVE Found(g)
  <2>1. g = "rdp" /\ (Differs("rdp override") \/ Differs("rdp options"))
    BY <1>3 DEF RdpDiff
  <2>2. Setters["rdp"].writes = {"rdp override", "rdp options"} /\ "rdp" \in Groups
    BY SetterByName, WritesByName DEF Groups
  <2> QED
    BY <1>1, <2>1, <2>2
<1> HIDE DEF Found
<1>4. Found(g)
  BY <1>2, <1>3 DEF Changes, GeneralDiff, FirmwareDiff, PlatformDiff, SecurityDiff, ServicesDiff,
       StorageDiff, AdapterDiff, FeaturesDiff
<1> QED
  BY <1>4 DEF Found

LEMMA PlanOfGroups ==
  ASSUME RowsTyped(rows), NEW t \in ToSet(SavePlan(Changes)), t.do \in Groups
  PROVE  t.do \in Changes
<1>1. t \in PlanTasks(Changes)
  BY ChangesAreGroups, PlanIs
<1>2. \A g \in Groups : g \notin DeviceTasks
  BY GroupsAreSetters, SetterNames DEF DeviceTasks, Kinds
<1>3. ASSUME t \in ToSet(rows.queue) PROVE t.do \in Kinds
  <2>1. rows.queue \in Seq([do : Kinds, at : AnyPlace])
    BY DEF RowsTyped, Queues
  <2>2. \A i \in DOMAIN rows.queue : rows.queue[i] \in [do : Kinds, at : AnyPlace]
    BY <2>1, LenProperties, ElementOfSeq
  <2> QED
    BY <1>3, <2>2 DEF ToSet
<1> QED
  BY <1>1, <1>2, <1>3 DEF PlanTasks, Task, DeviceTasks

LEMMA TouchedStep == Typed /\ OddInv /\ TouchedInv /\ [Next]_vars => TouchedInv'
<1> SUFFICES ASSUME Typed, OddInv, TouchedInv, [Next]_vars PROVE TouchedInv'
  OBVIOUS
<1>0. ToSet(<<>>) = {}
  BY DEF ToSet
<1>1. ASSUME Open PROVE TouchedInv'
  <2>1. form'.shown = [f \in Fields |-> Nearest(Loaded[f])] /\ form'.orig = Loaded
    BY <1>1 DEF Open, LoadFromVm
  <2>2. saved.plan = <<>> /\ UNCHANGED saved /\ phase' = "open"
    BY <1>1 DEF Open, TouchedInv
  <2> QED
    BY <1>0, <2>1, <2>2 DEF TouchedInv
<1>2. ASSUME Save PROVE TouchedInv'
  <2>1. /\ saved'.plan = SavePlan(Changes) /\ saved'.unshown = Unshown /\ UNCHANGED <<form, ghost>>
        /\ phase' # "closed"
    BY <1>2 DEF Save
  <2>2. RowsTyped(rows)
    BY DEF Typed
  <2>3. \A t \in ToSet(SavePlan(Changes)) : t.do \in Groups =>
          Setters[t.do].writes \cap (ghost.touched \cup Unshown) # {}
    BY <2>2, PlanOfGroups, ChangesTouched
  <2> QED
    BY <2>1, <2>3 DEF TouchedInv
<1>3. ASSUME Set PROVE TouchedInv'
  <2>1. /\ ToSet(saved'.plan) \subseteq ToSet(saved.plan) /\ phase = "setting"
        /\ form'.orig = form.orig /\ form'.shown = form.shown /\ UNCHANGED <<phase, ghost>>
        /\ saved'.unshown = saved.unshown
    BY <1>3, SetIs
  <2> QED
    BY <2>1 DEF TouchedInv
<1>4. ASSUME SaveEnds PROVE TouchedInv'
  <2>1. UNCHANGED <<form, saved>> /\ phase' # "closed"
    BY <1>4 DEF SaveEnds
  <2>2. ghost'.touched = ghost.touched
    <3> DEFINE retried == ghost.retried \/ saved.errors
    <3>1. ghost' = [ghost EXCEPT !.retried = retried]
      BY <1>4 DEF SaveEnds
    <3> HIDE DEF retried
    <3> QED
      BY <3>1 DEF Typed
  <2> QED
    BY <2>1, <2>2 DEF TouchedInv
<1>5. ASSUME Opener PROVE TouchedInv'
  <2>1. /\ form'.orig = [f \in Fields |-> "old"] /\ form'.shown = [f \in Fields |-> "old"]
        /\ saved'.plan = <<>>
    BY <1>5 DEF Opener, NoForm, NotSaved
  <2>2. Nearest("old") = "old"
    BY DEF Nearest
  <2> QED
    BY <1>0, <2>1, <2>2 DEF TouchedInv
<1>6. ASSUME AddScsiEnds \/ RemoveScsiControllerByRef PROVE TouchedInv'
  <2>1. UNCHANGED <<saved, ghost, phase>> /\ (form' = form \/ form' = RebuiltForm)
    BY <1>6, FormSteps
  <2>2. \A f \in Fields \ ghost.touched : RebuiltForm.shown[f] = Nearest(RebuiltForm.orig[f])
    BY RebuiltFormIs DEF TouchedInv
  <2> QED
    BY <2>1, <2>2 DEF TouchedInv
<1>7. ASSUME NEW f \in Edited, Change(f) PROVE TouchedInv'
  <2>1. PICK v \in Positions(f) \ {form.shown[f]} :
           /\ form'.orig = form.orig
           /\ form'.shown = With(form.shown, Switched(f, v))
           /\ ghost'.touched = ghost.touched \cup DOMAIN Switched(f, v)
    BY <1>7, ChangeIs
  <2>2. DOMAIN form.shown = Fields
    BY DEF Typed, FormTyped, Texture
  <2>3. \A x \in Fields \ ghost'.touched : form'.shown[x] = form.shown[x]
    BY <2>1, <2>2 DEF With
  <2>4. UNCHANGED <<saved, phase>>
    BY <1>7 DEF Change
  <2> QED
    BY <2>1, <2>3, <2>4 DEF TouchedInv
<1>8. ASSUME Disturb PROVE TouchedInv'
  <2>1. UNCHANGED <<form, saved, phase>>
    BY <1>8 DEF Disturb
  <2>2. ghost'.touched = ghost.touched
    <3> DEFINE there == phase # "closed"
    <3>1. ghost' = [ghost EXCEPT !.disturbed = there]
      BY <1>8 DEF Disturb
    <3> HIDE DEF there
    <3> QED
      BY <3>1 DEF Typed
  <2> QED
    BY <2>1, <2>2 DEF TouchedInv
<1>9. ASSUME Poll PROVE TouchedInv'
  BY <1>9 DEF Poll, TouchedInv
<1>10. ASSUME Quiet PROVE TouchedInv'
  <2>1. UNCHANGED <<form, saved, ghost>> /\ (phase' = "closed" => phase = "closed")
    BY <1>10 DEF Quiet, Cancel, BeginSets, EndSets
  <2> QED
    BY <2>1 DEF TouchedInv
<1> QED
  BY <1>1, <1>2, <1>3, <1>4, <1>5, <1>6, <1>7, <1>8, <1>9, <1>10, StepKinds DEF Foreign, PowerChange

\* The body of UneditedKept: a setting changes, and no other tool or fault did
\* it, only where the user touched the group.
Unedited ==
  \A f \in Fields : host'[f] # host[f] /\ budget'.trouble = budget.trouble =>
    \E g \in Groups : f \in Setters[g].writes \cup DOMAIN Given(g)
                      /\ Setters[g].writes \cap (ghost.touched \cup saved.unshown) # {}

LEMMA UneditedStep == Typed /\ TouchedInv /\ [Next]_vars => Unedited
<1> SUFFICES ASSUME Typed, TouchedInv, [Next]_vars, NEW f \in Fields,
                    host'[f] # host[f], budget'.trouble = budget.trouble
             PROVE  \E g \in Groups : f \in Setters[g].writes \cup DOMAIN Given(g)
                                      /\ Setters[g].writes \cap (ghost.touched \cup saved.unshown) # {}
  BY DEF Unedited
<1>1. ~Disturb
  BY DEF Disturb, Typed
<1>2. Set
  <2>1. Open \/ Save \/ SaveEnds \/ Opener \/ Poll \/ Quiet \/ (\E x \in Edited : Change(x)) => UNCHANGED host
    BY DEF Open, Save, SaveEnds, Opener, Poll, Quiet, Change
  <2>2. AddScsiEnds \/ RemoveScsiControllerByRef => UNCHANGED host
    BY FormSteps
  <2> QED
    BY <1>1, <2>1, <2>2, StepKinds DEF Foreign, PowerChange
<1> DEFINE t == Head(saved.plan)
<1>3. /\ t \in ToSet(saved.plan)
      /\ UNCHANGED host \/ (t.do \in Groups /\ SetDone(t.do))
  BY <1>2, SetIs
<1>4. t.do \in Groups /\ SetDone(t.do)
  BY <1>3
<1> HIDE DEF t
<1>5. f \in DOMAIN Given(t.do)
  BY <1>4, HostChanges
<1>6. Setters[t.do].writes \cap (ghost.touched \cup saved.unshown) # {}
  BY <1>3, <1>4 DEF TouchedInv
<1> QED
  BY <1>4, <1>5, <1>6

LEMMA TouchedInit == Init => TouchedInv
<1>1. Init => form = NoForm /\ saved = NotSaved
  BY DEF Init
<1>2. form = NoForm /\ saved = NotSaved => TouchedInv
  BY DEF TouchedInv, NoForm, NotSaved, Nearest, ToSet
<1> QED
  BY <1>1, <1>2

\* Save writes no group of settings in which the user touched nothing, not even
\* one whose value the form cannot show, but for a value that it compares as it
\* was loaded.
THEOREM UntouchedStaysAsItWas == Spec => UneditedKept
BY OddInit, OddStep, TouchedInit, TouchedStep, UneditedStep, TypedInit, TypedStep, PTL
   DEF Spec, UneditedKept, Unedited

----------------------------------------------------------------------------
(* A dialog that Save closed has applied what it showed: the steps between    *)
(* the click and the end, one part of the argument after the other.           *)

\* What is set only while the machine is off.
OffNames ==
  {"memory size", "numa memory", "processor count", "numa topology", "secure boot", "template",
   "boot order", "boot codes", "stop action", "tpm", "encrypt", "shield", "mac"}

\* Each of those is written by one setter only, and so are the fields that
\* shielding forces on.
Fits(s)   == s.off = s.writes \cap OffNames
Others(s) == {"tpm", "encrypt"} \cap s.writes = {}

LEMMA OffWriters ==
  ASSUME NEW g \in DOMAIN Setters
  PROVE  /\ Setters[g].off = Setters[g].writes \cap OffNames
         /\ Setters[g].writes \cap {"tpm", "encrypt"} \subseteq {g}
<1>1. Fits(RenameVM) /\ Others(RenameVM)
  BY DEF RenameVM, Setter, OffNames, Fits, Others
<1>2. Fits(SetNotes) /\ Others(SetNotes)
  BY DEF SetNotes, Setter, OffNames, Fits, Others
<1>3. Fits(SetMemoryConfig) /\ Others(SetMemoryConfig)
  BY DEF SetMemoryConfig, Setter, OffNames, Fits, Others
<1>4. Fits(SetProcessorConfig) /\ Others(SetProcessorConfig)
  BY DEF SetProcessorConfig, Setter, OffNames, Fits, Others
<1>5. Fits(SetSecureBoot) /\ Others(SetSecureBoot)
  BY DEF SetSecureBoot, Setter, OffNames, Fits, Others
<1>6. Fits(SetBootOrder) /\ Others(SetBootOrder)
  BY DEF SetBootOrder, Setter, OffNames, Fits, Others
<1>7. Fits(SetBootOrderGen1) /\ Others(SetBootOrderGen1)
  BY DEF SetBootOrderGen1, Setter, OffNames, Fits, Others
<1>8. Fits(SetCheckpointConfig) /\ Others(SetCheckpointConfig)
  BY DEF SetCheckpointConfig, Setter, OffNames, Fits, Others
<1>9. Fits(SetSmartPagingFileLocation) /\ Others(SetSmartPagingFileLocation)
  BY DEF SetSmartPagingFileLocation, Setter, OffNames, Fits, Others
<1>10. Fits(SetSerialPortConnection("com 1")) /\ Others(SetSerialPortConnection("com 1"))
  BY DEF SetSerialPortConnection, Setter, OffNames, Fits, Others
<1>11. Fits(SetSerialPortConnection("com 2")) /\ Others(SetSerialPortConnection("com 2"))
  BY DEF SetSerialPortConnection, Setter, OffNames, Fits, Others
<1>12. Fits(SetVmDebugger) /\ Others(SetVmDebugger)
  BY DEF SetVmDebugger, Setter, OffNames, Fits, Others
<1>13. Fits(SetAutomaticActions) /\ Others(SetAutomaticActions)
  BY DEF SetAutomaticActions, Setter, OffNames, Fits, Others
<1>14. Fits(SetVmTpm)
  BY DEF SetVmTpm, Setter, OffNames, Fits
<1>15. Fits(SetVmStateEncryption)
  BY DEF SetVmStateEncryption, Setter, OffNames, Fits
<1>16. Fits(SetVmShielded) /\ Others(SetVmShielded)
  BY DEF SetVmShielded, Setter, OffNames, Fits, Others
<1>17. Fits(SetDvdMedia) /\ Others(SetDvdMedia)
  BY DEF SetDvdMedia, Setter, OffNames, Fits, Others
<1>18. Fits(SetDiskQos) /\ Others(SetDiskQos)
  BY DEF SetDiskQos, Setter, OffNames, Fits, Others
<1>19. Fits(SetIntegrationServiceEnabled) /\ Others(SetIntegrationServiceEnabled)
  BY DEF SetIntegrationServiceEnabled, Setter, OffNames, Fits, Others
<1>20. Fits(SetNetworkAdapterSwitch) /\ Others(SetNetworkAdapterSwitch)
  BY DEF SetNetworkAdapterSwitch, Setter, OffNames, Fits, Others
<1>21. Fits(SetNetworkAdapterMac) /\ Others(SetNetworkAdapterMac)
  BY DEF SetNetworkAdapterMac, Setter, OffNames, Fits, Others
<1>22. Fits(SetNetworkAdapterVlan) /\ Others(SetNetworkAdapterVlan)
  BY DEF SetNetworkAdapterVlan, Setter, OffNames, Fits, Others
<1>23. Fits(SetNetworkAdapterAdvanced) /\ Others(SetNetworkAdapterAdvanced)
  BY DEF SetNetworkAdapterAdvanced, Setter, OffNames, Fits, Others
<1>24. Fits(SetNetworkAdapterBandwidth) /\ Others(SetNetworkAdapterBandwidth)
  BY DEF SetNetworkAdapterBandwidth, Setter, OffNames, Fits, Others
<1>25. Fits(SetNetworkAdapterProtectedNetwork) /\ Others(SetNetworkAdapterProtectedNetwork)
  BY DEF SetNetworkAdapterProtectedNetwork, Setter, OffNames, Fits, Others
<1>26. Fits(SetNetworkAdapterDeviceNaming) /\ Others(SetNetworkAdapterDeviceNaming)
  BY DEF SetNetworkAdapterDeviceNaming, Setter, OffNames, Fits, Others
<1>27. Fits(SetNetworkAdapterOffload) /\ Others(SetNetworkAdapterOffload)
  BY DEF SetNetworkAdapterOffload, Setter, OffNames, Fits, Others
<1>28. Fits(SetRdpOptionsOverride) /\ Others(SetRdpOptionsOverride)
  BY DEF SetRdpOptionsOverride, Setter, OffNames, Fits, Others
<1>29. Fits(Setters[g]) /\ (g \notin {"tpm", "encrypt"} => Others(Setters[g]))
  BY <1>1, <1>2, <1>3, <1>4, <1>5, <1>6, <1>7, <1>8, <1>9, <1>10, <1>11, <1>12, <1>13, <1>14,
     <1>15, <1>16, <1>17, <1>18, <1>19, <1>20, <1>21, <1>22, <1>23, <1>24, <1>25, <1>26, <1>27, <1>28,
     SetterNames, SetterByName
<1>30. g \in {"tpm", "encrypt"} => Setters[g].writes = {g}
  BY SetterByName, WritesByName
<1> QED
  BY <1>29, <1>30 DEF Fits, Others

LEMMA OffOnlyIs ==
  /\ OffOnly \subseteq OffNames \cap Fields
  /\ \A g \in Groups : Setters[g].off = Setters[g].writes \cap OffOnly
  /\ {"tpm", "encrypt", "shield"} \subseteq OffOnly
<1>1. \A g \in Groups : Setters[g].off = Setters[g].writes \cap OffNames
  BY OffWriters, GroupsAreSetters
<1>2. \A g \in Groups : Setters[g].off \subseteq OffOnly /\ Setters[g].writes \subseteq Fields
  BY DEF OffOnly, Fields
<1>3. OffOnly \subseteq OffNames \cap Fields
  BY <1>1, <1>2 DEF OffOnly
<1>4. {"tpm", "encrypt", "shield"} \subseteq Groups
  BY DEF Groups
<1>5. "tpm" \in Setters["tpm"].off /\ "encrypt" \in Setters["encrypt"].off /\ "shield" \in Setters["shield"].off
  <2>1. "tpm" \in SetVmTpm.off /\ "encrypt" \in SetVmStateEncryption.off /\ "shield" \in SetVmShielded.off
    BY DEF SetVmTpm, SetVmStateEncryption, SetVmShielded, Setter
  <2> QED
    BY <2>1, SetterByName
<1>6. \A g \in Groups : Setters[g].off = Setters[g].writes \cap OffOnly
  BY <1>1, <1>2, <1>3
<1>7. {"tpm", "encrypt", "shield"} \subseteq OffOnly
  BY <1>2, <1>4, <1>5
<1> QED
  BY <1>3, <1>6, <1>7

\* From the click on Save to the end of a Save without errors.
Closing == phase \in {"saving", "setting", "waiting", "saved"}

\* Nobody else changed the machine since the poll the dialog read.
Alone == phase # "closed" /\ ~ghost.disturbed /\ power = form.power

\* What is left to set are changed groups, and devices that were queued.
LeftInv ==
  /\ \A t \in ToSet(saved.plan) :
       /\ t.do \in Groups => t.do \in saved.changed
       /\ t.do \in Kinds => t \in ToSet(saved.queue)
  /\ phase \in {"waiting", "saved"} => saved.plan = <<>>
  /\ phase = "saved" => ~saved.errors

\* Only drives that can be removed are marked.
MarksInv == \A p \in rows.marks : rows.drives[p] \in {"disk", "raw", "dvd"}

\* On a machine that is not off, what is set only while it is off stays as it was
\* loaded; a group to set has a field that is set at any time, and leaves the
\* others as they are.
OffInv ==
  Alone /\ form.power # "Off" =>
    /\ \A f \in OffOnly : host[f] = form.orig[f] /\ form.shown[f] = Nearest(form.orig[f])
    /\ Closing => \A g \in saved.changed :
                    /\ ~(Setters[g].writes \subseteq Setters[g].off)
                    /\ \A f \in Setters[g].off : saved.shown[f] = form.orig[f]

\* What shielding forces on is shown on, or was never touched.
ShieldInv ==
  /\ form.shown["shield"] = "on" =>
       \A f \in {"tpm", "encrypt"} : form.shown[f] = "on" \/ form.shown[f] = Nearest(form.orig[f])
  /\ Closing /\ saved.shown["shield"] = "on" =>
       \A f \in {"tpm", "encrypt"} \cap saved.changed : saved.shown[f] = "on"

Applied(g) == \A f \in DOMAIN Given(g) : host[f] = Given(g)[f]

\* A changed group is still to set, or is applied.
AppliedInv ==
  Closing /\ Alone /\ ~saved.errors =>
    \A g \in saved.changed : Task(g, Here) \in ToSet(saved.plan) \/ Applied(g)

\* No device is removed that was attached before it.
InOrder(s) ==
  \A i, j \in DOMAIN s : i < j /\ s[i].do \in Kinds => Device(s[i].do) \notin Removes(s[j].do)

\* A queued device is still to attach, or at its place, from where nothing
\* still to do removes it.
Settled(q) ==
  \/ q \in ToSet(saved.plan)
  \/ /\ disks.drives[q.at] = Device(q.do)
     /\ \A t \in ToSet(saved.plan) : Device(q.do) \notin Removes(t.do)

\* A marked drive is still to remove, or is gone.
Gone(p) ==
  disks.drives[p] = "none" \/ \E do \in {"dvdRemove", "detach"} : Task(do, p) \in ToSet(saved.plan)

AllPlaced == \A i \in DOMAIN saved.queue : saved.queue[i].at[2] >= 0
QueuedAts == {q.at : q \in ToSet(saved.queue)}

DevicesInv ==
  Closing /\ ~saved.errors =>
    /\ InOrder(saved.plan)
    /\ \A i \in DOMAIN saved.queue : saved.queue[i].at[2] >= 0 => Settled(saved.queue[i])
    /\ AllPlaced => \A p \in saved.marks \ QueuedAts : Gone(p)

\* How many tasks of a kind there are.
Count(s, do) == Cardinality({i \in DOMAIN s : s[i].do = do})

NicsInv ==
  /\ phase = "open" /\ ~ghost.retried => ghost.nics = disks.nics
  /\ Closing /\ ~saved.errors /\ ~ghost.retried =>
       disks.nics + Count(saved.plan, "nicAdd") = saved.nics + Count(saved.plan, "nicRemove")
----------------------------------------------------------------------------
(* What a set is given.                                                    *)

LEMMA GivenSame ==
  ASSUME saved'.shown = saved.shown
  PROVE  \A g : Given(g)' = Given(g)
BY DEF Given, OnShieldingToggled

\* A changed group wants what was shown, or is given it alone.
LEMMA GivenIsShown ==
  ASSUME ShieldInv, Closing, saved.changed \subseteq Groups,
         NEW g \in saved.changed, NEW f \in DOMAIN Given(g), NEW h \in saved.changed, f \in DOMAIN Given(h),
         g # h
  PROVE  Given(g)[f] = saved.shown[f]
<1>1. CASE f = "rdp options"
  <2>1. g = "rdp" /\ h = "rdp"
    BY <1>1, OnlyRdpGives
  <2> QED
    BY <2>1
<1>2. CASE g = "shield" /\ saved.shown["shield"] = "on" /\ f \in {"tpm", "encrypt", "shield"} /\ Given(g)[f] = "on"
  <2>1. CASE f = "shield"
    BY <1>2, <2>1
  <2>2. CASE f \in {"tpm", "encrypt"}
    <3>1. f \in Setters[h].writes
      BY <1>2, <2>2, GivenValues
    <3>2. h = f
      BY <2>2, <3>1, OffWriters, GroupsAreSetters
    <3> QED
      BY <1>2, <2>2, <3>2 DEF ShieldInv
  <2> QED
    BY <1>2, <2>1, <2>2
<1> QED
  BY <1>1, <1>2, GivenValues

\* Two changed groups never want different values for a field.
LEMMA GivenAgrees ==
  ASSUME ShieldInv, Closing, saved.changed \subseteq Groups,
         NEW g \in saved.changed, NEW h \in saved.changed,
         NEW f \in DOMAIN Given(g), f \in DOMAIN Given(h)
  PROVE  Given(g)[f] = Given(h)[f]
<1>1. CASE g = h
  BY <1>1
<1>2. CASE g # h
  BY <1>2, GivenIsShown
<1> QED
  BY <1>1, <1>2

LEMMA ShieldAlone == Setters["shield"].writes \subseteq Setters["shield"].off
<1>1. SetVmShielded.writes \subseteq SetVmShielded.off
  BY DEF SetVmShielded, Setter
<1> QED
  BY <1>1, SetterByName

\* Hyper-V takes what a Save sets of a machine nobody else changed.
LEMMA NotLocked ==
  ASSUME OffInv, Alone, Closing, saved.changed \subseteq Groups, NEW g \in saved.changed
  PROVE  ~Locked(g)
<1> SUFFICES ASSUME power # "Off", NEW f \in Setters[g].off \cap DOMAIN Given(g), Given(g)[f] # host[f]
             PROVE  FALSE
  BY DEF Locked
<1>1. form.power # "Off"
  BY DEF Alone
<1>2. /\ ~(Setters[g].writes \subseteq Setters[g].off)
      /\ saved.shown[f] = form.orig[f]
  BY <1>1 DEF OffInv
<1>3. f \in OffOnly
  BY OffOnlyIs
<1>4. host[f] = form.orig[f]
  BY <1>1, <1>3 DEF OffInv
<1>5. (Given(g)[f] = "default" /\ f = "rdp options") \/ g = "shield"
  BY <1>2, <1>4, GivenValues
<1>6. f # "rdp options"
  BY <1>3, OffOnlyIs DEF OffNames
<1> QED
  BY <1>2, <1>5, <1>6, ShieldAlone

\* What a set of a changed group leaves of what is set only while the machine
\* is off, where it is not off.
LEMMA OffKept ==
  ASSUME Typed, OffInv, Alone, Closing, form.power # "Off", saved.changed \subseteq Groups,
         NEW g \in saved.changed, SetDone(g), NEW f \in OffOnly
  PROVE  host'[f] = host[f]
<1>1. f \in Fields
  BY OffOnlyIs
<1>2. host'[f] = IF f \in DOMAIN Given(g) THEN Given(g)[f] ELSE host[f]
  BY <1>1, HostChanges
<1>3. ASSUME f \in DOMAIN Given(g) PROVE Given(g)[f] = host[f]
  <2>1. /\ ~(Setters[g].writes \subseteq Setters[g].off)
        /\ \A x \in Setters[g].off : saved.shown[x] = form.orig[x]
    BY DEF OffInv
  <2>2. host[f] = form.orig[f]
    BY DEF OffInv
  <2>3. f # "rdp options" /\ g # "shield"
    BY <2>1, ShieldAlone, OffOnlyIs DEF OffNames
  <2>4. Given(g)[f] = saved.shown[f] /\ f \in Setters[g].writes
    BY <1>3, <2>3, GivenValues
  <2>5. f \in Setters[g].off
    BY <2>4, OffOnlyIs
  <2> QED
    BY <2>1, <2>2, <2>4, <2>5
<1> QED
  BY <1>2, <1>3

----------------------------------------------------------------------------
(* Steps that are neither the click on Save, a set, nor the dialog's begin   *)
(* or end.                                                                 *)

Calm ==
  /\ UNCHANGED saved /\ disks'.drives = disks.drives /\ disks'.nics = disks.nics
  /\ Closing' => Closing
  /\ Alone' => Alone /\ UNCHANGED host
  /\ form'.power = form.power
  /\ phase' \in {"waiting", "saved"} => phase \in {"waiting", "saved"} \/ saved.plan = <<>>
  /\ phase' = "saved" => phase = "saved" \/ ~saved.errors
  /\ ~ghost'.retried => ~ghost.retried
  /\ phase' = "open" /\ ~ghost'.retried => phase = "open" /\ ghost'.nics = ghost.nics

LEMMA StepsOfSave ==
  Typed /\ [Next]_vars => Open \/ Save \/ Set \/ Opener \/ Calm
<1> SUFFICES ASSUME Typed, [Next]_vars PROVE Open \/ Save \/ Set \/ Opener \/ Calm
  OBVIOUS
<1> USE DEF Closing, Alone
<1>1. ASSUME AddScsiEnds \/ RemoveScsiControllerByRef PROVE Calm
  <2>1. form'.power = form.power
    BY <1>1, FormSteps, RebuiltFormIs
  <2> QED
    BY <1>1, <2>1, FormSteps DEF Calm
<1>2. ASSUME NEW f \in Edited, Change(f) PROVE Calm
  <2>1. /\ form'.power = form.power /\ ghost'.disturbed = ghost.disturbed
        /\ ghost'.retried = ghost.retried /\ ghost'.nics = ghost.nics
    BY <1>2, ChangeIs
  <2>2. UNCHANGED <<host, disks, power, phase, saved>>
    BY <1>2 DEF Change
  <2> QED
    BY <2>1, <2>2 DEF Calm
<1>3. ASSUME Disturb PROVE Calm
  <2> DEFINE there == phase # "closed"
  <2>1. ghost' = [ghost EXCEPT !.disturbed = there] /\ UNCHANGED <<disks, phase, form, saved>>
    BY <1>3 DEF Disturb
  <2> HIDE DEF there
  <2>2. ghost'.disturbed = there /\ ghost'.retried = ghost.retried /\ ghost'.nics = ghost.nics
    BY <2>1 DEF Typed
  <2> QED
    BY <2>1, <2>2 DEF Calm, there
<1>4. ASSUME Poll PROVE Calm
  BY <1>4 DEF Poll, Calm
<1>5. ASSUME SaveEnds PROVE Calm
  <2> DEFINE retried == ghost.retried \/ saved.errors
  <2>1. /\ ghost' = [ghost EXCEPT !.retried = retried] /\ phase = "waiting"
        /\ phase' = (IF saved.errors THEN "open" ELSE "saved")
        /\ UNCHANGED <<host, disks, power, form, saved>>
    BY <1>5 DEF SaveEnds
  <2> HIDE DEF retried
  <2>2. ghost'.disturbed = ghost.disturbed /\ ghost'.retried = retried /\ ghost'.nics = ghost.nics
    BY <2>1 DEF Typed
  <2> QED
    BY <2>1, <2>2 DEF Calm, retried
<1>6. ASSUME Quiet PROVE Calm
  BY <1>6 DEF Quiet, Cancel, BeginSets, EndSets, Calm
<1> QED
  BY <1>1, <1>2, <1>3, <1>4, <1>5, <1>6, StepKinds DEF Foreign, PowerChange

\* What a click on Save takes from the form.
LEMMA SaveIs ==
  ASSUME Typed, Save
  PROVE  /\ saved'.changed = Changes /\ Changes \subseteq Groups
         /\ saved'.marks = rows.marks /\ saved'.queue = rows.queue
         /\ saved'.plan = SavePlan(Changes) /\ saved'.errors = FALSE
         /\ saved'.nics = ghost.nics + rows.nicAdds - (IF rows.nicRemove THEN 1 ELSE 0)
         /\ DOMAIN saved'.shown = Fields
         /\ \A f \in Fields : saved'.shown[f] \in {form.orig[f], form.shown[f]}
         /\ \A f \in Fields : Differs(f) => saved'.shown[f] = form.shown[f]
         /\ \A f \in Fields \ {"memory weight"} : saved'.shown[f] = form.shown[f]
         /\ SavePlan(Changes) \in Seq(Tasks) /\ ToSet(SavePlan(Changes)) = PlanTasks(Changes)
         /\ phase = "open" /\ phase' = (IF SavePlan(Changes) = <<>> THEN "saved" ELSE "saving")
         /\ UNCHANGED <<host, disks, power, form, rows, ghost>>
<1> DEFINE plan == SavePlan(Changes)
           nics == ghost.nics + rows.nicAdds - (IF rows.nicRemove THEN 1 ELSE 0)
           shown == [f \in Fields |-> Written(f)]
<1>1. /\ saved' = [shown |-> shown, unshown |-> Unshown, changed |-> Changes, marks |-> rows.marks, queue |-> rows.queue,
                   plan |-> plan, errors |-> FALSE, nics |-> nics]
      /\ phase = "open" /\ phase' = (IF plan = <<>> THEN "saved" ELSE "saving")
      /\ UNCHANGED <<host, disks, power, form, rows, ghost>>
  BY DEF Save
<1>2. plan \in Seq(Tasks) /\ ToSet(plan) = PlanTasks(Changes) /\ Changes \subseteq Groups
  BY ChangesAreGroups, PlanIs DEF Typed
<1>3. /\ DOMAIN shown = Fields
      /\ \A f \in Fields : shown[f] \in {form.orig[f], form.shown[f]}
      /\ \A f \in Fields : Differs(f) => shown[f] = form.shown[f]
      /\ \A f \in Fields \ {"memory weight"} : shown[f] = form.shown[f]
  BY DEF Written
<1> HIDE DEF plan, nics, shown
<1>4. /\ saved'.changed = Changes /\ saved'.marks = rows.marks /\ saved'.queue = rows.queue
      /\ saved'.plan = plan /\ saved'.errors = FALSE /\ saved'.nics = nics /\ saved'.shown = shown
  BY <1>1
<1> QED
  BY <1>1, <1>2, <1>3, <1>4 DEF plan, nics

LEMMA LeftStep == Typed /\ LeftInv /\ [Next]_vars => LeftInv'
<1> SUFFICES ASSUME Typed, LeftInv, [Next]_vars PROVE LeftInv'
  OBVIOUS
<1>1. ASSUME Open PROVE LeftInv'
  BY <1>1 DEF Open, LeftInv
<1>2. ASSUME Save PROVE LeftInv'
  <2>1. RowsTyped(rows)
    BY DEF Typed
  <2>2. \A t \in ToSet(SavePlan(Changes)) : t.do \in Groups => t.do \in Changes
    BY <2>1, PlanOfGroups
  <2>3. \A g \in Groups : g \notin Kinds
    BY GroupsAreSetters, SetterNames DEF Kinds
  <2>4. \A t \in PlanTasks(Changes) : t.do \in Kinds => t \in ToSet(rows.queue)
    BY <2>3, ChangesAreGroups DEF PlanTasks, Task, Kinds
  <2> QED
    BY <1>2, <2>2, <2>4, SaveIs DEF LeftInv
<1>3. ASSUME Set PROVE LeftInv'
  <2>1. /\ ToSet(saved'.plan) \subseteq ToSet(saved.plan) /\ UNCHANGED phase /\ phase = "setting"
        /\ saved'.changed = saved.changed /\ saved'.queue = saved.queue
    BY <1>3, SetIs
  <2> QED
    BY <2>1 DEF LeftInv
<1>4. ASSUME Opener PROVE LeftInv'
  <2>1. phase' = "closed" /\ saved'.plan = <<>>
    BY <1>4 DEF Opener, NotSaved
  <2>2. ToSet(<<>>) = {}
    BY DEF ToSet
  <2> QED
    BY <2>1, <2>2 DEF LeftInv
<1>5. ASSUME Calm PROVE LeftInv'
  BY <1>5 DEF Calm, LeftInv
<1> QED
  BY <1>1, <1>2, <1>3, <1>4, <1>5, StepsOfSave

LEMMA MarksStep == Typed /\ MarksInv /\ [Next]_vars => MarksInv'
<1> SUFFICES ASSUME Typed, MarksInv, [Next]_vars PROVE MarksInv'
  OBVIOUS
<1> USE DEF MarksInv
<1>1. ASSUME rows'.marks = {} \/ (rows'.marks = rows.marks /\ rows'.drives = rows.drives) PROVE MarksInv'
  BY <1>1
<1>2. ASSUME NEW r, rows' = RebuildStorageCards(r) \/ rows' = [RebuildStorageCards(r) EXCEPT !.ctrls = disks'.ctrls],
             RowsTyped(r)
      PROVE  rows'.marks = {}
  BY <1>2 DEF RebuildStorageCards, RowsTyped
<1>3. ASSUME Open \/ Opener PROVE MarksInv'
  <2>1. rows' = RebuildStorageCards(NoRows) \/ rows' = NoRows
    BY <1>3 DEF Open, LoadFromVm, Opener
  <2> QED
    BY <1>1, <1>2, <2>1, NothingTyped DEF NoRows
<1>4. ASSUME NEW p \in Places, MarkDrive(p) PROVE MarksInv'
  <2> DEFINE marks == rows.marks \cup {p}
  <2>1. rows' = [rows EXCEPT !.marks = marks] /\ rows.drives[p] # "none"
    BY <1>4 DEF MarkDrive, Click
  <2> HIDE DEF marks
  <2>2. rows'.marks = marks /\ rows'.drives = rows.drives
    BY <2>1 DEF Typed, RowsTyped
  <2>3. rows.drives[p] \in {"disk", "raw", "dvd"}
    BY <2>1 DEF Typed, RowsTyped, DriveKinds
  <2> QED
    BY <2>2, <2>3 DEF marks
<1>5. ASSUME MarkAdapter \/ OnNetworkAddAdapter PROVE MarksInv'
  <2>1. rows' = [rows EXCEPT !.nicRemove = TRUE] \/ rows' = [rows EXCEPT !.nicAdds = @ + 1]
    BY <1>5 DEF MarkAdapter, OnNetworkAddAdapter, Click
  <2> QED
    BY <1>1, <2>1 DEF Typed, RowsTyped
<1>6. ASSUME NEW kind, Queue(kind) PROVE MarksInv'
  <2>1. PICK at \in Placements :
          Click(ConsumeQueuedSlot([rows EXCEPT !.queue = Append(@, Task(kind, at))], at))
    BY <1>6 DEF Queue
  <2> DEFINE queue == Append(rows.queue, Task(kind, at))
             r == [rows EXCEPT !.queue = queue]
  <2>2. rows' = ConsumeQueuedSlot(r, at)
    BY <2>1 DEF Click, Typed, RowsTyped
  <2> HIDE DEF queue
  <2>3. r.marks = rows.marks /\ r.drives = rows.drives /\ DOMAIN r = DOMAIN rows
    BY DEF Typed, RowsTyped
  <2>4. DOMAIN rows = {"ctrls", "drives", "marks", "queued", "queue", "nicRemove", "nicAdds"}
    BY DEF Typed, RowsTyped
  <2> HIDE DEF r
  <2>5. \A q : [r EXCEPT !.queued = q].marks = r.marks /\ [r EXCEPT !.queued = q].drives = r.drives
    BY <2>3, <2>4
  <2>6. rows'.marks = r.marks /\ rows'.drives = r.drives
    <3> DEFINE queued == r.queued \cup {at}
    <3>1. rows' = r \/ rows' = [r EXCEPT !.queued = queued]
      BY <2>2 DEF ConsumeQueuedSlot
    <3> HIDE DEF queued
    <3> QED
      BY <2>5, <3>1
  <2> QED
    BY <1>1, <2>3, <2>6
<1>7. ASSUME AddScsiEnds \/ RemoveScsiControllerByRef PROVE MarksInv'
  <2>1. ASSUME NEW ok, NEW ctrls, NEW known, NEW r, PendingEnds(ok, ctrls, known, r), DOMAIN r = DOMAIN rows
        PROVE  rows' = rows \/ rows'.marks = {}
    <3> DEFINE card == RebuildStorageCards(r)
    <3>1. UNCHANGED rows \/ rows' = [card EXCEPT !.ctrls = ctrls]
      BY <2>1, Zenon DEF PendingEnds
    <3>2. "marks" \in DOMAIN rows
      BY DEF Typed, RowsTyped
    <3>3. card.marks = {} /\ DOMAIN card = DOMAIN rows
      BY <2>1, <3>2 DEF RebuildStorageCards
    <3> HIDE DEF card
    <3> QED
      BY <3>1, <3>2, <3>3
  <2>2. \A queued : DOMAIN [rows EXCEPT !.queued = queued] = DOMAIN rows
    OBVIOUS
  <2>3. rows' = rows \/ rows'.marks = {}
    BY <1>7, <2>1, <2>2 DEF AddScsiEnds, RemoveScsiControllerByRef
  <2> QED
    BY <1>1, <2>3
<1>8. ASSUME UNCHANGED rows PROVE MarksInv'
  BY <1>8
<1>9. ASSUME Cancel \/ Save \/ BeginSets \/ Set \/ EndSets \/ SaveEnds \/ Poll PROVE UNCHANGED rows
  BY <1>9 DEF Cancel, Save, BeginSets, Set, EndSets, SaveEnds, Poll
<1>10. ASSUME NEW f, Change(f) \/ Foreign(f) \/ PowerChange(f) PROVE UNCHANGED rows
  BY <1>10 DEF Change, Foreign, PowerChange, Disturb
<1>11. ASSUME NEW task, Start(task) PROVE UNCHANGED rows
  BY <1>11 DEF Start
<1>12. ASSUME UNCHANGED vars PROVE UNCHANGED rows
  BY <1>12 DEF vars
<1> QED
  BY <1>3, <1>4, <1>5, <1>6, <1>7, <1>8, <1>9, <1>10, <1>11, <1>12
     DEF Next, OnStorageAttachVhd, OnStorageCreateVhd, OnStorageAttachPhysical, OnStorageAddDvdDrive,
         OnStorageAddScsiController, OnRemoveScsiController

\* A calm step changes of the form only what was clicked, and the drives' rows.
LEMMA CalmForm ==
  ASSUME Typed, [Next]_vars, ~Open, ~Save, ~Set, ~Opener
  PROVE  \/ form' = form
         \/ form' = RebuiltForm /\ UNCHANGED host
         \/ \E f \in Edited : Change(f)
<1>1. AddScsiEnds \/ RemoveScsiControllerByRef => UNCHANGED host /\ (form' = form \/ form' = RebuiltForm)
  BY FormSteps
<1>2. SaveEnds \/ Poll \/ Disturb \/ Quiet => form' = form
  BY DEF SaveEnds, Poll, Disturb, Quiet
<1> QED
  BY <1>1, <1>2, StepKinds DEF Foreign, PowerChange

LEMMA ShieldStep == Typed /\ OddInv /\ TouchedInv /\ ShieldInv /\ [Next]_vars => ShieldInv'
<1> SUFFICES ASSUME Typed, OddInv, TouchedInv, ShieldInv, [Next]_vars PROVE ShieldInv'
  OBVIOUS
<1>0. Fields = DOMAIN form.shown
  BY DEF Typed, FormTyped, Texture
<1>1. ASSUME Open PROVE ShieldInv'
  <2>1. /\ form'.shown = [f \in Fields |-> Nearest(Loaded[f])] /\ form'.orig = Loaded
        /\ phase' = "open"
    BY <1>1 DEF Open, LoadFromVm
  <2> QED
    BY <2>1, ShieldFields DEF ShieldInv, Closing
<1>2. ASSUME Save PROVE ShieldInv'
  <2>1. ASSUME NEW f \in {"tpm", "encrypt"} \cap Changes PROVE Differs(f)
    <3>1. Setters[f].writes = {f}
      BY SetterByName, WritesByName
    <3> QED
      BY <2>1, <3>1, ChangesTouched
  <2>2. \A f \in {"tpm", "encrypt"} : Baseline(f) = Nearest(form.orig[f])
    <3>1. \A f \in {"tpm", "encrypt"} : f \in Fields \ Odd
      BY ShieldFields, SettingsAssumption DEF Toggles
    <3>2. \A f \in {"tpm", "encrypt"} : form.orig[f] # "odd"
      BY <3>1 DEF OddInv
    <3> QED
      BY <3>2 DEF Baseline, Nearest
  <2>3. \A f \in {"tpm", "encrypt", "shield"} : saved'.shown[f] = form.shown[f]
    BY <1>2, SaveIs, ShieldFields
  <2>4. saved'.changed = Changes /\ UNCHANGED form
    BY <1>2, SaveIs
  <2> QED
    BY <2>1, <2>2, <2>3, <2>4 DEF ShieldInv, Differs
<1>3. ASSUME Set PROVE ShieldInv'
  <2>1. /\ form'.orig = form.orig /\ form'.shown = form.shown /\ UNCHANGED phase
        /\ saved'.shown = saved.shown /\ saved'.changed = saved.changed
    BY <1>3, SetIs
  <2> QED
    BY <2>1 DEF ShieldInv, Closing
<1>4. ASSUME Opener PROVE ShieldInv'
  BY <1>4, ShieldFields DEF Opener, NoForm, ShieldInv, Closing
<1>5. ASSUME Calm, ~Open, ~Save, ~Set, ~Opener PROVE ShieldInv'
  <2>1. UNCHANGED saved /\ (Closing' => Closing)
    BY <1>5 DEF Calm
  <2>2. CASE form' = form
    BY <2>1, <2>2 DEF ShieldInv
  <2>3. CASE form' = RebuiltForm
    <3>1. \A f \in {"tpm", "encrypt", "shield"} :
            form'.orig[f] = form.orig[f] /\ form'.shown[f] = form.shown[f]
      BY <2>3, RebuiltFormIs, ShieldFields
    <3> QED
      BY <2>1, <3>1 DEF ShieldInv
  <2>4. ASSUME NEW f \in Edited, Change(f) PROVE ShieldInv'
    <3>1. PICK v \in Positions(f) \ {form.shown[f]} :
             /\ form'.orig = form.orig /\ form'.shown = With(form.shown, Switched(f, v))
             /\ \A x \in DOMAIN Switched(f, v) : Switched(f, v)[x] = v
      BY <2>4, ChangeIs
    <3>2. \A x \in Fields : form'.shown[x] = IF x \in DOMAIN Switched(f, v) THEN v ELSE form.shown[x]
      BY <1>0, <3>1 DEF With
    <3>3. CASE f = "shield"
      <4>1. DOMAIN Switched(f, v) = {"shield"} \cup (IF v = "on" THEN {"tpm", "encrypt"} ELSE {})
        BY <3>3 DEF Switched, OnShieldingToggled
      <4> QED
        BY <2>1, <3>1, <3>2, <4>1, ShieldFields DEF ShieldInv
    <3>4. CASE f \in {"tpm", "encrypt"}
      <4>1. form.shown["shield"] = "off"
        BY <2>4, <3>4 DEF Change, ApplyStateGating
      <4>2. DOMAIN Switched(f, v) = {f}
        BY <3>4 DEF Switched
      <4> QED
        BY <2>1, <3>1, <3>2, <3>4, <4>1, <4>2, ShieldFields DEF ShieldInv
    <3>5. CASE f \notin {"tpm", "encrypt", "shield"}
      <4>1. DOMAIN Switched(f, v) = {f}
        BY <3>5 DEF Switched
      <4> QED
        BY <2>1, <3>1, <3>2, <3>5, <4>1, ShieldFields DEF ShieldInv
    <3> QED
      BY <3>3, <3>4, <3>5
  <2> QED
    BY <1>5, <2>2, <2>3, <2>4, CalmForm
<1> QED
  BY <1>1, <1>2, <1>3, <1>4, <1>5, StepsOfSave

LEMMA OffStep ==
  Typed /\ CacheInv /\ OddInv /\ TouchedInv /\ LeftInv /\ OffInv /\ [Next]_vars => OffInv'
<1> SUFFICES ASSUME Typed, CacheInv, OddInv, TouchedInv, LeftInv, OffInv, [Next]_vars,
                    Alone', form'.power # "Off"
             PROVE  /\ \A f \in OffOnly : host'[f] = form'.orig[f] /\ form'.shown[f] = Nearest(form'.orig[f])
                    /\ Closing' => \A g \in saved'.changed :
                                     /\ ~(Setters[g].writes \subseteq Setters[g].off)
                                     /\ \A f \in Setters[g].off : saved'.shown[f] = form'.orig[f]
  BY DEF OffInv
<1> DEFINE Kept    == \A f \in OffOnly : host'[f] = form'.orig[f] /\ form'.shown[f] = Nearest(form'.orig[f])
           Left(g) == /\ ~(Setters[g].writes \subseteq Setters[g].off)
                      /\ \A f \in Setters[g].off : saved'.shown[f] = form'.orig[f]
<1> SUFFICES Kept /\ (Closing' => \A g \in saved'.changed : Left(g))
  OBVIOUS
<1>0. OffOnly \subseteq Fields /\ "rdp options" \notin OffOnly /\ OffOnly \cap {"medium", "iops"} = {}
  BY OffOnlyIs DEF OffNames
<1>1. ASSUME Open PROVE Kept /\ ~Closing'
  <2>1. /\ form'.shown = [f \in Fields |-> Nearest(Loaded[f])] /\ form'.orig = Loaded
        /\ phase = "closed" /\ phase' = "open" /\ UNCHANGED host
    BY <1>1 DEF Open, LoadFromVm
  <2>2. ghost'.disturbed = behind
    <3> DEFINE nics == disks.nics
    <3>1. ghost' = [NoGhost EXCEPT !.nics = nics, !.disturbed = behind]
      BY <1>1 DEF Open
    <3> HIDE DEF nics
    <3> QED
      BY <3>1 DEF NoGhost
  <2>3. Loaded = host
    BY <2>1, <2>2, LoadedIsHost DEF Alone
  <2> QED
    BY <1>0, <2>1, <2>3 DEF Closing
<1>2. ASSUME Save PROVE Kept /\ \A g \in saved'.changed : Left(g)
  <2>1. /\ UNCHANGED <<host, form, power, ghost>> /\ phase = "open"
        /\ saved'.changed = Changes /\ Changes \subseteq Groups
        /\ \A f \in Fields : saved'.shown[f] \in {form.orig[f], form.shown[f]}
    BY <1>2, SaveIs
  <2>2. /\ Alone /\ form.power # "Off"
        /\ \A f \in OffOnly : host[f] = form.orig[f] /\ form.shown[f] = Nearest(form.orig[f])
    BY <2>1 DEF Alone, OffInv
  <2>3. ASSUME NEW f \in OffOnly PROVE ~Differs(f)
    <3>1. CASE f \in ShownBaseline
      BY <2>2, <3>1 DEF Differs, Baseline
    <3>2. CASE f \notin ShownBaseline
      <4>1. f \in Fields \ Odd
        BY <1>0, <3>2, SettingsAssumption
      <4>2. form.orig[f] # "odd"
        BY <4>1 DEF OddInv
      <4> QED
        BY <2>2, <3>2, <4>2 DEF Differs, Baseline, Nearest
    <3> QED
      BY <3>1, <3>2
  <2>4. ASSUME NEW g \in Changes PROVE Left(g)
    <3>1. g \in Groups /\ Setters[g].off = Setters[g].writes \cap OffOnly
      BY <2>1, OffOnlyIs
    <3>2. PICK f \in Setters[g].writes : Differs(f)
      BY ChangesTouched
    <3>3. ~(Setters[g].writes \subseteq Setters[g].off)
      BY <2>3, <3>1, <3>2
    <3>4. Setters[g].off \cap Odd = {}
      BY <3>1, <3>3, SettingsAssumption
    <3>5. ASSUME NEW x \in Setters[g].off PROVE saved'.shown[x] = form.orig[x]
      <4>1. x \in Fields \ Odd /\ form.shown[x] = Nearest(form.orig[x])
        BY <1>0, <2>2, <3>1, <3>4
      <4>2. form.orig[x] # "odd"
        BY <4>1 DEF OddInv
      <4> QED
        BY <2>1, <4>1, <4>2 DEF Nearest
    <3> QED
      BY <2>1, <3>3, <3>5
  <2> QED
    BY <2>1, <2>2, <2>4
<1>3. ASSUME Set PROVE Kept /\ \A g \in saved'.changed : Left(g)
  <2> DEFINE t == Head(saved.plan)
  <2>1. /\ t \in ToSet(saved.plan) /\ phase = "setting"
        /\ UNCHANGED <<power, phase, ghost>>
        /\ form'.orig = form.orig /\ form'.shown = form.shown /\ form'.power = form.power
        /\ saved'.shown = saved.shown /\ saved'.changed = saved.changed
        /\ UNCHANGED host \/ (t.do \in Groups /\ SetDone(t.do))
    BY <1>3, SetIs
  <2> HIDE DEF t
  <2>2. Alone /\ form.power # "Off" /\ Closing
    BY <2>1 DEF Alone, Closing
  <2>3. /\ \A f \in OffOnly : host[f] = form.orig[f] /\ form.shown[f] = Nearest(form.orig[f])
        /\ \A g \in saved.changed : Left(g)
    BY <2>1, <2>2 DEF OffInv
  <2>4. saved.changed \subseteq Groups
    BY DEF Typed, SavedTyped
  <2>5. t.do \in Groups => t.do \in saved.changed
    BY <2>1 DEF LeftInv
  <2>6. \A f \in OffOnly : host'[f] = host[f]
    BY <2>1, <2>2, <2>4, <2>5, OffKept
  <2> QED
    BY <2>1, <2>3, <2>6
<1>4. ~Opener
  BY DEF Opener, Alone
<1>5. ASSUME Calm, ~Open, ~Save, ~Set PROVE Kept /\ (Closing' => \A g \in saved'.changed : Left(g))
  <2>1. UNCHANGED <<saved, host>> /\ (Closing' => Closing) /\ Alone /\ form.power # "Off"
    BY <1>5 DEF Calm
  <2>2. /\ \A f \in OffOnly : host[f] = form.orig[f] /\ form.shown[f] = Nearest(form.orig[f])
        /\ Closing => \A g \in saved.changed :
                        /\ ~(Setters[g].writes \subseteq Setters[g].off)
                        /\ \A f \in Setters[g].off : saved.shown[f] = form.orig[f]
    BY <2>1 DEF OffInv
  <2>3. \A g \in saved.changed : Setters[g].off \subseteq OffOnly
    BY OffOnlyIs DEF Typed, SavedTyped
  <2>4. \A f \in OffOnly : form'.orig[f] = form.orig[f] /\ form'.shown[f] = form.shown[f]
    <3>1. form' = RebuiltForm => \A f \in OffOnly : form'.orig[f] = form.orig[f] /\ form'.shown[f] = form.shown[f]
      BY <1>0, RebuiltFormIs
    <3>2. ASSUME NEW x \in Edited, Change(x)
          PROVE  \A f \in OffOnly : form'.orig[f] = form.orig[f] /\ form'.shown[f] = form.shown[f]
      <4>1. PICK v \in Positions(x) \ {form.shown[x]} :
               form'.orig = form.orig /\ form'.shown = With(form.shown, Switched(x, v))
        BY <3>2, ChangeIs
      <4>2. x \notin OffOnly
        BY <2>1, <3>2 DEF Change, ApplyStateGating, SeenOff
      <4>3. DOMAIN Switched(x, v) = {x}
        BY <4>2, OffOnlyIs DEF Switched
      <4>4. DOMAIN form.shown = Fields
        BY DEF Typed, FormTyped, Texture
      <4> QED
        BY <1>0, <4>1, <4>2, <4>3, <4>4 DEF With
    <3> QED
      BY <1>4, <1>5, <3>1, <3>2, CalmForm
  <2>5. Kept
    BY <2>1, <2>2, <2>4
  <2>6. Closing' => \A g \in saved'.changed : Left(g)
    BY <2>1, <2>2, <2>3, <2>4
  <2> QED
    BY <2>5, <2>6
<1> QED
  BY <1>1, <1>2, <1>3, <1>4, <1>5, StepsOfSave

LEMMA AppliedStep ==
  Typed /\ LeftInv /\ OffInv /\ ShieldInv /\ AppliedInv /\ [Next]_vars => AppliedInv'
<1> SUFFICES ASSUME Typed, LeftInv, OffInv, ShieldInv, AppliedInv, [Next]_vars,
                    Closing', Alone', ~saved'.errors, NEW g \in saved'.changed
             PROVE  Task(g, Here) \in ToSet(saved'.plan) \/ Applied(g)'
  BY DEF AppliedInv
<1>1. ~Open /\ ~Opener
  BY DEF Open, Opener, Closing
<1>2. ASSUME Save PROVE Task(g, Here) \in ToSet(saved'.plan)
  <2>1. saved'.changed = Changes /\ ToSet(saved'.plan) = PlanTasks(Changes)
    BY <1>2, SaveIs
  <2> QED
    BY <2>1 DEF PlanTasks
<1>3. ASSUME Set PROVE Task(g, Here) \in ToSet(saved'.plan) \/ Applied(g)'
  <2> DEFINE t == Head(saved.plan)
  <2>1. /\ t \in ToSet(saved.plan) /\ t \in Tasks /\ ToSet(saved.plan) = {t} \cup ToSet(saved'.plan)
        /\ phase = "setting" /\ UNCHANGED <<power, phase, ghost>>
        /\ form'.power = form.power
        /\ saved'.shown = saved.shown /\ saved'.changed = saved.changed
        /\ \/ t.do \in Groups /\ SetDone(t.do) /\ saved'.errors = saved.errors
           \/ t.do \in Groups /\ SetIgnored(t.do) /\ saved'.errors = saved.errors /\ UNCHANGED <<host, disks, budget>>
           \/ DeviceDone(t) /\ t.do \in DeviceTasks /\ saved'.errors = saved.errors /\ UNCHANGED <<host, budget>>
    BY <1>3, SetIs
  <2> HIDE DEF t
  <2>2. Alone /\ Closing /\ ~saved.errors
    BY <2>1 DEF Alone, Closing
  <2>3. saved.changed \subseteq Groups /\ g \in saved.changed
    BY <2>1 DEF Typed, SavedTyped
  <2>4. t.do \in Groups => t.do \in saved.changed
    BY <2>1 DEF LeftInv
  <2>5. Given(g)' = Given(g)
    BY <2>1, GivenSame
  <2>6. Task(g, Here) \in ToSet(saved.plan) \/ Applied(g)
    BY <2>2, <2>3 DEF AppliedInv
  <2>7. ~(t.do \in Groups /\ SetIgnored(t.do))
    BY <2>2, <2>3, <2>4, NotLocked DEF SetIgnored
  <2>8. ASSUME t.do \in Groups, SetDone(t.do), Applied(g) \/ t.do = g PROVE Applied(g)'
    <3>1. ASSUME NEW f \in DOMAIN Given(g) PROVE host'[f] = Given(g)[f]
      <4>1. f \in Fields
        BY <2>3, GivenFields
      <4>2. host'[f] = IF f \in DOMAIN Given(t.do) THEN Given(t.do)[f] ELSE host[f]
        BY <2>8, <4>1, HostChanges
      <4>3. f \in DOMAIN Given(t.do) => Given(t.do)[f] = Given(g)[f]
        BY <2>2, <2>3, <2>4, <2>8, GivenAgrees
      <4>4. f \notin DOMAIN Given(t.do) => host[f] = Given(g)[f]
        BY <2>8 DEF Applied
      <4> QED
        BY <4>2, <4>3, <4>4
    <3> QED
      BY <2>5, <3>1 DEF Applied
  <2>9. ASSUME UNCHANGED host, Applied(g) PROVE Applied(g)'
    BY <2>5, <2>9 DEF Applied
  <2>10. Task(g, Here) \in ToSet(saved.plan) => t.do = g \/ Task(g, Here) \in ToSet(saved'.plan)
    BY <2>1 DEF Task
  <2>11. t.do = g => ~DeviceDone(t) \/ t.do \notin DeviceTasks
    BY <2>3, GroupsAreSetters, SetterNames DEF DeviceTasks, Kinds
  <2> QED
    BY <2>1, <2>6, <2>7, <2>8, <2>9, <2>10, <2>11
<1>4. ASSUME Calm PROVE Task(g, Here) \in ToSet(saved'.plan) \/ Applied(g)'
  <2>1. UNCHANGED <<saved, host>> /\ Closing /\ Alone
    BY <1>4 DEF Calm
  <2>2. Given(g)' = Given(g)
    BY <2>1, GivenSame
  <2> QED
    BY <2>1, <2>2 DEF AppliedInv, Applied
<1> QED
  BY <1>1, <1>2, <1>3, <1>4, StepsOfSave

----------------------------------------------------------------------------
(* The order of a plan, and how many tasks of a kind there are in it.       *)

LEMMA CountIs ==
  ASSUME NEW s \in Seq(Tasks), NEW do
  PROVE  /\ IsFiniteSet({i \in DOMAIN s : s[i].do = do}) /\ Count(s, do) \in Nat
         /\ (\A t \in ToSet(s) : t.do # do) => Count(s, do) = 0
         /\ (\A t \in ToSet(s) : t.do = do) => Count(s, do) = Len(s)
<1> DEFINE S == {i \in DOMAIN s : s[i].do = do}
<1>1. DOMAIN s = 1 .. Len(s) /\ Len(s) \in Nat /\ \A i \in DOMAIN s : s[i] \in ToSet(s)
  BY LenProperties DEF ToSet
<1>2. IsFiniteSet(1 .. Len(s)) /\ Cardinality(1 .. Len(s)) = Len(s)
  BY <1>1, FS_Interval
<1>3. S \subseteq 1 .. Len(s)
  BY <1>1
<1>4. (\A t \in ToSet(s) : t.do # do) => S = {}
  BY <1>1
<1>5. (\A t \in ToSet(s) : t.do = do) => S = 1 .. Len(s)
  BY <1>1
<1>6. Count(s, do) = Cardinality(S)
  BY DEF Count
<1> HIDE DEF S
<1>7. IsFiniteSet(S)
  BY <1>2, <1>3, FS_Subset
<1> QED
  BY <1>2, <1>4, <1>5, <1>6, <1>7, FS_CardinalityType, FS_EmptySet DEF S

\* As many numbers, each moved by n.
LEMMA Shifted ==
  ASSUME NEW S \in SUBSET Int, IsFiniteSet(S), NEW n \in Int
  PROVE  IsFiniteSet({i + n : i \in S}) /\ Cardinality({i + n : i \in S}) = Cardinality(S)
<1> DEFINE T == {i + n : i \in S}
           f == [i \in S |-> i + n]
<1>1. f \in [S -> T] /\ \A i \in S : f[i] = i + n
  OBVIOUS
<1>2. ASSUME NEW i \in S, NEW j \in S, i + n = j + n PROVE i = j
  <2>1. i \in Int /\ j \in Int
    OBVIOUS
  <2> HIDE DEF f, T
  <2> QED
    BY <1>2, <2>1
<1>3. \A t \in T : \E i \in S : t = i + n
  OBVIOUS
<1> HIDE DEF f, T
<1>4. f \in Injection(S, T)
  <2>1. \A i, j \in S : f[i] = f[j] => i = j
    BY <1>1, <1>2
  <2> QED
    BY <1>1, <2>1 DEF Injection, IsInjective
<1>5. f \in Surjection(S, T)
  BY <1>1, <1>3 DEF Surjection
<1>6. ExistsBijection(S, T)
  BY <1>4, <1>5 DEF ExistsBijection, Bijection
<1> QED
  BY <1>6, FS_Bijection DEF T

LEMMA CountCat ==
  ASSUME NEW a \in Seq(Tasks), NEW b \in Seq(Tasks), NEW do
  PROVE  Count(a \o b, do) = Count(a, do) + Count(b, do)
<1> DEFINE A == {i \in DOMAIN a : a[i].do = do}
           B == {i \in DOMAIN b : b[i].do = do}
           C == {i \in DOMAIN (a \o b) : (a \o b)[i].do = do}
           n == Len(a)
           T == {i + n : i \in B}
<1>1. /\ DOMAIN a = 1 .. Len(a) /\ Len(a) \in Nat /\ DOMAIN b = 1 .. Len(b) /\ Len(b) \in Nat
      /\ DOMAIN (a \o b) = 1 .. Len(a) + Len(b)
      /\ \A i \in 1 .. Len(a) + Len(b) : (a \o b)[i] = IF i <= Len(a) THEN a[i] ELSE b[i - Len(a)]
  BY LenProperties, ConcatProperties
<1>2. A \subseteq 1 .. n /\ B \subseteq 1 .. Len(b)
  BY <1>1
<1>3. C \subseteq A \cup T
  <2> SUFFICES ASSUME NEW i \in C PROVE i \in A \cup T
    OBVIOUS
  <2>1. i \in 1 .. Len(a) + Len(b) /\ (a \o b)[i].do = do
    BY <1>1
  <2>2. CASE i <= n
    BY <1>1, <2>1, <2>2
  <2>3. CASE ~(i <= n)
    <3>1. i - n \in B /\ (i - n) + n = i
      BY <1>1, <2>1, <2>3
    <3> QED
      BY <3>1
  <2> QED
    BY <2>2, <2>3
<1>4. A \subseteq C
  BY <1>1
<1>5. T \subseteq C
  <2> SUFFICES ASSUME NEW i \in B PROVE i + n \in C
    OBVIOUS
  <2>1. i \in 1 .. Len(b) /\ b[i].do = do
    BY <1>1
  <2>2. i + n \in 1 .. Len(a) + Len(b) /\ ~(i + n <= Len(a)) /\ (i + n) - Len(a) = i
    BY <1>1, <2>1
  <2>3. (a \o b)[i + n] = b[i]
    BY <1>1, <2>2
  <2> QED
    BY <1>1, <2>1, <2>2, <2>3
<1>6. C = A \cup T
  BY <1>3, <1>4, <1>5
<1>7. A \cap T = {}
  BY <1>1, <1>2
<1>8. IsFiniteSet(A) /\ IsFiniteSet(B)
  BY CountIs
<1>9. B \in SUBSET Int /\ n \in Int
  BY <1>1, <1>2
<1>10. /\ Count(a, do) = Cardinality(A) /\ Count(b, do) = Cardinality(B)
       /\ Count(a \o b, do) = Cardinality(C)
  BY DEF Count
<1> HIDE DEF A, B, C, n
<1>11. IsFiniteSet(T) /\ Cardinality(T) = Cardinality(B)
  BY <1>8, <1>9, Shifted
<1> HIDE DEF T
<1>12. Cardinality(A \cup T) = Cardinality(A) + Cardinality(T) - Cardinality(A \cap T)
  BY <1>8, <1>11, FS_Union
<1>13. Cardinality(A \cap T) = 0 /\ Cardinality(A) \in Nat /\ Cardinality(T) \in Nat
  BY <1>7, <1>8, <1>11, FS_EmptySet, FS_CardinalityType
<1> QED
  BY <1>6, <1>10, <1>11, <1>12, <1>13

LEMMA CountTail ==
  ASSUME NEW s \in Seq(Tasks), s # <<>>, NEW do
  PROVE  Count(s, do) = Count(Tail(s), do) + (IF Head(s).do = do THEN 1 ELSE 0)
<1> DEFINE first == <<Head(s)>>
<1>1. Head(s) \in Tasks /\ Tail(s) \in Seq(Tasks)
  BY HeadTailProperties
<1>2. first \in Seq(Tasks) /\ Len(first) = 1 /\ ToSet(first) = {Head(s)}
  BY <1>1 DEF ToSet
<1>3. s = first \o Tail(s)
  BY <1>1
<1> HIDE DEF first
<1>4. Count(s, do) = Count(first, do) + Count(Tail(s), do)
  BY ZenonT(60), <1>1, <1>2, <1>3, CountCat
<1>5. Count(first, do) = IF Head(s).do = do THEN 1 ELSE 0
  BY <1>2, CountIs
<1>6. Count(Tail(s), do) \in Nat
  BY <1>1, CountIs
<1> QED
  BY <1>4, <1>5, <1>6

LEMMA DevicesAre == \A do : Device(do) \in {"dvd", "disk", "raw"}
BY DEF Device

\* An order stays when what follows removes no device of a kind attached before.
LEMMA InOrderCat ==
  ASSUME NEW a \in Seq(Tasks), NEW b \in Seq(Tasks), InOrder(a), InOrder(b),
         \A q \in ToSet(a), t \in ToSet(b) : q.do \in Kinds => Device(q.do) \notin Removes(t.do)
  PROVE  InOrder(a \o b)
<1>1. /\ DOMAIN a = 1 .. Len(a) /\ Len(a) \in Nat /\ DOMAIN b = 1 .. Len(b) /\ Len(b) \in Nat
      /\ DOMAIN (a \o b) = 1 .. Len(a) + Len(b)
      /\ \A i \in 1 .. Len(a) + Len(b) : (a \o b)[i] = IF i <= Len(a) THEN a[i] ELSE b[i - Len(a)]
  BY LenProperties, ConcatProperties
<1> DEFINE c == a \o b
<1> SUFFICES ASSUME NEW i \in 1 .. Len(a) + Len(b), NEW j \in 1 .. Len(a) + Len(b), i < j, c[i].do \in Kinds
             PROVE  Device(c[i].do) \notin Removes(c[j].do)
  BY <1>1 DEF InOrder
<1>2. CASE j <= Len(a)
  <2>1. i \in DOMAIN a /\ j \in DOMAIN a /\ c[i] = a[i] /\ c[j] = a[j]
    BY <1>1, <1>2
  <2> QED
    BY <2>1 DEF InOrder
<1>3. CASE i <= Len(a) /\ ~(j <= Len(a))
  <2>1. i \in DOMAIN a /\ j - Len(a) \in DOMAIN b /\ c[i] = a[i] /\ c[j] = b[j - Len(a)]
    BY <1>1, <1>3
  <2>2. a[i] \in ToSet(a) /\ b[j - Len(a)] \in ToSet(b)
    BY <2>1 DEF ToSet
  <2> QED
    BY <2>1, <2>2
<1>4. CASE ~(i <= Len(a))
  <2>1. /\ i - Len(a) \in DOMAIN b /\ j - Len(a) \in DOMAIN b /\ i - Len(a) < j - Len(a)
        /\ c[i] = b[i - Len(a)] /\ c[j] = b[j - Len(a)]
    BY <1>1, <1>4
  <2> QED
    BY <2>1 DEF InOrder
<1> QED
  BY <1>1, <1>2, <1>3, <1>4

\* Only removals, or none.
LEMMA InOrderAlone ==
  ASSUME NEW s \in Seq(Tasks),
         (\A t \in ToSet(s) : t.do \notin Kinds) \/ (\A t \in ToSet(s) : Removes(t.do) = {})
  PROVE  InOrder(s)
<1>1. \A i \in DOMAIN s : s[i] \in ToSet(s)
  BY DEF ToSet
<1> QED
  BY <1>1, DevicesAre DEF InOrder

LEMMA InOrderTail ==
  ASSUME NEW s \in Seq(Tasks), s # <<>>, InOrder(s)
  PROVE  /\ InOrder(Tail(s))
         /\ Head(s).do \in Kinds => \A t \in ToSet(Tail(s)) : Device(Head(s).do) \notin Removes(t.do)
<1>1. DOMAIN s = 1 .. Len(s) /\ Len(s) \in Nat /\ Len(s) >= 1
  BY LenProperties, EmptySeq
<1>2. /\ Head(s) = s[1] /\ Tail(s) \in Seq(Tasks) /\ Len(Tail(s)) = Len(s) - 1
      /\ \A i \in 1 .. Len(Tail(s)) : Tail(s)[i] = s[i + 1]
  BY HeadTailProperties
<1>3. DOMAIN Tail(s) = 1 .. Len(s) - 1
  BY <1>2, LenProperties
<1>4. \A i \in DOMAIN Tail(s) : i + 1 \in DOMAIN s /\ Tail(s)[i] = s[i + 1] /\ 1 < i + 1
  BY <1>1, <1>2, <1>3
<1>5. \A i, j \in DOMAIN Tail(s) : i < j => i + 1 < j + 1
  BY <1>3
<1>6. 1 \in DOMAIN s
  BY <1>1
<1> QED
  BY <1>2, <1>4, <1>5, <1>6 DEF InOrder, ToSet

\* A stretch of a plan: in order, with so many adapters to add and to remove.
Counted(s, adds, removes) ==
  /\ s \in Seq(Tasks) /\ InOrder(s)
  /\ Count(s, "nicAdd") = adds /\ Count(s, "nicRemove") = removes

\* A part without adapters, that removes nothing of a kind attached before it.
Harmless(a, b) ==
  /\ b \in Seq(Tasks) /\ InOrder(b)
  /\ \A t \in ToSet(b) : t.do \notin {"nicAdd", "nicRemove"}
  /\ \A q \in ToSet(a), t \in ToSet(b) : q.do \in Kinds => Device(q.do) \notin Removes(t.do)

LEMMA CatCounted ==
  ASSUME NEW a, NEW b, NEW m \in Nat, NEW n \in Nat, Counted(a, m, n), Harmless(a, b)
  PROVE  Counted(a \o b, m, n)
<1>1. a \in Seq(Tasks) /\ b \in Seq(Tasks) /\ a \o b \in Seq(Tasks)
  BY CatIs DEF Counted, Harmless
<1>2. InOrder(a \o b)
  BY <1>1, InOrderCat DEF Counted, Harmless
<1>3. /\ Count(a \o b, "nicAdd") = Count(a, "nicAdd") + Count(b, "nicAdd")
      /\ Count(a \o b, "nicRemove") = Count(a, "nicRemove") + Count(b, "nicRemove")
  BY <1>1, CountCat
<1>4. Count(b, "nicAdd") = 0 /\ Count(b, "nicRemove") = 0
  BY <1>1, CountIs DEF Harmless
<1> QED
  BY <1>1, <1>2, <1>3, <1>4 DEF Counted

LEMMA RemovesIs ==
  \A do : Removes(do) = IF do = "dvdRemove" THEN {"dvd"} ELSE IF do = "detach" THEN {"disk", "raw"} ELSE {}
BY DEF Removes

\* The plan of a Save removes nothing it attached before, and adds and removes
\* as many adapters as the form says.
LEMMA PlanCounted ==
  ASSUME RowsTyped(rows), NEW changes, changes \subseteq Groups
  PROVE  Counted(SavePlan(changes), rows.nicAdds, IF rows.nicRemove THEN 1 ELSE 0)
<1> DEFINE a1 == SetTasks(GeneralOrder, changes)
           a2 == MarkedTasks({"dvd"}, "dvdRemove")
           a3 == QueuedTasks("dvdAdd")
           a4 == MarkedTasks({"disk", "raw"}, "detach")
           a5 == QueuedTasks("attach")
           a6 == QueuedTasks("create")
           a7 == SetTasks(<<"qos">>, changes)
           a8 == QueuedTasks("physical")
           a9 == SetTasks(AdapterOrder, changes)
           a10 == NicRemovals
           a11 == NicAdditions
           a12 == SetTasks(<<"rdp">>, changes)
           adds == rows.nicAdds
           removes == IF rows.nicRemove THEN 1 ELSE 0
<1>1. SavePlan(changes) = a1 \o a2 \o a3 \o a4 \o a5 \o a6 \o a7 \o a8 \o a9 \o a10 \o a11 \o a12
  BY PlanParts
<1>2. ASSUME NEW order \in {GeneralOrder, <<"qos">>, AdapterOrder, <<"rdp">>}
      PROVE  /\ SetTasks(order, changes) \in Seq(Tasks)
             /\ \A t \in ToSet(SetTasks(order, changes)) : t.do \in Groups
  <2>1. order \in Seq(DOMAIN Setters)
    BY OrdersIs
  <2>2. \A t \in ToSet(SetTasks(order, changes)) : \E g \in changes : t = Task(g, Here)
    BY <2>1, SetTasksIs
  <2> QED
    BY <2>1, <2>2, SetTasksIs DEF Task
<1>3. rows.queue \in Queues
  BY DEF RowsTyped
<1>4. ASSUME NEW kind
      PROVE  /\ QueuedTasks(kind) \in Seq(Tasks)
             /\ \A t \in ToSet(QueuedTasks(kind)) : t.do = kind
  BY <1>3, QueuedTasksIs
<1>5. ASSUME NEW kind, NEW do \in {"dvdRemove", "detach"}
      PROVE  MarkedTasks(kind, do) \in Seq(Tasks) /\ \A t \in ToSet(MarkedTasks(kind, do)) : t.do = do
  BY MarkedTasksIs DEF Task
<1>6. /\ a10 \in Seq(Tasks) /\ ToSet(a10) = (IF rows.nicRemove THEN {Task("nicRemove", Here)} ELSE {})
      /\ a11 \in Seq(Tasks) /\ ToSet(a11) = (IF rows.nicAdds > 0 THEN {Task("nicAdd", Here)} ELSE {})
  BY NicTasksIs
<1>7. adds \in Nat /\ removes \in Nat /\ Len(a10) = removes /\ Len(a11) = adds
  <2>1. rows.nicAdds \in Nat
    BY DEF RowsTyped
  <2>2. Len(a10) = removes
    BY DEF NicRemovals
  <2>3. DOMAIN a11 = 1 .. adds
    BY DEF NicAdditions
  <2>4. Len(a11) = adds
    BY <1>6, <2>1, <2>3, LenProperties
  <2> QED
    BY <2>1, <2>2, <2>4
<1>8. \A g \in Groups : g \notin DeviceTasks
  BY GroupsAreSetters, SetterNames DEF DeviceTasks, Kinds
<1> HIDE DEF a1, a2, a3, a4, a5, a6, a7, a8, a9, a10, a11, a12, adds, removes
<1>9. /\ \A t \in ToSet(a1) : t.do \in Groups
      /\ \A t \in ToSet(a7) : t.do \in Groups
      /\ \A t \in ToSet(a9) : t.do \in Groups
      /\ \A t \in ToSet(a12) : t.do \in Groups
      /\ a1 \in Seq(Tasks) /\ a7 \in Seq(Tasks) /\ a9 \in Seq(Tasks) /\ a12 \in Seq(Tasks)
  BY <1>2 DEF a1, a7, a9, a12
<1>10. /\ \A t \in ToSet(a3) : t.do = "dvdAdd"
       /\ \A t \in ToSet(a5) : t.do = "attach"
       /\ \A t \in ToSet(a6) : t.do = "create"
       /\ \A t \in ToSet(a8) : t.do = "physical"
       /\ a3 \in Seq(Tasks) /\ a5 \in Seq(Tasks) /\ a6 \in Seq(Tasks) /\ a8 \in Seq(Tasks)
  BY <1>4 DEF a3, a5, a6, a8
<1>11. /\ \A t \in ToSet(a2) : t.do = "dvdRemove"
       /\ \A t \in ToSet(a4) : t.do = "detach"
       /\ a2 \in Seq(Tasks) /\ a4 \in Seq(Tasks)
  BY <1>5 DEF a2, a4
<1>12. /\ \A t \in ToSet(a10) : t.do = "nicRemove"
       /\ \A t \in ToSet(a11) : t.do = "nicAdd"
  BY <1>6 DEF Task
\* A part that removes nothing.
<1>13. ASSUME NEW a, NEW b \in Seq(Tasks), \A t \in ToSet(b) : Removes(t.do) = {}
       PROVE  /\ InOrder(b)
              /\ \A q \in ToSet(a), t \in ToSet(b) : q.do \in Kinds => Device(q.do) \notin Removes(t.do)
  BY <1>13, InOrderAlone, DevicesAre
<1>14. ASSUME NEW g \in Groups
       PROVE  g \notin Kinds /\ g \notin {"nicAdd", "nicRemove"} /\ Removes(g) = {}
  BY <1>8, RemovesIs DEF DeviceTasks
<1>15. /\ \A do \in Kinds : Removes(do) = {} /\ do \notin {"nicAdd", "nicRemove"}
       /\ Removes("nicAdd") = {} /\ Removes("nicRemove") = {}
  BY RemovesIs DEF Kinds
<1>16. ASSUME NEW a, NEW b \in {a5, a6, a7, a8, a9, a12} PROVE Harmless(a, b)
  <2>1. \A t \in ToSet(b) : t.do \in Groups \cup Kinds
    BY <1>9, <1>10 DEF Kinds
  <2>2. b \in Seq(Tasks)
    BY <1>9, <1>10
  <2>3. \A t \in ToSet(b) : Removes(t.do) = {} /\ t.do \notin {"nicAdd", "nicRemove"}
    BY <1>14, <1>15, <2>1
  <2> QED
    BY <1>13, <2>2, <2>3 DEF Harmless
<1> DEFINE b2 == a1 \o a2
           b3 == b2 \o a3
           b4 == b3 \o a4
           b5 == b4 \o a5
           b6 == b5 \o a6
           b7 == b6 \o a7
           b8 == b7 \o a8
           b9 == b8 \o a9
           b10 == b9 \o a10
           b11 == b10 \o a11
           b12 == b11 \o a12
<1>20. SavePlan(changes) = b12
  BY <1>1 DEF a1, a2, a3, a4, a5, a6, a7, a8, a9, a10, a11, a12
<1>21. Counted(a1, 0, 0) /\ \A t \in ToSet(a1) : t.do \notin Kinds
  <2>1. InOrder(a1)
    BY <1>9, <1>14, InOrderAlone
  <2>2. Count(a1, "nicAdd") = 0 /\ Count(a1, "nicRemove") = 0
    BY <1>9, <1>14, CountIs
  <2> QED
    BY <1>9, <1>14, <2>1, <2>2 DEF Counted
<1>22. Counted(b2, 0, 0) /\ \A t \in ToSet(b2) : t.do \notin Kinds
  <2>1. \A t \in ToSet(a2) : t.do \notin Kinds /\ t.do \notin {"nicAdd", "nicRemove"}
    BY <1>11 DEF Kinds
  <2>2. Harmless(a1, a2)
    BY <1>11, <1>21, <2>1, InOrderAlone DEF Harmless
  <2>3. ToSet(b2) = ToSet(a1) \cup ToSet(a2)
    BY <1>9, <1>11, CatIs
  <2> QED
    BY <1>21, <2>1, <2>2, <2>3, CatCounted
<1> HIDE DEF b2
<1>23. Counted(b3, 0, 0) /\ \A t \in ToSet(b3) : t.do \in Kinds => t.do = "dvdAdd"
  <2>1. \A t \in ToSet(a3) : Removes(t.do) = {} /\ t.do \notin {"nicAdd", "nicRemove"}
    BY <1>10, RemovesIs
  <2>2. Harmless(b2, a3)
    BY <1>10, <1>13, <2>1 DEF Harmless
  <2>3. ToSet(b3) = ToSet(b2) \cup ToSet(a3)
    BY <1>10, <1>22, CatIs DEF Counted
  <2> QED
    BY <1>10, <1>22, <2>2, <2>3, CatCounted
<1> HIDE DEF b3
<1>24. Counted(b4, 0, 0)
  <2>1. \A t \in ToSet(a4) : Removes(t.do) = {"disk", "raw"} /\ t.do \notin Kinds /\ t.do \notin {"nicAdd", "nicRemove"}
    BY <1>11, RemovesIs DEF Kinds
  <2>2. Device("dvdAdd") = "dvd"
    BY DEF Device
  <2>3. Harmless(b3, a4)
    BY <1>11, <1>23, <2>1, <2>2, InOrderAlone DEF Harmless
  <2> QED
    BY <1>23, <2>3, CatCounted
<1> HIDE DEF b4
<1>25. Counted(b5, 0, 0)
  BY <1>16, <1>24, CatCounted
<1> HIDE DEF b5
<1>26. Counted(b6, 0, 0)
  BY <1>16, <1>25, CatCounted
<1> HIDE DEF b6
<1>27. Counted(b7, 0, 0)
  BY <1>16, <1>26, CatCounted
<1> HIDE DEF b7
<1>28. Counted(b8, 0, 0)
  BY <1>16, <1>27, CatCounted
<1> HIDE DEF b8
<1>29. Counted(b9, 0, 0)
  BY <1>16, <1>28, CatCounted
<1> HIDE DEF b9
<1>30. Counted(b10, 0, removes)
  <2>1. b9 \in Seq(Tasks) /\ a10 \in Seq(Tasks) /\ b10 \in Seq(Tasks)
    BY <1>6, <1>29, CatIs DEF Counted
  <2>2. InOrder(b10)
    BY <1>12, <1>13, <1>15, <1>29, <2>1, InOrderCat DEF Counted
  <2>3. Count(a10, "nicAdd") = 0 /\ Count(a10, "nicRemove") = removes
    BY <1>7, <1>12, <2>1, CountIs
  <2>4. /\ Count(b10, "nicAdd") = Count(b9, "nicAdd") + Count(a10, "nicAdd")
        /\ Count(b10, "nicRemove") = Count(b9, "nicRemove") + Count(a10, "nicRemove")
    BY <2>1, CountCat
  <2> QED
    BY <1>7, <1>29, <2>1, <2>2, <2>3, <2>4 DEF Counted
<1> HIDE DEF b10
<1>31. Counted(b11, adds, removes)
  <2>1. b10 \in Seq(Tasks) /\ a11 \in Seq(Tasks) /\ b11 \in Seq(Tasks)
    BY <1>6, <1>30, CatIs DEF Counted
  <2>2. InOrder(b11)
    BY <1>12, <1>13, <1>15, <1>30, <2>1, InOrderCat DEF Counted
  <2>3. Count(a11, "nicAdd") = adds /\ Count(a11, "nicRemove") = 0
    BY <1>7, <1>12, <2>1, CountIs
  <2>4. /\ Count(b11, "nicAdd") = Count(b10, "nicAdd") + Count(a11, "nicAdd")
        /\ Count(b11, "nicRemove") = Count(b10, "nicRemove") + Count(a11, "nicRemove")
    BY <2>1, CountCat
  <2> QED
    BY <1>7, <1>30, <2>1, <2>2, <2>3, <2>4 DEF Counted
<1> HIDE DEF b11
<1>32. Counted(b12, adds, removes)
  BY <1>7, <1>16, <1>31, CatCounted
<1> HIDE DEF b12
<1> QED
  BY <1>20, <1>32 DEF adds, removes

----------------------------------------------------------------------------
(* Devices: those queued come to their places, those marked go, adapters     *)
(* come and go once each.                                                   *)

LEMMA TargetIs ==
  ASSUME NEW at, NEW p \in ResolveStorageTarget(at)
  PROVE  p \in Places /\ disks.drives[p] = "none" /\ (at[2] >= 0 => p = at)
BY DEF ResolveStorageTarget, Empty

\* What a device task does to the drives and to the adapters.
LEMMA DrivesAfter ==
  ASSUME Typed, NEW t \in Tasks, t.do \in DeviceTasks, disks' \in DeviceResults(t)
  PROVE  /\ t.do \in Kinds => /\ disks'.nics = disks.nics
                              /\ \E p \in ResolveStorageTarget(t.at) :
                                   disks'.drives = [disks.drives EXCEPT ![p] = Device(t.do)]
         /\ t.do \in {"dvdRemove", "detach"} =>
              /\ disks'.nics = disks.nics /\ disks.drives[t.at] \in Removes(t.do)
              /\ disks'.drives = [disks.drives EXCEPT ![t.at] = "none"]
         /\ t.do = "nicAdd" => disks'.drives = disks.drives /\ disks'.nics = disks.nics + 1
         /\ t.do = "nicRemove" => disks'.drives = disks.drives /\ disks'.nics = disks.nics - 1
<1>0. {"nics", "drives"} \subseteq DOMAIN disks
  BY DEF Typed, DisksTyped
<1>1. \A do \in {"dvdRemove", "detach", "nicAdd", "nicRemove"} : do \notin Kinds
  BY DEF Kinds
<1>2. ASSUME t.do \in Kinds
      PROVE  /\ disks'.nics = disks.nics
             /\ \E p \in ResolveStorageTarget(t.at) : disks'.drives = [disks.drives EXCEPT ![p] = Device(t.do)]
  <2>1. PICK p \in ResolveStorageTarget(t.at) : disks' = [disks EXCEPT !.drives[p] = Device(t.do)]
    BY <1>2, ResultsIs
  <2> QED
    BY <1>0, <2>1
<1>3. ASSUME t.do \in {"dvdRemove", "detach"}
      PROVE  /\ disks'.nics = disks.nics /\ disks.drives[t.at] \in Removes(t.do)
             /\ disks'.drives = [disks.drives EXCEPT ![t.at] = "none"]
  <2>1. disks.drives[t.at] \in Removes(t.do) /\ disks' = [disks EXCEPT !.drives[t.at] = "none"]
    BY <1>1, <1>3, ResultsIs
  <2> QED
    BY <1>0, <2>1
<1>4. t.do = "nicAdd" => disks'.drives = disks.drives /\ disks'.nics = disks.nics + 1
  BY <1>0, <1>1, ResultsIs
<1>5. t.do = "nicRemove" => disks'.drives = disks.drives /\ disks'.nics = disks.nics - 1
  BY <1>0, <1>1, ResultsIs
<1> QED
  BY <1>2, <1>3, <1>4, <1>5

LEMMA QueueTasksAre ==
  ASSUME SavedTyped(saved), NEW i \in DOMAIN saved.queue
  PROVE  saved.queue[i].do \in Kinds /\ saved.queue[i].at \in AnyPlace /\ saved.queue[i] \in ToSet(saved.queue)
<1>1. saved.queue \in Seq([do : Kinds, at : AnyPlace])
  BY DEF SavedTyped, Queues
<1>2. saved.queue[i] \in [do : Kinds, at : AnyPlace]
  BY <1>1, LenProperties, ElementOfSeq
<1> QED
  BY <1>2 DEF ToSet

\* A place of a queued device is one of a drive.
LEMMA PlacedIs ==
  ASSUME NEW at \in AnyPlace, at[2] >= 0 PROVE at \in Places
<1>1. \A c : Unplaced(c)[2] = -1
  BY DEF Unplaced
<1> QED
  BY <1>1 DEF AnyPlace

\* A set, seen from a queued device.
LEMMA SettledStep ==
  ASSUME Typed, LeftInv, Set, ~saved'.errors, InOrder(saved.plan), NEW i \in DOMAIN saved.queue,
         saved.queue[i].at[2] >= 0, Settled(saved.queue[i])
  PROVE  Settled(saved.queue[i])'
<1> DEFINE t == Head(saved.plan)
           q == saved.queue[i]
<1>1. /\ t \in ToSet(saved.plan) /\ t \in Tasks /\ ToSet(saved.plan) = {t} \cup ToSet(saved'.plan)
      /\ saved.plan # <<>> /\ saved'.plan = Tail(saved.plan) /\ saved'.queue = saved.queue
      /\ \/ t.do \in Groups /\ SetDone(t.do)
         \/ t.do \in Groups /\ UNCHANGED disks
         \/ DeviceDone(t) /\ t.do \in DeviceTasks
  BY SetIs
<1>2. q.do \in Kinds /\ q.at \in Places
  BY QueueTasksAre, PlacedIs DEF Typed
<1>3. saved.plan \in Seq(Tasks)
  BY DEF Typed, SavedTyped
<1>4. q = t => \A u \in ToSet(saved'.plan) : Device(q.do) \notin Removes(u.do)
  BY <1>1, <1>2, <1>3, InOrderTail
<1>5. \A u \in ToSet(saved'.plan) : u \in ToSet(saved.plan)
  BY <1>1
<1>6. Settled(q)
  OBVIOUS
<1>7. q.at[2] >= 0
  OBVIOUS
<1> HIDE DEF t, q
<1>8. disks.drives \in [Places -> DriveKinds]
  BY DEF Typed, DisksTyped
<1> DEFINE After == \/ q \in ToSet(saved'.plan)
                    \/ /\ disks'.drives[q.at] = Device(q.do)
                       /\ \A u \in ToSet(saved'.plan) : Device(q.do) \notin Removes(u.do)
<1> HIDE DEF After
<1>0. \A g \in Groups : g \notin DeviceTasks /\ g \notin Kinds
  BY GroupsAreSetters, SetterNames DEF DeviceTasks, Kinds
<1>9. ASSUME disks'.drives = disks.drives, t.do \notin Kinds PROVE After
  BY <1>1, <1>2, <1>5, <1>6, <1>9 DEF Settled, After
<1>10. ASSUME t.do \in Groups PROVE After
  <2>1. UNCHANGED disks
    BY <1>0, <1>1, <1>10 DEF SetDone
  <2>2. t.do \notin Kinds
    BY <1>0, <1>10
  <2> QED
    BY <1>9, <2>1, <2>2
<1>11. ASSUME t.do \notin Groups PROVE After
  <2>1. disks' \in DeviceResults(t) /\ t.do \in DeviceTasks
    BY <1>1, <1>11 DEF DeviceDone
  <2>2. CASE t.do \in Kinds
    <3>1. PICK p \in ResolveStorageTarget(t.at) : disks'.drives = [disks.drives EXCEPT ![p] = Device(t.do)]
      BY <1>1, <2>1, <2>2, DrivesAfter
    <3>2. p \in Places /\ disks.drives[p] = "none" /\ (t.at[2] >= 0 => p = t.at)
      BY TargetIs
    <3>3. CASE q = t
      <4>1. disks'.drives[q.at] = Device(q.do)
        BY <1>2, <1>7, <1>8, <3>1, <3>2, <3>3
      <4> QED
        BY <1>4, <3>3, <4>1 DEF After
    <3>4. CASE q # t /\ q \in ToSet(saved.plan)
      BY <1>1, <3>4 DEF After
    <3>5. CASE q # t /\ q \notin ToSet(saved.plan)
      <4>1. disks.drives[q.at] = Device(q.do) /\ q.at # p
        BY <1>6, <3>2, <3>5, DevicesAre DEF Settled
      <4>2. disks'.drives[q.at] = Device(q.do)
        BY <1>2, <1>8, <3>1, <4>1
      <4> QED
        BY <1>5, <1>6, <3>5, <4>2 DEF Settled, After
    <3> QED
      BY <3>3, <3>4, <3>5
  <2>3. CASE t.do \in {"dvdRemove", "detach"}
    <3>1. /\ disks.drives[t.at] \in Removes(t.do)
          /\ disks'.drives = [disks.drives EXCEPT ![t.at] = "none"]
      BY <1>1, <2>1, <2>3, DrivesAfter
    <3>2. q # t
      BY <1>2, <2>3 DEF Kinds
    <3>3. CASE q \in ToSet(saved.plan)
      BY <1>1, <3>2, <3>3 DEF After
    <3>4. CASE q \notin ToSet(saved.plan)
      <4>1. disks.drives[q.at] = Device(q.do) /\ Device(q.do) \notin Removes(t.do)
        BY <1>1, <1>6, <3>4 DEF Settled
      <4>2. disks'.drives[q.at] = Device(q.do)
        BY <1>2, <1>8, <3>1, <4>1
      <4> QED
        BY <1>5, <1>6, <3>4, <4>2 DEF Settled, After
    <3> QED
      BY <3>3, <3>4
  <2>4. CASE t.do \in {"nicAdd", "nicRemove"}
    BY <1>1, <1>9, <2>1, <2>4, DrivesAfter DEF Kinds
  <2> QED
    BY <2>1, <2>2, <2>3, <2>4 DEF DeviceTasks
<1>12. After
  BY <1>10, <1>11
<1> QED
  BY <1>1, <1>12 DEF Settled, After, q

\* A set, seen from a marked drive that no queued device was given the place of.
LEMMA GoneStep ==
  ASSUME Typed, LeftInv, Set, ~saved'.errors, AllPlaced, NEW p \in saved.marks \ QueuedAts, Gone(p)
  PROVE  Gone(p)'
<1> DEFINE t == Head(saved.plan)
<1>1. /\ t \in ToSet(saved.plan) /\ t \in Tasks /\ ToSet(saved.plan) = {t} \cup ToSet(saved'.plan)
      /\ \/ t.do \in Groups /\ SetDone(t.do)
         \/ t.do \in Groups /\ UNCHANGED disks
         \/ DeviceDone(t) /\ t.do \in DeviceTasks
  BY SetIs
<1>2. p \in Places /\ disks.drives \in [Places -> DriveKinds]
  BY DEF Typed, SavedTyped, DisksTyped
<1>3. Gone(p)
  OBVIOUS
<1>4. t.do \in Kinds => t \in ToSet(saved.queue)
  BY <1>1 DEF LeftInv
<1>5. p \notin QueuedAts
  OBVIOUS
<1> HIDE DEF t
<1> DEFINE After == \/ disks'.drives[p] = "none"
                    \/ \E do \in {"dvdRemove", "detach"} : Task(do, p) \in ToSet(saved'.plan)
<1> HIDE DEF After
<1>0. \A g \in Groups : g \notin DeviceTasks /\ g \notin Kinds /\ g \notin {"dvdRemove", "detach"}
  BY GroupsAreSetters, SetterNames DEF DeviceTasks, Kinds
<1>6. ASSUME t.do \notin {"dvdRemove", "detach"}, disks.drives[p] = "none" => disks'.drives[p] = "none" PROVE After
  <2>1. \A do \in {"dvdRemove", "detach"} : Task(do, p) # t
    BY <1>6 DEF Task
  <2> QED
    BY <1>1, <1>3, <1>6, <2>1 DEF Gone, After
<1>7. ASSUME t.do \in Groups PROVE After
  <2>1. UNCHANGED disks
    BY <1>0, <1>1, <1>7 DEF SetDone
  <2> QED
    BY <1>0, <1>6, <1>7, <2>1
<1>8. ASSUME t.do \notin Groups PROVE After
  <2>1. disks' \in DeviceResults(t) /\ t.do \in DeviceTasks
    BY <1>1, <1>8 DEF DeviceDone
  <2>2. CASE t.do \in Kinds
    <3>1. PICK x \in ResolveStorageTarget(t.at) : disks'.drives = [disks.drives EXCEPT ![x] = Device(t.do)]
      BY <1>1, <2>1, <2>2, DrivesAfter
    <3>2. t.at[2] >= 0 /\ t.at # p
      BY <1>4, <1>5, <2>2 DEF AllPlaced, QueuedAts, ToSet
    <3>3. x # p
      BY <3>2, TargetIs
    <3>4. disks'.drives[p] = disks.drives[p]
      BY <1>2, <3>1, <3>3
    <3>5. t.do \notin {"dvdRemove", "detach"}
      BY <2>2 DEF Kinds
    <3> QED
      BY <1>6, <3>4, <3>5
  <2>3. CASE t.do \in {"dvdRemove", "detach"}
    <3>1. disks'.drives = [disks.drives EXCEPT ![t.at] = "none"]
      BY <1>1, <2>1, <2>3, DrivesAfter
    <3>2. disks'.drives[p] = "none" \/ (disks'.drives[p] = disks.drives[p] /\ t.at # p)
      BY <1>2, <3>1
    <3>3. t.at # p => \A do \in {"dvdRemove", "detach"} : Task(do, p) # t
      BY DEF Task
    <3> QED
      BY <1>1, <1>3, <3>2, <3>3 DEF Gone, After
  <2>4. CASE t.do \in {"nicAdd", "nicRemove"}
    BY <1>1, <1>6, <2>1, <2>4, DrivesAfter
  <2> QED
    BY <2>1, <2>2, <2>3, <2>4 DEF DeviceTasks
<1>9. After
  BY <1>7, <1>8
<1> QED
  BY <1>9 DEF Gone, After

LEMMA DevicesStep == Typed /\ LeftInv /\ MarksInv /\ DevicesInv /\ [Next]_vars => DevicesInv'
<1> SUFFICES ASSUME Typed, LeftInv, MarksInv, DevicesInv, [Next]_vars, Closing', ~saved'.errors
             PROVE  /\ InOrder(saved'.plan)
                    /\ \A i \in DOMAIN saved'.queue : saved'.queue[i].at[2] >= 0 => Settled(saved.queue[i])'
                    /\ AllPlaced' => \A p \in saved'.marks \ QueuedAts' : Gone(p)'
  BY DEF DevicesInv
<1>1. ~Open /\ ~Opener
  BY DEF Open, Opener, Closing
<1>2. ASSUME Save
      PROVE  /\ InOrder(saved'.plan)
             /\ \A i \in DOMAIN saved'.queue : Settled(saved.queue[i])'
             /\ \A p \in saved'.marks : Gone(p)'
  <2>1. /\ saved'.plan = SavePlan(Changes) /\ ToSet(saved'.plan) = PlanTasks(Changes)
        /\ saved'.queue = rows.queue /\ saved'.marks = rows.marks /\ Changes \subseteq Groups
    BY <1>2, SaveIs
  <2>2. InOrder(saved'.plan)
    BY <2>1, PlanCounted DEF Typed, Counted
  <2>3. \A i \in DOMAIN rows.queue : rows.queue[i] \in ToSet(saved'.plan)
    BY <2>1 DEF PlanTasks, ToSet
  <2>4. ASSUME NEW p \in rows.marks PROVE \E do \in {"dvdRemove", "detach"} : Task(do, p) \in ToSet(saved'.plan)
    <3>1. rows.drives[p] \in {"dvd", "disk", "raw"}
      BY DEF MarksInv
    <3>2. rows.drives[p] = "dvd" => Task("dvdRemove", p) \in ToSet(saved'.plan)
      BY <2>1 DEF PlanTasks
    <3>3. rows.drives[p] \in {"disk", "raw"} => Task("detach", p) \in ToSet(saved'.plan)
      BY <2>1 DEF PlanTasks
    <3> QED
      BY <3>1, <3>2, <3>3
  <2> QED
    BY <2>1, <2>2, <2>3, <2>4 DEF Settled, Gone
<1>3. ASSUME Set
      PROVE  /\ InOrder(saved'.plan)
             /\ \A i \in DOMAIN saved'.queue : saved'.queue[i].at[2] >= 0 => Settled(saved.queue[i])'
             /\ AllPlaced' => \A p \in saved'.marks \ QueuedAts' : Gone(p)'
  <2>1. /\ saved.plan # <<>> /\ saved'.plan = Tail(saved.plan) /\ phase = "setting"
        /\ saved'.queue = saved.queue /\ saved'.marks = saved.marks
        /\ saved'.errors = saved.errors \/ saved'.errors = TRUE
    BY <1>3, SetIs
  <2>2. Closing /\ ~saved.errors /\ saved.plan \in Seq(Tasks)
    BY <2>1 DEF Closing, Typed, SavedTyped
  <2>3. /\ InOrder(saved.plan)
        /\ \A i \in DOMAIN saved.queue : saved.queue[i].at[2] >= 0 => Settled(saved.queue[i])
        /\ AllPlaced => \A p \in saved.marks \ QueuedAts : Gone(p)
    BY <2>2 DEF DevicesInv
  <2>4. InOrder(saved'.plan)
    BY <2>1, <2>2, <2>3, InOrderTail
  <2>5. \A i \in DOMAIN saved.queue : saved.queue[i].at[2] >= 0 => Settled(saved.queue[i])'
    BY <1>3, <2>3, SettledStep
  <2>6. AllPlaced' = AllPlaced /\ QueuedAts' = QueuedAts
    BY <2>1 DEF AllPlaced, QueuedAts
  <2>7. AllPlaced => \A p \in saved.marks \ QueuedAts : Gone(p)'
    BY <1>3, <2>3, GoneStep
  <2> QED
    BY <2>1, <2>4, <2>5, <2>6, <2>7
<1>4. ASSUME Calm
      PROVE  /\ InOrder(saved'.plan)
             /\ \A i \in DOMAIN saved'.queue : saved'.queue[i].at[2] >= 0 => Settled(saved.queue[i])'
             /\ AllPlaced' => \A p \in saved'.marks \ QueuedAts' : Gone(p)'
  <2>1. UNCHANGED saved /\ disks'.drives = disks.drives /\ Closing
    BY <1>4 DEF Calm
  <2> QED
    BY <2>1 DEF DevicesInv, Settled, Gone, AllPlaced, QueuedAts
<1> QED
  BY <1>1, <1>2, <1>3, <1>4, StepsOfSave

\* What one task adds or removes keeps the balance.
LEMMA NicBalance ==
  ASSUME NEW n \in Int, NEW m \in Int, NEW k \in Int, NEW a \in Int, NEW r \in Int,
         NEW x \in Int, NEW y \in Int, n + (a + x) = k + (r + y), m = n + x - y
  PROVE  m + a = k + r
OBVIOUS

LEMMA NicsStep == Typed /\ NicsInv /\ [Next]_vars => NicsInv'
<1> SUFFICES ASSUME Typed, NicsInv, [Next]_vars PROVE NicsInv'
  OBVIOUS
<1>1. ASSUME Open PROVE NicsInv'
  <2> DEFINE nics == disks.nics
  <2>1. ghost' = [NoGhost EXCEPT !.nics = nics, !.disturbed = behind] /\ phase' = "open" /\ UNCHANGED disks
    BY <1>1 DEF Open
  <2> HIDE DEF nics
  <2>2. ghost'.nics = nics
    BY <2>1 DEF NoGhost
  <2> QED
    BY <2>1, <2>2 DEF NicsInv, Closing, nics
<1>2. ASSUME Save PROVE NicsInv'
  <2>1. /\ saved'.plan = SavePlan(Changes) /\ phase = "open" /\ phase' \in {"saved", "saving"}
        /\ saved'.nics = ghost.nics + rows.nicAdds - (IF rows.nicRemove THEN 1 ELSE 0)
        /\ UNCHANGED <<disks, ghost>> /\ Changes \subseteq Groups
    BY <1>2, SaveIs
  <2>2. /\ Count(saved'.plan, "nicAdd") = rows.nicAdds
        /\ Count(saved'.plan, "nicRemove") = (IF rows.nicRemove THEN 1 ELSE 0)
    BY <2>1, PlanCounted DEF Typed, Counted
  <2>3. ghost.nics \in Nat /\ disks.nics \in Nat /\ rows.nicAdds \in Nat
    BY DEF Typed, DisksTyped, RowsTyped
  <2>4. ~ghost.retried => ghost.nics = disks.nics
    BY <2>1 DEF NicsInv
  <2> QED
    BY <2>1, <2>2, <2>3, <2>4 DEF NicsInv
<1>3. ASSUME Set PROVE NicsInv'
  <2> DEFINE t == Head(saved.plan)
  <2>1. /\ saved.plan # <<>> /\ saved'.plan = Tail(saved.plan) /\ phase = "setting" /\ t \in Tasks
        /\ UNCHANGED <<phase, ghost>> /\ saved'.nics = saved.nics
        /\ \/ t.do \in Groups /\ SetDone(t.do) /\ saved'.errors = saved.errors
           \/ t.do \in Groups /\ UNCHANGED disks /\ saved'.errors = saved.errors
           \/ DeviceDone(t) /\ t.do \in DeviceTasks /\ saved'.errors = saved.errors
           \/ saved'.errors = TRUE
    BY <1>3, SetIs
  <2> SUFFICES ASSUME ~saved'.errors, ~ghost.retried
               PROVE  disks'.nics + Count(saved'.plan, "nicAdd") = saved.nics + Count(saved'.plan, "nicRemove")
    BY <2>1 DEF NicsInv
  <2>2. disks.nics + Count(saved.plan, "nicAdd") = saved.nics + Count(saved.plan, "nicRemove")
    BY <2>1 DEF NicsInv, Closing
  <2>3. saved.plan \in Seq(Tasks) /\ saved'.plan \in Seq(Tasks) /\ saved.nics \in Int /\ disks.nics \in Nat
    BY <2>1, HeadTailProperties DEF Typed, SavedTyped, DisksTyped
  <2>4. /\ Count(saved.plan, "nicAdd") = Count(saved'.plan, "nicAdd") + (IF t.do = "nicAdd" THEN 1 ELSE 0)
        /\ Count(saved.plan, "nicRemove") = Count(saved'.plan, "nicRemove") + (IF t.do = "nicRemove" THEN 1 ELSE 0)
    BY <2>1, <2>3, CountTail
  <2>5. Count(saved'.plan, "nicAdd") \in Nat /\ Count(saved'.plan, "nicRemove") \in Nat
    BY <2>3, CountIs
  <2> HIDE DEF t
  <2>6. \A g \in Groups : g \notin DeviceTasks
    BY GroupsAreSetters, SetterNames DEF DeviceTasks, Kinds
  <2>7. disks'.nics = disks.nics + (IF t.do = "nicAdd" THEN 1 ELSE 0) - (IF t.do = "nicRemove" THEN 1 ELSE 0)
    <3>1. CASE t.do \in Groups
      <4>1. UNCHANGED disks /\ t.do \notin {"nicAdd", "nicRemove"}
        BY <2>1, <2>6, <3>1 DEF SetDone, DeviceTasks
      <4> QED
        BY <2>3, <4>1
    <3>2. CASE t.do \notin Groups
      <4>1. disks' \in DeviceResults(t) /\ t.do \in DeviceTasks
        BY <2>1, <3>2 DEF DeviceDone
      <4>2. \/ t.do \in Kinds \cup {"dvdRemove", "detach"} /\ disks'.nics = disks.nics
            \/ t.do = "nicAdd" /\ disks'.nics = disks.nics + 1
            \/ t.do = "nicRemove" /\ disks'.nics = disks.nics - 1
        BY <2>1, <4>1, DrivesAfter DEF DeviceTasks
      <4>3. "nicAdd" \notin Kinds /\ "nicRemove" \notin Kinds
        BY DEF Kinds
      <4> QED
        BY <2>3, <4>2, <4>3
    <3> QED
      BY <3>1, <3>2
  <2> HIDE DEF t
  <2> DEFINE adds == Count(saved'.plan, "nicAdd")
             removes == Count(saved'.plan, "nicRemove")
             added == IF t.do = "nicAdd" THEN 1 ELSE 0
             removed == IF t.do = "nicRemove" THEN 1 ELSE 0
  <2>8. /\ disks.nics + (adds + added) = saved.nics + (removes + removed)
        /\ disks'.nics = disks.nics + added - removed
    BY <2>2, <2>4, <2>7
  <2>9. adds \in Nat /\ removes \in Nat /\ added \in Int /\ removed \in Int
    BY <2>5
  <2> HIDE DEF adds, removes, added, removed
  <2>10. disks.nics \in Int /\ disks'.nics \in Int /\ saved.nics \in Int
    BY <2>3, <2>8, <2>9
  <2>11. disks'.nics + adds = saved.nics + removes
    BY <2>8, <2>9, <2>10, NicBalance
  <2> QED
    BY <2>11 DEF adds, removes
<1>4. ASSUME Opener PROVE NicsInv'
  BY <1>4 DEF Opener, NicsInv, Closing
<1>5. ASSUME Calm PROVE NicsInv'
  BY <1>5 DEF Calm, NicsInv
<1> QED
  BY <1>1, <1>2, <1>3, <1>4, <1>5, StepsOfSave


\* From here on the parts of the argument come together.
Settling == LeftInv /\ MarksInv /\ OffInv /\ ShieldInv /\ AppliedInv /\ DevicesInv /\ NicsInv

LEMMA SettlingInit == Init => Settling
<1> SUFFICES ASSUME Init PROVE Settling
  OBVIOUS
<1>1. phase = "closed" /\ form = NoForm /\ rows = NoRows /\ saved = NotSaved
  BY DEF Init
<1>2. ~Closing /\ ~Alone
  BY <1>1 DEF Closing, Alone
<1>3. LeftInv
  BY <1>1 DEF LeftInv, NotSaved, ToSet
<1>4. MarksInv
  BY <1>1 DEF MarksInv, NoRows
<1>5. form.shown["shield"] # "on"
  BY <1>1, ShieldFields DEF NoForm
<1> QED
  BY <1>1, <1>2, <1>3, <1>4, <1>5
     DEF Settling, OffInv, ShieldInv, AppliedInv, DevicesInv, NicsInv

LEMMA SettlingStep ==
  Typed /\ OddInv /\ CacheInv /\ TouchedInv /\ Settling /\ [Next]_vars => Settling'
BY LeftStep, MarksStep, OffStep, ShieldStep, AppliedStep, DevicesStep, NicsStep DEF Settling

LEMMA ClosedIsApplied == Typed /\ Settling => ClosedMeansApplied
<1> SUFFICES ASSUME Typed, Settling, phase = "saved", ~ghost.disturbed, power = form.power
             PROVE  /\ \A g \in saved.changed : \A f \in DOMAIN Given(g) : host[f] = Given(g)[f]
                    /\ \A i \in DOMAIN saved.queue :
                         saved.queue[i].at[2] >= 0 => disks.drives[saved.queue[i].at] = Device(saved.queue[i].do)
                    /\ (\A i \in DOMAIN saved.queue : saved.queue[i].at[2] >= 0) =>
                         \A p \in saved.marks \ {q.at : q \in ToSet(saved.queue)} : disks.drives[p] = "none"
                    /\ ~ghost.retried => disks.nics = saved.nics
  BY DEF ClosedMeansApplied
<1>1. Closing /\ Alone /\ saved.plan = <<>> /\ ~saved.errors
  BY DEF Closing, Alone, Settling, LeftInv
<1>2. ToSet(saved.plan) = {}
  BY <1>1 DEF ToSet
<1>3. Count(saved.plan, "nicAdd") = 0 /\ Count(saved.plan, "nicRemove") = 0
  <2>1. saved.plan \in Seq(Tasks)
    BY DEF Typed, SavedTyped
  <2> QED
    BY <1>2, <2>1, CountIs
<1>4. \A g \in saved.changed : \A f \in DOMAIN Given(g) : host[f] = Given(g)[f]
  BY <1>1, <1>2 DEF Settling, AppliedInv, Applied
<1>5. \A i \in DOMAIN saved.queue :
        saved.queue[i].at[2] >= 0 => disks.drives[saved.queue[i].at] = Device(saved.queue[i].do)
  BY <1>1, <1>2 DEF Settling, DevicesInv, Settled
<1>6. AllPlaced => \A p \in saved.marks \ QueuedAts : disks.drives[p] = "none"
  BY <1>1, <1>2 DEF Settling, DevicesInv, Gone
<1>7. ~ghost.retried => disks.nics = saved.nics
  <2>1. disks.nics \in Nat /\ saved.nics \in Int
    BY DEF Typed, DisksTyped, SavedTyped
  <2> QED
    BY <1>1, <1>3, <2>1 DEF Settling, NicsInv
<1> QED
  BY <1>4, <1>5, <1>6, <1>7 DEF AllPlaced, QueuedAts

\* The dialog closes on Save only when the machine has what it showed.
THEOREM SaveAppliesWhatItShowed == Spec => []ClosedMeansApplied
BY TypedInit, TypedStep, OddInit, OddStep, CacheInit, CacheStep, TouchedInit, TouchedStep,
   SettlingInit, SettlingStep, ClosedIsApplied, PTL DEF Spec
=============================================================================
