----------------------------- MODULE VmSettings -----------------------------
(***************************************************************************)
(* The settings dialog of a virtual machine (VmSettingsDialog): it loads    *)
(* the settings, partly from the poll cache, lets the user change what the  *)
(* machine's state allows, queues devices, and on Save calls one VMManager  *)
(* setter per group of settings that differs from what was loaded.  The     *)
(* dialog stays open when a setter fails.  Other tools change the machine   *)
(* meanwhile, and the sets, which block the UI thread, do not block them.   *)
(***************************************************************************)
EXTENDS Integers, Sequences, FiniteSets, SequencesExt

CONSTANTS
  Edited, Shared,      \* the fields the user edits, and those other tools change
  Odd,                 \* fields that may hold a value the form cannot show
  Ide, Scsi, Slots,    \* controllers a machine may have, by type; drives on each
  MaxEdits, MaxTrouble  \* bounds of an instance

----------------------------------------------------------------------------
(* The setters: the fields each writes, all at once, and those of them that *)
(* Hyper-V takes only while the machine is off.                            *)

Setter(writes, off) == [writes |-> writes, off |-> off]

RenameVM             == Setter({"name"}, {})
SetNotes             == Setter({"notes"}, {})
SetMemoryConfig      == Setter({"memory size", "numa memory", "memory weight"},
                               {"memory size", "numa memory"})
SetProcessorConfig   == Setter({"processor count", "numa topology", "processor share"},
                               {"processor count", "numa topology"})
SetSecureBoot        == Setter({"secure boot", "template"}, {"secure boot", "template"})
SetBootOrder         == Setter({"boot order"}, {"boot order"})
SetBootOrderGen1     == Setter({"boot codes"}, {"boot codes"})
SetCheckpointConfig  == Setter({"checkpoint type", "automatic checkpoints", "checkpoint location"}, {})
SetSmartPagingFileLocation == Setter({"paging location"}, {})
SetSerialPortConnection(port) == Setter({port}, {})
SetVmDebugger        == Setter({"debugger"}, {})
SetAutomaticActions  == Setter({"start action", "start delay", "stop action"}, {"stop action"})
SetVmTpm             == Setter({"tpm"}, {"tpm"})
SetVmStateEncryption == Setter({"encrypt"}, {"encrypt"})
SetVmShielded        == Setter({"shield"}, {"shield"})
SetDvdMedia          == Setter({"medium"}, {})
SetDiskQos           == Setter({"iops"}, {})
SetIntegrationServiceEnabled      == Setter({"integration"}, {})
SetNetworkAdapterSwitch           == Setter({"switch"}, {})
SetNetworkAdapterMac              == Setter({"mac"}, {"mac"})
SetNetworkAdapterVlan             == Setter({"vlan"}, {})
SetNetworkAdapterAdvanced         == Setter({"guards", "mirroring"}, {})
SetNetworkAdapterBandwidth        == Setter({"bandwidth min", "bandwidth max"}, {})
SetNetworkAdapterProtectedNetwork == Setter({"protected"}, {})
SetNetworkAdapterDeviceNaming     == Setter({"naming"}, {})
SetNetworkAdapterOffload          == Setter({"offload"}, {})
SetRdpOptionsOverride             == Setter({"rdp override", "rdp options"}, {})

Setters ==
  [name |-> RenameVM, notes |-> SetNotes, memory |-> SetMemoryConfig,
   processor |-> SetProcessorConfig, firmware |-> SetSecureBoot, boot |-> SetBootOrder,
   bootGen1 |-> SetBootOrderGen1, checkpoint |-> SetCheckpointConfig,
   paging |-> SetSmartPagingFileLocation, com1 |-> SetSerialPortConnection("com 1"),
   com2 |-> SetSerialPortConnection("com 2"), debugger |-> SetVmDebugger,
   auto |-> SetAutomaticActions, tpm |-> SetVmTpm, encrypt |-> SetVmStateEncryption,
   shield |-> SetVmShielded, media |-> SetDvdMedia, qos |-> SetDiskQos,
   integration |-> SetIntegrationServiceEnabled, switch |-> SetNetworkAdapterSwitch,
   mac |-> SetNetworkAdapterMac, vlan |-> SetNetworkAdapterVlan,
   advanced |-> SetNetworkAdapterAdvanced, bandwidth |-> SetNetworkAdapterBandwidth,
   protected |-> SetNetworkAdapterProtectedNetwork,
   naming |-> SetNetworkAdapterDeviceNaming, offload |-> SetNetworkAdapterOffload,
   rdp |-> SetRdpOptionsOverride]

\* The groups of an instance: those edited, and those the form relates.
Groups ==
  {g \in DOMAIN Setters : Setters[g].writes \cap (Edited \cup Odd) # {}}
    \cup {"firmware", "tpm", "encrypt", "shield", "rdp"}

Fields  == UNION {Setters[g].writes : g \in Groups}
OffOnly == UNION {Setters[g].off : g \in Groups}
InSettings == SetVmDebugger.writes \cup SetRdpOptionsOverride.writes  \* this program's own
Adapter == UNION {Setters[g].writes : g \in {"switch", "mac", "vlan", "advanced",
                       "bandwidth", "protected", "naming", "offload"}}

\* Switches, whose two positions the form shows; fields with a text.
Toggles == {"secure boot", "tpm", "encrypt", "shield", "rdp override"}
Texts   == {"name", "checkpoint location", "paging location"}
Values  == {"old", "odd", "near", "user", "other", "blank", "default", "on", "off"}

\* A place of a drive; Save chooses the slot of an unplaced device.
Controllers     == Ide \cup Scsi
Places          == Controllers \X Slots
Unplaced(c)     == <<c, -1>>
NoController    == "none"
AnyPlace        == Places \cup {Unplaced(c) : c \in Controllers \cup {NoController}}
Kinds           == {"dvdAdd", "attach", "create", "physical"}
Device(kind)    == CASE kind = "dvdAdd" -> "dvd" [] kind = "physical" -> "raw" [] OTHER -> "disk"
DeviceTasks     == Kinds \cup {"dvdRemove", "detach", "nicRemove", "nicAdd"}
Task(do, at)    == [do |-> do, at |-> at]
Here            == Unplaced(NoController)

\* Fields that Save compares with what the control showed at first; the others
\* it compares with the value that was loaded.
ShownBaseline == {"template", "memory weight", "start action", "stop action",
                  "checkpoint type", "bandwidth min", "bandwidth max"}

\* Of the fields set only while the machine is off, those that may hold a value
\* the form cannot show are compared with what was shown, and their whole group
\* is set only then: a machine beyond the range of a number box (over 256 GB of
\* memory or 240 processors), and one that reports no stop action, is not
\* modelled.
ASSUME SettingsAssumption ==
  /\ (Edited \cup Shared) \subseteq Fields /\ Odd \subseteq Fields \ Toggles
  /\ Odd \cap OffOnly \subseteq ShownBaseline
  /\ \A g \in Groups : Setters[g].off \cap Odd # {} => Setters[g].writes \subseteq Setters[g].off
  /\ Shared \cap InSettings = {} /\ NoController \notin Controllers
  /\ Slots \subseteq Nat /\ Scsi # {}
  /\ {MaxEdits, MaxTrouble} \subseteq Nat

\* The function f, with the values of g where g has one.
With(f, g) == [x \in DOMAIN f \cup DOMAIN g |-> IF x \in DOMAIN g THEN g[x] ELSE f[x]]

VARIABLES
  host,     \* the settings Hyper-V and the settings file hold
  disks,    \* its controllers, the drives on them, its network adapters
  power,    \* the machine's state
  cache,    \* the last poll's settings
  phase,    \* of the dialog
  form,     \* what the dialog loaded and shows
  rows,     \* the storage it read, marks on its rows, and its queues
  pending,  \* the controller coroutine under way
  overlay,  \* "Saving..." covers the form
  saved,    \* what Save took from the form, and what it still has to do
  session,  \* the RDP options of the machine's live session
  ghost,    \* fields the user touched, changes by others, earlier failed Saves
  behind,   \* the cache need not have the last changes
  budget    \* edits left; faults and changes by others left

vars == <<host, disks, power, cache, phase, form, rows, pending, overlay, saved,
          session, ghost, behind, budget>>

\* Fields the dialog takes from the poll cache; the others it reads itself.
Cached ==
  Setters["name"].writes \cup Setters["notes"].writes \cup SetSecureBoot.writes
    \cup SetAutomaticActions.writes \cup SetCheckpointConfig.writes
    \cup SetSmartPagingFileLocation.writes \cup Adapter
CachedFields == Cached \cap Fields

TypeOK ==
  /\ host \in [Fields -> Values]
  /\ disks.drives \in [Places -> {"none", "disk", "dvd", "raw"}]
  /\ disks.ctrls \subseteq disks.known /\ disks.known \subseteq Controllers
  /\ disks.nics \in Nat
  /\ power \in {"Off", "Running", "Saved"}
  /\ cache.value \in [CachedFields -> Values] /\ cache.power \in {"Off", "Running", "Saved"}
  /\ phase \in {"closed", "open", "saving", "setting", "waiting", "saved", "cancelled"}
  /\ form.orig \in [Fields -> Values] /\ form.shown \in [Fields -> Values]
  /\ rows.ctrls \subseteq Controllers /\ rows.drives \in [Places -> {"none", "disk", "dvd", "raw"}]
  /\ rows.marks \subseteq Places /\ rows.queued \subseteq Places
  /\ \A i \in DOMAIN rows.queue : rows.queue[i].do \in Kinds /\ rows.queue[i].at \in AnyPlace
  /\ pending \in {Task("none", Here), Task("add", Here)} \cup {Task("remove", Unplaced(c)) : c \in Controllers}
  /\ overlay \in BOOLEAN
  /\ \A i \in DOMAIN saved.plan : saved.plan[i].do \in Groups \cup DeviceTasks
  /\ session \in Values

----------------------------------------------------------------------------
(* Machines the dialog may be opened for.                                  *)

OnOff(b) == IF b THEN "on" ELSE "off"

\* The fields of a machine that holds the values odd and has the toggles on,
\* with RDP options of its own or without.
StoredValue(f, odd, on, override) ==
  CASE f = "rdp override"              -> OnOff(override)
    [] f = "rdp options" /\ ~override  -> "default"
    [] f \in Toggles \ {"rdp override"} -> OnOff(f \in on)
    [] f \in odd                       -> "odd"
    [] OTHER                           -> "old"

Stored(odd, on, override) == [f \in Fields |-> StoredValue(f, odd, on, override)]

NoForm == [orig |-> [f \in Fields |-> "old"], shown |-> [f \in Fields |-> "old"],
           power |-> "Off", rdpChanged |-> FALSE]
NoRows == [ctrls |-> {}, drives |-> [p \in Places |-> "none"], marks |-> {},
           queued |-> {}, queue |-> <<>>, nicRemove |-> FALSE, nicAdds |-> 0]
NotSaved == [shown |-> NoForm.shown, unshown |-> {}, changed |-> {}, marks |-> {}, queue |-> <<>>,
             nics |-> 0, plan |-> <<>>, errors |-> FALSE]
NoGhost == [touched |-> {}, disturbed |-> FALSE, retried |-> FALSE, nics |-> 0]

\* A machine of either generation; a full one has checkpoints, a disk and a DVD
\* drive, RDP options of its own and a value the form cannot show.  It has a
\* live session.
Init ==
  /\ \E full \in BOOLEAN, state \in {"Off", "Running", "Saved"}, odd \in {{}} \cup {{f} : f \in Odd},
        on \in {{}, {"tpm", "encrypt", "shield"}}, ctrls \in {Ide, {}} \cup {{CHOOSE c \in Scsi : TRUE}} :
       /\ full <=> odd # {}
       /\ ctrls = Ide => on = {}
       /\ host = Stored(odd, on, full)
       /\ disks = [gen2 |-> ctrls # Ide, checkpoints |-> full, ctrls |-> ctrls, known |-> ctrls, nics |-> 1,
                   drives |-> [p \in Places |-> IF ~full \/ p[1] \notin ctrls THEN "none"
                                               ELSE IF p[2] = 0 THEN "disk" ELSE IF p[2] = 1 THEN "dvd" ELSE "none"]]
       /\ power = state
       /\ cache = [value |-> [f \in CachedFields |-> host[f]], power |-> state]
       /\ session = host["rdp options"]
  /\ phase = "closed"
  /\ form = NoForm
  /\ rows = NoRows
  /\ pending = Task("none", Here)
  /\ overlay = FALSE
  /\ saved = NotSaved
  /\ ghost = NoGhost
  /\ behind = FALSE
  /\ budget = [edits |-> MaxEdits, trouble |-> MaxTrouble]

----------------------------------------------------------------------------
(* Opening: LoadFromVm, one section of the dialog after the other.          *)

FromCache(fs) == [f \in fs \cap Fields |-> cache.value[f]]
ReadNow(fs)   == [f \in fs \cap Fields |-> host[f]]

LoadGeneral     == With(FromCache({"name", "notes"}),
                        ReadNow(SetMemoryConfig.writes \cup SetProcessorConfig.writes))
LoadFirmware    == With(FromCache(SetSecureBoot.writes), ReadNow({"boot order", "boot codes"}))
LoadSecurity    == ReadNow({"tpm", "encrypt", "shield"})
LoadAutomatic   == FromCache(SetAutomaticActions.writes)
LoadCheckpoints == FromCache(SetCheckpointConfig.writes \cup SetSmartPagingFileLocation.writes)
LoadPorts       == ReadNow({"com 1", "com 2", "debugger"})
LoadIntegration == ReadNow({"integration"})
LoadAdapter     == FromCache({"switch", "mac"})
LoadVlan        == FromCache({"vlan"})
LoadAdvanced    == FromCache(SetNetworkAdapterAdvanced.writes \cup {"protected", "naming"})
LoadBandwidth   == FromCache(SetNetworkAdapterBandwidth.writes)
LoadOffload     == FromCache({"offload"})
LoadRdp         == ReadNow(SetRdpOptionsOverride.writes)

\* The rows of the attached drives, with their media and QoS.
LoadDrives == ReadNow({"medium", "iops"})

Sections ==
  {LoadGeneral, LoadFirmware, LoadSecurity, LoadAutomatic, LoadCheckpoints, LoadPorts,
   LoadIntegration, LoadAdapter, LoadVlan, LoadAdvanced, LoadBandwidth, LoadOffload,
   LoadDrives, LoadRdp}

Loaded ==
  LET sections == Sections
  IN  [f \in Fields |-> (CHOOSE section \in sections : f \in DOMAIN section)[f]]

\* What a control shows of a value it has no position for.
Nearest(v) == IF v = "odd" THEN "near" ELSE v

\* Mutant: Save compares with what was loaded.
LoadedValue(f) == form.orig[f]

\* What Save compares with what is shown.
Baseline(f) == IF f \in ShownBaseline THEN Nearest(form.orig[f]) ELSE form.orig[f]

\* Fields that differ from their baseline though the user did nothing.
Unshown == {f \in Fields : f \notin ShownBaseline /\ form.orig[f] = "odd"}

\* Reads the controllers and the drives again.  The marks and edits of the
\* drives' rows are gone, what is queued is not.
RebuildStorageCards(r) ==
  [r EXCEPT !.ctrls = disks.ctrls, !.drives = disks.drives, !.marks = {}]

RebuiltForm ==
  [form EXCEPT !.orig  = With(@, LoadDrives),
               !.shown = With(@, [f \in DOMAIN LoadDrives |-> Nearest(LoadDrives[f])])]

LoadFromVm ==
  /\ form' = [orig |-> Loaded, shown |-> [f \in Fields |-> Nearest(Loaded[f])],
              power |-> cache.power, rdpChanged |-> FALSE]
  /\ rows' = RebuildStorageCards(NoRows)

Open ==
  /\ phase = "closed" /\ pending.do = "none"
  /\ phase' = "open"
  /\ LoadFromVm
  /\ ghost' = [NoGhost EXCEPT !.nics = disks.nics, !.disturbed = behind]
  /\ UNCHANGED <<host, disks, power, cache, pending, overlay, saved, session, behind, budget>>

----------------------------------------------------------------------------
(* The form.  Clicks reach it unless the overlay covers it or a set holds   *)
(* the UI thread.                                                          *)

Interactive == phase \in {"open", "saving", "waiting"} /\ ~overlay /\ budget.edits > 0

\* Mutant: a saved machine counts as one that is off.
SeenNotRunning == form.power # "Running"

SeenOff == form.power = "Off"

HardwareEditable == SeenOff \/ (disks.gen2 /\ form.power = "Running")

ApplyStateGating(f) ==
  /\ f \in OffOnly => SeenOff
  /\ f \in SetSecureBoot.writes \cup {"tpm", "encrypt", "shield", "boot order"} => disks.gen2
  /\ f = "boot codes" => ~disks.gen2
  /\ f = "template" => form.shown["secure boot"] = "on"
  /\ f \in {"tpm", "encrypt"} => form.shown["shield"] = "off"
  /\ f = "checkpoint location" => ~disks.checkpoints
  /\ f = "rdp options" => form.shown["rdp override"] = "on"
  /\ f \in Adapter => disks.nics > 0
  /\ f = "medium" => \E p \in Places : rows.drives[p] = "dvd"
  /\ f = "iops" => \E p \in Places : rows.drives[p] = "disk"

Positions(f) ==
  IF f \in Toggles THEN {"on", "off"}
  ELSE {"user", Nearest(form.orig[f])} \cup (IF f \in Texts THEN {"blank"} ELSE {})

\* A shielded machine needs its TPM and its state encryption.
OnShieldingToggled(v) ==
  [f \in {"shield"} \cup (IF v = "on" THEN {"tpm", "encrypt"} ELSE {}) |-> v]

Change(f) ==
  /\ Interactive /\ ApplyStateGating(f)
  /\ \E v \in Positions(f) \ {form.shown[f]} :
       LET set == IF f = "shield" THEN OnShieldingToggled(v) ELSE [x \in {f} |-> v] IN
       /\ form' = [form EXCEPT !.shown = With(@, set)]
       /\ ghost' = [ghost EXCEPT !.touched = @ \cup DOMAIN set]
  /\ budget' = [budget EXCEPT !.edits = @ - 1]
  /\ UNCHANGED <<host, disks, power, cache, phase, rows, pending, overlay, saved, session, behind>>

\* A click that changes rows only.
Click(r) ==
  /\ Interactive
  /\ rows' = r
  /\ budget' = [budget EXCEPT !.edits = @ - 1]
  /\ UNCHANGED <<host, disks, power, cache, phase, form, pending, overlay, saved, session, ghost, behind>>

MarkDrive(p) ==
  /\ rows.drives[p] # "none" /\ p \notin rows.marks
  /\ rows.drives[p] = "dvd" => HardwareEditable
  /\ Click([rows EXCEPT !.marks = @ \cup {p}])

MarkAdapter ==
  /\ disks.nics > 0 /\ ~rows.nicRemove /\ HardwareEditable
  /\ Click([rows EXCEPT !.nicRemove = TRUE])

OnNetworkAddAdapter == HardwareEditable /\ Click([rows EXCEPT !.nicAdds = @ + 1])

\* Mutant: one slot more than there is, and queued places offered again.
FreeSlotsByCount(c) ==
  {s \in 0 .. Cardinality(Slots) : <<c, s>> \in Places => rows.drives[<<c, s>>] = "none"}

\* A placement flyout offers the slots that no drive has and no queued device.
FreeSlots(c) == {s \in Slots : rows.drives[<<c, s>>] = "none" /\ <<c, s>> \notin rows.queued}

Placements ==
  IF rows.ctrls = {} THEN {Here}
  ELSE UNION {IF FreeSlots(c) = {} THEN {Unplaced(c)} ELSE {c} \X FreeSlots(c) : c \in rows.ctrls}

\* Mutant: a queued device does not take its place.
ConsumeNothing(r, at) == r

ConsumeQueuedSlot(r, at) == IF at[2] < 0 THEN r ELSE [r EXCEPT !.queued = @ \cup {at}]

Queue(kind) ==
  \E at \in Placements :
    Click(ConsumeQueuedSlot([rows EXCEPT !.queue = Append(@, Task(kind, at))], at))

OnStorageAttachVhd      == Queue("attach")
OnStorageCreateVhd      == Queue("create")
OnStorageAttachPhysical == SeenOff /\ Queue("physical")
OnStorageAddDvdDrive    == HardwareEditable /\ Queue("dvdAdd")

\* Controllers are added and removed at once, not by Save: after 150 ms.
Start(task) ==
  /\ Interactive /\ SeenOff
  /\ overlay' = TRUE
  /\ pending' = task
  /\ budget' = [budget EXCEPT !.edits = @ - 1]
  /\ UNCHANGED <<host, disks, power, cache, phase, form, rows, saved, session, ghost, behind>>

OnStorageAddScsiController ==
  /\ pending.do = "none" /\ Scsi \ disks.known # {}
  /\ Start(Task("add", Here))

OnRemoveScsiController(c) ==
  /\ pending.do = "none" /\ c \in rows.ctrls \cap Scsi
  /\ \A s \in Slots : rows.drives[<<c, s>>] = "none" /\ <<c, s>> \notin rows.queued
  /\ Start(Task("remove", Unplaced(c)))

Free == phase # "setting"

\* Ends a controller coroutine; its overlay goes, whoever else showed one.
PendingEnds(ok, ctrls, known, r) ==
  /\ Free
  /\ \/ /\ ok /\ power = "Off"
        /\ disks' = [disks EXCEPT !.ctrls = ctrls, !.known = known]
        /\ IF phase = "closed" THEN UNCHANGED <<rows, form>>
           ELSE rows' = [RebuildStorageCards(r) EXCEPT !.ctrls = ctrls] /\ form' = RebuiltForm
        /\ UNCHANGED budget
     \/ /\ ~ok \/ power # "Off" \/ budget.trouble > 0
        /\ budget' = IF ok /\ power = "Off" THEN [budget EXCEPT !.trouble = @ - 1] ELSE budget
        /\ UNCHANGED <<disks, rows, form>>
  /\ pending' = Task("none", Here)
  /\ overlay' = FALSE
  /\ UNCHANGED <<host, power, cache, phase, saved, session, ghost, behind>>

AddScsiEnds ==
  /\ pending.do = "add"
  /\ \E c \in Scsi \ disks.known :
       PendingEnds(TRUE, disks.ctrls \cup {c}, disks.known \cup {c}, rows)

RemoveScsiControllerByRef ==
  LET c == pending.at[1] IN
  /\ pending.do = "remove"
  /\ PendingEnds(c \in disks.ctrls /\ \A s \in Slots : disks.drives[<<c, s>>] = "none",
                 disks.ctrls \ {c}, disks.known,
                 [rows EXCEPT !.queued = {p \in @ : p[1] # c}])

Cancel ==
  /\ phase = "open"
  /\ phase' = "cancelled"
  /\ UNCHANGED <<host, disks, power, cache, form, rows, pending, overlay, saved, session, ghost, behind, budget>>

----------------------------------------------------------------------------
(* Save: what differs, in the sections of the form.                        *)

Differs(f)  == form.shown[f] # Baseline(f)
Changed(gs) == {g \in gs \cap Groups : \E f \in Setters[g].writes : Differs(f)}

GeneralDiff    == Changed({"name", "notes", "memory", "processor"})
FirmwareDiff   == IF disks.gen2 THEN Changed({"firmware", "boot"}) ELSE Changed({"bootGen1"})
PlatformDiff   == Changed({"auto", "checkpoint", "paging", "com1", "com2", "debugger"})
SecurityDiff   == IF disks.gen2 THEN Changed({"tpm", "encrypt", "shield"}) ELSE {}
ServicesDiff   == Changed({"integration"})

\* Removing a device wins over editing it.
StaysOf(kind) == \E p \in Places \ rows.marks : rows.drives[p] = kind
StorageDiff ==
  (IF StaysOf("dvd") THEN Changed({"media"}) ELSE {})
    \cup (IF StaysOf("disk") THEN Changed({"qos"}) ELSE {})
AdapterDiff  == IF rows.nicRemove THEN {} ELSE Changed({"switch", "mac", "vlan"})
FeaturesDiff ==
  IF rows.nicRemove THEN {} ELSE Changed({"advanced", "bandwidth", "protected", "naming", "offload"})

\* The values count only while the machine has options of its own.
RdpDiff ==
  IF Differs("rdp override") \/ (form.shown["rdp override"] = "on" /\ Differs("rdp options"))
  THEN {"rdp"} ELSE {}

Changes ==
  GeneralDiff \cup FirmwareDiff \cup PlatformDiff \cup SecurityDiff \cup StorageDiff
    \cup ServicesDiff \cup AdapterDiff \cup FeaturesDiff \cup RdpDiff

\* No empty name, no MAC address but twelve digits, no trunk without VLANs.
Valid ==
  \A g \in Changes \cap {"name", "mac", "vlan"}, f \in {"name", "mac", "vlan"} :
    f \in Setters[g].writes => form.shown[f] # "blank"

\* A weight the slider cannot show is kept unless the slider moved.
Written(f) ==
  IF f = "memory weight" /\ ~Differs(f) THEN form.orig[f] ELSE form.shown[f]

\* The order of the sets.  Shielding comes after what it forces on.
GeneralOrder == <<"name", "notes", "memory", "processor", "firmware", "boot", "bootGen1",
                  "checkpoint", "paging", "com1", "com2", "debugger", "auto",
                  "tpm", "encrypt", "shield", "media">>
AdapterOrder == <<"integration", "switch", "mac", "vlan", "advanced", "bandwidth",
                  "protected", "naming", "offload">>

\* The elements of s that are in keep, in their order.
Only(s, keep) ==
  LET taken[n \in 0 .. Len(s)] ==
        IF n = 0 THEN <<>>
        ELSE IF s[n] \in keep THEN Append(taken[n - 1], s[n]) ELSE taken[n - 1]
  IN  taken[Len(s)]

SavePlan(changes) ==
  LET sets(order)   == LET due == Only(order, changes)
                       IN [i \in DOMAIN due |-> Task(due[i], Here)]
      queued(kind)  == Only(rows.queue, {q \in ToSet(rows.queue) : q.do = kind})
      marked(kinds, do) == LET ps == SetToSeq({p \in rows.marks : rows.drives[p] \in kinds})
                           IN [i \in DOMAIN ps |-> Task(do, ps[i])]
  IN sets(GeneralOrder)
       \o marked({"dvd"}, "dvdRemove") \o queued("dvdAdd")
       \o marked({"disk", "raw"}, "detach") \o queued("attach") \o queued("create")
       \o sets(<<"qos">>) \o queued("physical")
       \o sets(AdapterOrder)
       \o (IF rows.nicRemove THEN <<Task("nicRemove", Here)>> ELSE <<>>)
       \o [i \in 1 .. rows.nicAdds |-> Task("nicAdd", Here)]
       \o sets(<<"rdp">>)

\* The click takes everything from the form; the sets begin 150 ms later.
\* A Save with nothing to do closes at once.  Saving again after a failed Save
\* counts as an edit, to bound how often it happens.
Save ==
  /\ phase = "open" /\ Valid
  /\ ghost.retried => budget.edits > 0
  /\ budget' = IF ghost.retried THEN [budget EXCEPT !.edits = @ - 1] ELSE budget
  /\ LET plan == SavePlan(Changes) IN
       /\ saved' = [shown |-> [f \in Fields |-> Written(f)], unshown |-> Unshown, changed |-> Changes,
                    marks |-> rows.marks, queue |-> rows.queue, plan |-> plan, errors |-> FALSE,
                    nics |-> ghost.nics + rows.nicAdds - (IF rows.nicRemove THEN 1 ELSE 0)]
       /\ phase' = IF plan = <<>> THEN "saved" ELSE "saving"
       /\ overlay' = IF plan = <<>> THEN overlay ELSE TRUE
  /\ UNCHANGED <<host, disks, power, cache, form, rows, pending, session, ghost, behind>>

BeginSets ==
  /\ phase = "saving"
  /\ phase' = "setting"
  /\ UNCHANGED <<host, disks, power, cache, form, rows, pending, overlay, saved, session, ghost, behind, budget>>

----------------------------------------------------------------------------
(* One set after the other, none of them waiting for the UI thread.         *)

\* What the setter of a group is given.  An empty checkpoint location is left
\* alone; shielding on writes all three; without an override the defaults hold.
Given(g) ==
  CASE g = "checkpoint" ->
         [f \in {x \in Setters[g].writes : x = "checkpoint location" => saved.shown[x] # "blank"} |-> saved.shown[f]]
    [] g = "shield" -> OnShieldingToggled(saved.shown["shield"])
    [] g = "rdp" ->
         [f \in Setters[g].writes |->
            IF f = "rdp options" /\ saved.shown["rdp override"] # "on" THEN "default" ELSE saved.shown[f]]
    [] OTHER -> [f \in Setters[g].writes |-> saved.shown[f]]

\* Hyper-V does not take it in the machine's state.
Locked(g) == power # "Off" /\ \E f \in Setters[g].off \cap DOMAIN Given(g) : Given(g)[f] # host[f]

Refuses(g) == g = "paging" /\ saved.shown["paging location"] = "blank"

\* Where a device goes: to its place, else to the lowest free slot of its
\* controller, else to a controller of the edit's choice.
Empty(p) == p[1] \in disks.ctrls /\ disks.drives[p] = "none"
ResolveStorageTarget(at) ==
  LET free == {p \in Places : Empty(p)} IN
  IF at[2] >= 0 THEN free \cap {at}
  ELSE {p \in free : at[1] # NoController =>
          p[1] = at[1] /\ \A s \in Slots : s < p[2] => <<p[1], s>> \notin free}

\* The kinds of drive a task may remove.
Removes(do) == CASE do = "dvdRemove" -> {"dvd"} [] do = "detach" -> {"disk", "raw"} [] OTHER -> {}

\* The disks a device task may leave; none when it must fail.
DeviceResults(t) ==
  CASE t.do \in Kinds -> {[disks EXCEPT !.drives[p] = Device(t.do)] : p \in ResolveStorageTarget(t.at)}
    [] t.do = "nicAdd"    -> {[disks EXCEPT !.nics = @ + 1]}
    [] t.do = "nicRemove" -> IF disks.nics > 0 THEN {[disks EXCEPT !.nics = @ - 1]} ELSE {}
    [] OTHER -> IF disks.drives[t.at] \in Removes(t.do)
                THEN {[disks EXCEPT !.drives[t.at] = "none"]} ELSE {}

TaskEnds(failed) == saved' = [saved EXCEPT !.plan = Tail(@), !.errors = @ \/ failed]

\* This program's own settings are written without fail; those for RDP make the
\* opener reconnect.
SetDone(g) ==
  /\ ~Locked(g) /\ ~Refuses(g)
  /\ host' = With(host, Given(g))
  /\ form' = [form EXCEPT !.rdpChanged = @ \/ g = "rdp"]
  /\ TaskEnds(FALSE)
  /\ UNCHANGED <<disks, budget>>

SetIgnored(g) ==
  /\ Locked(g)
  /\ TaskEnds(FALSE)
  /\ UNCHANGED <<host, disks, form, budget>>

DeviceDone(t) ==
  /\ disks' \in DeviceResults(t)
  /\ TaskEnds(FALSE)
  /\ UNCHANGED <<host, form, budget>>

\* A setter returns FALSE.
Fails(expected) ==
  /\ expected \/ budget.trouble > 0
  /\ budget' = IF expected THEN budget ELSE [budget EXCEPT !.trouble = @ - 1]
  /\ TaskEnds(TRUE)
  /\ UNCHANGED <<host, disks, form>>

Set ==
  /\ phase = "setting" /\ saved.plan # <<>>
  /\ LET t == Head(saved.plan) IN
       \/ t.do \in Groups /\ SetDone(t.do)
       \/ t.do \in Groups /\ SetIgnored(t.do)
       \/ t.do \in Groups /\ ~(Setters[t.do].writes \subseteq InSettings) /\ Fails(Locked(t.do) \/ Refuses(t.do))
       \/ t.do \in DeviceTasks /\ DeviceDone(t)
       \/ t.do \in DeviceTasks /\ Fails(power # "Off" \/ DeviceResults(t) = {})
  /\ UNCHANGED <<power, cache, phase, rows, pending, overlay, session, ghost, behind>>

EndSets ==
  /\ phase = "setting" /\ saved.plan = <<>>
  /\ phase' = "waiting"
  /\ UNCHANGED <<host, disks, power, cache, form, rows, pending, overlay, saved, session, ghost, behind, budget>>

Snapshot == [value |-> [f \in CachedFields |-> host[f]], power |-> power]

\* Mutant: the dialog closes before a poll.
SaveEndsWithoutPoll ==
  /\ phase = "waiting"
  /\ ghost' = [ghost EXCEPT !.retried = @ \/ saved.errors]
  /\ overlay' = FALSE
  /\ phase' = IF saved.errors THEN "open" ELSE "saved"
  /\ UNCHANGED <<host, disks, power, cache, form, rows, pending, saved, session, behind, budget>>

\* KickPollAndWait: a poll begun after the sets, or fifteen seconds.
SaveEnds ==
  /\ phase = "waiting"
  /\ \/ /\ cache' = Snapshot
        /\ behind' = FALSE
        /\ UNCHANGED budget
     \/ /\ budget.trouble > 0
        /\ budget' = [budget EXCEPT !.trouble = @ - 1]
        /\ behind' = TRUE
        /\ UNCHANGED cache
  /\ ghost' = [ghost EXCEPT !.retried = @ \/ saved.errors]
  /\ overlay' = FALSE
  /\ phase' = IF saved.errors THEN "open" ELSE "saved"
  /\ UNCHANGED <<host, disks, power, form, rows, pending, saved, session>>

\* Mutant: only a dialog that closed through Save makes the session reconnect.
OpenerAfterSave ==
  /\ phase \in {"saved", "cancelled"}
  /\ phase' = "closed"
  /\ session' = IF phase = "saved" /\ form.rdpChanged THEN host["rdp options"] ELSE session
  /\ form' = NoForm /\ rows' = NoRows /\ saved' = NotSaved /\ ghost' = NoGhost
  /\ UNCHANGED <<host, disks, power, cache, pending, overlay, behind, budget>>

\* The opener, after the dialog: ShowVmSettingsDialogCoro.
Opener ==
  /\ phase \in {"saved", "cancelled"}
  /\ phase' = "closed"
  /\ session' = IF form.rdpChanged THEN host["rdp options"] ELSE session
  /\ form' = NoForm /\ rows' = NoRows /\ saved' = NotSaved /\ ghost' = NoGhost
  /\ UNCHANGED <<host, disks, power, cache, pending, overlay, behind, budget>>

----------------------------------------------------------------------------
(* Polls and other tools.                                                  *)

\* A poll; the dialog reads the cache when it opens, so polls beside an open
\* dialog are left out.
Poll ==
  /\ phase = "closed"
  /\ cache' = Snapshot
  /\ behind' = FALSE
  /\ UNCHANGED <<host, disks, power, phase, form, rows, pending, overlay, saved, session, ghost, budget>>

Disturb ==
  /\ budget.trouble > 0
  /\ budget' = [budget EXCEPT !.trouble = @ - 1]
  /\ behind' = TRUE
  /\ ghost' = [ghost EXCEPT !.disturbed = phase # "closed"]
  /\ UNCHANGED <<disks, cache, phase, form, rows, pending, overlay, saved, session>>

Foreign(f) ==
  /\ Disturb
  /\ host' = [host EXCEPT ![f] = IF f \in Toggles THEN OnOff(@ = "off") ELSE "other"]
  /\ UNCHANGED power

PowerChange(state) ==
  /\ Disturb
  /\ power # state /\ power' = state
  /\ UNCHANGED host

Next ==
  \/ Open \/ Cancel \/ Save \/ BeginSets \/ Set \/ EndSets \/ SaveEnds \/ Opener
  \/ \E f \in Edited : Change(f)
  \/ \E p \in Places : MarkDrive(p)
  \/ MarkAdapter \/ OnNetworkAddAdapter
  \/ OnStorageAttachVhd \/ OnStorageCreateVhd \/ OnStorageAttachPhysical \/ OnStorageAddDvdDrive
  \/ OnStorageAddScsiController \/ AddScsiEnds \/ RemoveScsiControllerByRef
  \/ \E c \in Scsi : OnRemoveScsiController(c)
  \/ Poll
  \/ \E f \in Shared : Foreign(f)
  \/ \E state \in {"Off", "Running", "Saved"} : PowerChange(state)

Spec == Init /\ [][Next]_vars

----------------------------------------------------------------------------

\* A dialog that Save closed, on a machine nobody else changed since the poll
\* the dialog read, has applied what the form showed at the click: every group
\* that differed, every queued device at its place, every removal but where a
\* queued device went, each new adapter once.  An emptied checkpoint location
\* is not applied, nor are adapters queued for a Save that failed first added
\* only once.  [OnPrimaryButtonClick]
ClosedMeansApplied ==
  phase = "saved" /\ ~ghost.disturbed /\ power = form.power =>
    /\ \A g \in saved.changed : \A f \in DOMAIN Given(g) : host[f] = Given(g)[f]
    /\ \A i \in DOMAIN saved.queue : LET q == saved.queue[i] IN
         q.at[2] >= 0 => disks.drives[q.at] = Device(q.do)
    /\ (\A i \in DOMAIN saved.queue : saved.queue[i].at[2] >= 0) =>
         \A p \in saved.marks \ {q.at : q \in ToSet(saved.queue)} : disks.drives[p] = "none"
    /\ ~ghost.retried => disks.nics = saved.nics

\* Save writes no group of settings in which the user touched nothing: not even
\* one whose value the form cannot show, but for a value it compares as it was
\* loaded.  Such a value it writes over, untouched: a virtual switch that is not
\* in the list, the line ends of notes, VLAN ids out of range, RDP options.
\* [diffs against the load-time values; m_origAdapterSwitches, m_origNotes]
UneditedKept ==
  [][\A f \in Fields : host'[f] # host[f] /\ budget'.trouble = budget.trouble =>
       \E g \in Groups : f \in Setters[g].writes \cup DOMAIN Given(g)
                         /\ Setters[g].writes \cap (ghost.touched \cup saved.unshown) # {}]_vars

\* Devices queued for places have different places, which are free on the
\* machine until Save.  [RefreshSlotFor, ConsumeQueuedSlot, RebuildStorageCards]
QueuedPlacesDistinct ==
  /\ \A i, j \in DOMAIN rows.queue :
       i # j /\ rows.queue[i].at[2] >= 0 => rows.queue[i].at # rows.queue[j].at
  /\ phase = "open" /\ ~ghost.retried =>
       \A i \in DOMAIN rows.queue : LET at == rows.queue[i].at IN
         at[2] >= 0 => disks.drives[at] = "none"

\* Once the dialog is gone the live session has the RDP options that are stored,
\* however the dialog ended.  [m_rdpOptionsChanged, ShowVmSettingsDialogCoro]
RdpChangeReconnects ==
  phase = "closed" => session = host["rdp options"]

\* A dialog opened after a Save shows what that Save wrote, also where it reads
\* the poll cache.  [KickPollAndWait before the dialog closes]
ReopenShowsSaved ==
  [][phase = "closed" /\ phase' = "open" /\ ~behind => form'.orig = host]_vars

=============================================================================
