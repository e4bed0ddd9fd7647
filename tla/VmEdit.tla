------------------------------- MODULE VmEdit -------------------------------
(***************************************************************************)
(* The edits VMManager makes to one virtual machine: creating and deleting  *)
(* it, its drives and media, its network adapters and their features, its   *)
(* security settings.  One edit is a sequence of WMI calls made on the UI   *)
(* thread.  Hyper-V answers a call at once (ReturnValue 0), refuses it, or  *)
(* starts a job (4096) that ends, or fails, by itself; a call may throw.    *)
(*                                                                          *)
(* A machine is a tree of things (the system, its controllers, the drives   *)
(* on them, the media in the drives, ...), each absent or with a value.     *)
(***************************************************************************)
EXTENDS Naturals, Sequences, FiniteSets

CONSTANTS
  Ide, Scsi,            \* the controllers a machine may have, by type
  IdeSlots, ScsiSlots,  \* drives per controller (2 and 64)
  Nics, Switches,       \* adapters a machine may have, the host's switches
  Vhds, Isos, Raw,      \* disk files, disc images, disks of the host
  Features,             \* the adapter features that are edited
  Kinds,                \* the edits the user makes
  MaxEdits, MaxFaults, MaxJobs  \* bounds of an instance

Absent == "absent"
AnyPlace == <<"auto", 0>>  \* no controller named: the edit chooses the place

AllKinds ==
  {"attach", "createDisk", "physical", "addDvd", "media", "detach", "removeDvd",
   "addScsi", "removeScsi", "addNic", "removeNic", "switch", "port", "feature",
   "tpm", "encrypt", "shield", "create", "destroy"}

ASSUME BoundsAssumption ==
  /\ {IdeSlots, ScsiSlots, MaxEdits, MaxFaults, MaxJobs} \subseteq Nat
  /\ Kinds \subseteq AllKinds
  /\ Features \subseteq {"vlan", "security", "bandwidth", "offload"}
  /\ Ide \cap Scsi = {} /\ Scsi # {} /\ Nics # {} /\ AnyPlace[1] \notin Ide \cup Scsi
  /\ Absent \notin Vhds \cup Isos \cup Raw \cup Switches
  /\ Vhds \cap (Raw \cup {"dvd"}) = {}

\* A disk file is called like nothing else a thing may hold.
ASSUME NamesAssumption ==
  Vhds \cap (Isos \cup Switches \cup {"present", "default", "set", "on", "off", "disk"}) = {}

\* A machine of generation 1 has IDE controllers, and any controller has room
\* for a disk and a DVD drive.
ASSUME RoomAssumption == Ide # {} /\ IdeSlots >= 2 /\ ScsiSlots >= 2

VARIABLES
  host,   \* what Hyper-V and the file system hold
  jobs,   \* jobs Hyper-V still runs
  call,   \* the edit the UI thread called, and what it is to achieve
  op,     \* the edit VMManager is making for it, and where it is
  plan,   \* edits CreateVM still has to make
  watch,  \* the watcher of a destroy job and the files it is to delete
  hit,    \* what went other than at once, by step of the current edit
  budget  \* edits left; faults and foreign changes left

vars == <<host, jobs, call, op, plan, watch, hit, budget>>

----------------------------------------------------------------------------
(* Things and their values.                                                *)

Slots(c) == 0 .. (IF c \in Scsi THEN ScsiSlots ELSE IdeSlots) - 1
Ctrls    == Ide \cup Scsi
Addrs    == UNION {{<<c, s>> : s \in Slots(c)} : c \in Ctrls}
Secrets  == {"tpm", "encrypt", "shield"}

VM            == <<"vm">>
Protector     == <<"protector">>
BootFirst     == <<"boot">>
Ctrl(c)       == <<"ctrl", c>>
Drive(at)     == <<"drive", at[1], at[2]>>
Medium(at)    == <<"medium", at[1], at[2]>>
Port(n)       == <<"port", n>>
Connection(n) == <<"connection", n>>
Feature(n, f) == <<"feature", n, f>>
Security(s)   == <<"security", s>>
Core(s)       == <<"core", s>>
File(f)       == <<"file", f>>

CoreThings == {Core("memory"), Core("processor")}
SecurityThings == {Security(s) : s \in Secrets}

Things ==
  {VM, Protector, BootFirst} \cup CoreThings \cup SecurityThings
    \cup {Ctrl(c) : c \in Ctrls}
    \cup {Drive(at) : at \in Addrs} \cup {Medium(at) : at \in Addrs}
    \cup {Port(n) : n \in Nics} \cup {Connection(n) : n \in Nics}
    \cup {File(f) : f \in Vhds}
    \cup {Feature(n, f) : n \in Nics, f \in Features}

Values ==
  {Absent, "present", "default", "set", "on", "off", "disk", "dvd"}
    \cup Vhds \cup Isos \cup Raw \cup Switches

\* What a thing is part of; the machine and the files are part of nothing.
Parent(t) ==
  CASE t[1] = "medium"     -> Drive(<<t[2], t[3]>>)
    [] t[1] = "drive"      -> Ctrl(t[2])
    [] t[1] = "feature"    -> Connection(t[2])
    [] t[1] = "connection" -> Port(t[2])
    [] t[1] \in {"vm", "file"} -> t
    [] OTHER               -> VM

Ancestors == [t \in Things |-> {Parent(t), Parent(Parent(t)), Parent(Parent(Parent(t)))}]

\* Removing a thing removes what is part of it.
Pruned(h) == [t \in Things |-> IF \E u \in Ancestors[t] : h[u] = Absent THEN Absent ELSE h[t]]

One(t, v)  == [x \in {t} |-> v]
All(ts, v) == [x \in ts |-> v]
Both(f, g) == [x \in DOMAIN f \cup DOMAIN g |-> IF x \in DOMAIN f THEN f[x] ELSE g[x]]

\* A request: AddResourceSettings and AddFeatureSettings add, Modify* modify
\* and Remove* remove.  Hyper-V validates it against the machine.
Request(verb, set) == [verb |-> verb, set |-> set]

Accepts(h, r) ==
  \A t \in DOMAIN r.set :
    /\ h[Parent(t)] # Absent \/ Parent(t) = t \/ Parent(t) \in DOMAIN r.set
    /\ (h[t] = Absent) <=> (r.verb = "add")
    /\ r.set[t] \in Vhds => h[File(r.set[t])] # Absent
    /\ r.verb = "remove" /\ t[1] = "ctrl" =>
         \A at \in Addrs : at[1] = t[2] => h[Drive(at)] = Absent

\* Without a key protector a change of security settings ends well and
\* changes nothing.
Applied(h, r) ==
  IF DOMAIN r.set \subseteq SecurityThings /\ h[Protector] = Absent
  THEN h
  ELSE Pruned([t \in Things |-> IF t \in DOMAIN r.set THEN r.set[t] ELSE h[t]])

----------------------------------------------------------------------------
(* The edit in progress.                                                   *)

\* goal: the things that have to have these values; drives: the places taken
\* when it began; gen, rest: the generation of the machine to create, and what
\* CreateVM does once it is defined.
NoCall == [kind |-> "none", goal |-> One(VM, Absent), drives |-> {}, gen |-> 1, rest |-> <<>>]

Op(step, at, thing, what) ==
  [step |-> step, at |-> at, thing |-> thing, what |-> what, ok |-> TRUE]

NoOp == Op("idle", AnyPlace, VM, Absent)

Steps ==
  {"idle", "resolve", "addDrive", "findDrive", "addVhd", "pollLink", "rollback",
   "createFile", "media", "removeMedium", "removeDrive", "addCtrl", "removeCtrl",
   "addPort", "findPort", "addConnection", "removeConnection", "removePort",
   "modify", "feature", "protect", "secure", "define", "mountFirst", "promote",
   "destroy", "returned"}

Some(S) == S \cup {Absent}

Ops == [step : Steps, at : Addrs \cup {AnyPlace}, thing : Things, what : Values, ok : BOOLEAN]

IsRequest(r) ==
  /\ r.verb \in {"add", "modify", "remove"}
  /\ DOMAIN r.set \subseteq Things
  /\ \A t \in DOMAIN r.set : r.set[t] \in Values

TypeOK ==
  /\ host \in [Things -> Values]
  /\ \A j \in jobs : IsRequest(j)
  /\ call.kind \in AllKinds \cup {"none"} /\ call.gen \in {1, 2} /\ call.rest \in Seq(Ops)
  /\ op \in Ops
  /\ plan \in Seq(Ops)
  /\ watch \in [state : {"none", "running", "clean"}, files : SUBSET Vhds]
  /\ budget \in [edits : 0 .. MaxEdits, faults : 0 .. MaxFaults]

\* A machine as DefineSystem makes it: generation 1 has IDE controllers,
\* generation 2 no controller at all.
Fresh(gen) ==
  [t \in {VM, BootFirst} \cup CoreThings \cup SecurityThings
           \cup (IF gen = 1 THEN {Ctrl(c) : c \in Ide} ELSE {}) |->
     CASE t = VM \/ t[1] = "ctrl" -> "present"
       [] t[1] = "security"       -> "off"
       [] OTHER                   -> "default"]

\* Machines the edits may meet, whatever made them so: generation and, on its
\* kind of controller, any filling of the drives; any state of an adapter.
Contents    == Some({"disk", "dvd"} \cup Raw \cup Vhds \cup Isos)
DriveFor(v) == IF v \in Vhds THEN "disk" ELSE IF v \in Isos THEN "dvd" ELSE v
Wiring(n) ==
  LET port  == One(Port(n), "present")
      wired == Both(port, One(Connection(n), "off"))
  IN  {port, wired} \cup {Both(wired, One(Feature(n, f), "on")) : f \in Features}

Stored(c, fill) ==
  [t \in {Ctrl(c)} \cup {Drive(<<c, s>>) : s \in Slots(c)}
                  \cup {Medium(<<c, s>>) : s \in Slots(c)} |->
     CASE t[1] = "ctrl"  -> "present"
       [] t[1] = "drive" -> DriveFor(fill[t[3]])
       [] OTHER          -> IF fill[t[3]] \in Vhds \cup Isos THEN fill[t[3]] ELSE Absent]

Machines ==
  {<<>>, Fresh(2), Both(Fresh(2), One(Protector, "present"))}
    \cup (UNION {{Both(Stored(c, fill), Fresh(IF c \in Ide THEN 1 ELSE 2)) :
                    fill \in [Slots(c) -> Contents]} : c \in Ctrls})
    \cup (UNION {{Both(Fresh(2), wire) : wire \in Wiring(n)} : n \in Nics})

Init ==
  /\ \E onDisk \in SUBSET Vhds, made \in Machines :
       /\ \A t \in DOMAIN made : made[t] \in Vhds => made[t] \in onDisk
       /\ host = [t \in Things |-> IF t \in {File(f) : f \in onDisk} THEN "present"
                                   ELSE IF t \in DOMAIN made THEN made[t] ELSE Absent]
  /\ jobs = {}
  /\ call = NoCall
  /\ op = NoOp
  /\ plan = <<>>
  /\ watch = [state |-> "none", files |-> {}]
  /\ hit = {}
  /\ budget = [edits |-> MaxEdits, faults |-> MaxFaults]

Goto(step) == op' = [op EXCEPT !.step = step] /\ plan' = plan

\* The edit returns.  CreateVM logs a failure, goes on with its plan, and
\* returns the GUID of the machine once that was defined.
Finish(ok) ==
  IF plan = <<>>
  THEN /\ op' = [op EXCEPT !.step = "returned",
                           !.ok = ok \/ (call.kind = "create" /\ op.step # "define")]
       /\ plan' = plan
  ELSE op' = Head(plan) /\ plan' = Tail(plan)

\* CreateVM undoes nothing: where something went wrong does not matter to it.
Note(what) ==
  hit' = hit \cup {<<IF call.kind = "create" THEN "define" ELSE op.step, what>>}
Spend == budget.faults > 0 /\ budget' = [budget EXCEPT !.faults = @ - 1]

\* The wait for a job.  The methods hand their Job out as a reference, a path
\* string; the edits read it with GetObject, which takes an object only, and
\* so wait for an empty job: not at all, and with success.
JobIsRead == FALSE

WaitForJob(r, good) ==
  IF JobIsRead
  THEN host' = Applied(host, r) /\ UNCHANGED <<jobs, hit>> /\ good
  ELSE jobs' = jobs \cup {r} /\ Note("started") /\ UNCHANGED host /\ good

\* One WMI call: applied at once, or a job is started, or it is refused, by
\* the state of the machine or for reasons of Hyper-V's own, or it throws.
Invoke(r, good, bad) ==
  /\ \/ Accepts(host, r) /\ host' = Applied(host, r) /\ UNCHANGED <<jobs, hit, budget>> /\ good
     \/ /\ Accepts(host, r) /\ Cardinality(jobs) < MaxJobs
        /\ UNCHANGED budget /\ WaitForJob(r, good)
     \/ ~Accepts(host, r) /\ Note("refused") /\ UNCHANGED <<host, jobs, budget>> /\ bad
     \/ Spend /\ Note("failed") /\ UNCHANGED <<host, jobs>> /\ bad
     \/ Spend /\ Note("threw") /\ UNCHANGED <<host, jobs>> /\ Finish(FALSE)
  /\ UNCHANGED <<call, watch>>

Add(t, v)    == Request("add", One(t, v))
Modify(t, v) == Request("modify", One(t, v))
Remove(t)    == Request("remove", One(t, Absent))

At(step) == op.step = step

\* What a step leaves alone that only looks.
Quiet == UNCHANGED <<host, jobs, call, watch, hit, budget>>

----------------------------------------------------------------------------
(* Drives and media.                                                       *)

\* Mutation: as many places are taken as drives are there, from the first on.
FreePlacesByCount(c) == {<<c, Cardinality({s \in Slots(c) : host[Drive(<<c, s>>)] # Absent})>>}

\* The lowest free place of a controller.
FreePlaces(c) ==
  {<<c, s>> : s \in {s \in Slots(c) :
     /\ host[Drive(<<c, s>>)] = Absent
     /\ \A u \in 0 .. s - 1 : host[Drive(<<c, u>>)] # Absent}}

\* SCSI controllers are preferred where the caller names none.
ResolveStorageTarget ==
  LET Present(C) == {c \in C : host[Ctrl(c)] # Absent}
      pick == IF Present(Scsi) # {} THEN Present(Scsi) ELSE Present(Ide)
  IN  IF op.at # AnyPlace
      THEN IF host[Ctrl(op.at[1])] # Absent THEN {op.at} ELSE {}
      ELSE IF pick = {} THEN {} ELSE FreePlaces(CHOOSE c \in pick : TRUE)

Resolve ==
  /\ At("resolve") /\ Quiet
  /\ \/ \E at \in ResolveStorageTarget :
          op' = [op EXCEPT !.step = "addDrive", !.at = at] /\ plan' = plan
     \/ ResolveStorageTarget = {} /\ Finish(FALSE)

\* AttachVhd step 1.
AddDiskDrive ==
  /\ At("addDrive") /\ op.what \in Vhds
  /\ Invoke(Add(Drive(op.at), "disk"), Goto("findDrive"), Finish(FALSE))

AddDvdDrive ==
  /\ At("addDrive") /\ op.what = "dvd"
  /\ Invoke(Add(Drive(op.at), "dvd"), Finish(TRUE), Finish(FALSE))

AttachPhysicalDisk ==
  /\ At("addDrive") /\ op.what \in Raw
  /\ Invoke(Add(Drive(op.at), op.what), Finish(TRUE), Finish(FALSE))

\* AttachVhd step 2: the new drive is looked for by its place, twice.
FindDrive ==
  /\ At("findDrive") /\ Quiet
  /\ IF host[Drive(op.at)] = "disk" THEN Goto("addVhd") ELSE Finish(FALSE)

\* Mutation: a refused disk ends the edit and its new drive stays.
AddVhdWithoutUndo ==
  /\ At("addVhd")
  /\ Invoke(Add(Medium(op.at), op.what), Goto("pollLink"), Finish(FALSE))

AddVhd ==
  /\ At("addVhd")
  /\ Invoke(Add(Medium(op.at), op.what), Goto("pollLink"), Goto("rollback"))

\* Up to 3 s; a job may end meanwhile.
PollLink ==
  /\ At("pollLink") /\ Quiet
  /\ IF host[Medium(op.at)] # Absent THEN Finish(TRUE) ELSE Goto("rollback")

\* The outcome of the removal is not looked at.
Rollback ==
  /\ At("rollback")
  /\ Invoke(Remove(Drive(op.at)), Finish(FALSE), Finish(FALSE))

CreateFile ==
  /\ At("createFile")
  /\ Invoke(Add(File(op.what), "present"), Goto("resolve"), Finish(FALSE))

\* SetDvdMedia ejects, changes or mounts by the media reference it was given:
\* op.thing is the drive's medium if there is one, the machine otherwise.
SetDvdMedia ==
  LET hasMedia == op.thing = Medium(op.at)
  IN  /\ At("media")
      /\ \/ hasMedia /\ op.what = Absent
            /\ Invoke(Remove(Medium(op.at)), Finish(TRUE), Finish(FALSE))
         \/ hasMedia /\ op.what # Absent
            /\ Invoke(Modify(Medium(op.at), op.what), Finish(TRUE), Finish(FALSE))
         \/ ~hasMedia /\ op.what # Absent
            /\ Invoke(Add(Medium(op.at), op.what), Finish(TRUE), Finish(FALSE))
         \/ ~hasMedia /\ op.what = Absent /\ Quiet /\ Finish(TRUE)

\* DetachVhd and RemoveDvdDrive: the medium, if the caller knows one, and
\* then the drive, whatever became of the medium.
Afterwards(step, ok) == op' = [op EXCEPT !.step = step, !.ok = ok] /\ plan' = plan

RemoveMedium ==
  /\ At("removeMedium")
  /\ IF op.thing = Medium(op.at)
     THEN Invoke(Remove(Medium(op.at)), Goto("removeDrive"), Afterwards("removeDrive", FALSE))
     ELSE Quiet /\ Goto("removeDrive")

RemoveDrive ==
  /\ At("removeDrive")
  /\ Invoke(Remove(Drive(op.at)), Finish(op.ok), Finish(FALSE))

AddScsiController ==
  /\ At("addCtrl")
  /\ Invoke(Add(op.thing, "present"), Finish(TRUE), Finish(FALSE))

RemoveScsiController ==
  /\ At("removeCtrl")
  /\ Invoke(Remove(op.thing), Finish(TRUE), Finish(FALSE))

----------------------------------------------------------------------------
(* Network adapters.  op.thing names the adapter's port, connection or      *)
(* feature.                                                                 *)

Nic == op.thing[2]

AddPort ==
  /\ At("addPort")
  /\ Invoke(Add(Port(Nic), "present"), Goto("findPort"), Finish(FALSE))

\* The new port is looked for by its fresh identifier.
FindPort ==
  /\ At("findPort") /\ Quiet
  /\ IF host[Port(Nic)] # Absent THEN Goto("addConnection") ELSE Finish(FALSE)

AddConnection ==
  /\ At("addConnection")
  /\ Invoke(Add(Connection(Nic), op.what), Finish(TRUE), Finish(FALSE))

RemoveConnection ==
  /\ At("removeConnection")
  /\ \/ host[Port(Nic)] = Absent /\ Quiet /\ Finish(FALSE)
     \/ host[Port(Nic)] # Absent /\ host[Connection(Nic)] = Absent
          /\ Quiet /\ Goto("removePort")
     \/ host[Port(Nic)] # Absent /\ host[Connection(Nic)] # Absent
          /\ Invoke(Remove(Connection(Nic)), Goto("removePort"),
                    Afterwards("removePort", FALSE))

RemovePort ==
  /\ At("removePort")
  /\ Invoke(Remove(Port(Nic)), Finish(op.ok), Finish(FALSE))

\* Setters that read one object, change it and write it back.
ModifyOne(t) ==
  /\ At("modify") /\ op.thing = t
  /\ Invoke(Modify(t, op.what), Finish(TRUE), Finish(FALSE))

SetNetworkAdapterSwitch == \E n \in Nics : ModifyOne(Connection(n))

\* The address, naming and protection of an adapter are values of its port.
SetNetworkAdapterPort   == \E n \in Nics : ModifyOne(Port(n))
SetMemoryConfig         == ModifyOne(Core("memory"))
SetProcessorConfig      == ModifyOne(Core("processor"))

\* A feature of the connection is modified where it is set, else added from
\* its template.
ModifyOrAdd(f) ==
  /\ At("feature") /\ op.thing[3] = f /\ op.what # Absent
  /\ Invoke(Request(IF host[op.thing] = Absent THEN "add" ELSE "modify", One(op.thing, op.what)),
            Finish(TRUE), Finish(FALSE))

SetNetworkAdapterAdvanced  == ModifyOrAdd("security")
SetNetworkAdapterBandwidth == ModifyOrAdd("bandwidth")
SetNetworkAdapterOffload   == ModifyOrAdd("offload")

\* Untagging takes the feature away.
SetNetworkAdapterVlan ==
  \/ ModifyOrAdd("vlan")
  \/ /\ At("feature") /\ op.what = Absent
     /\ IF host[op.thing] = Absent THEN Quiet /\ Finish(TRUE)
        ELSE Invoke(Remove(op.thing), Finish(TRUE), Finish(FALSE))

----------------------------------------------------------------------------
(* Security.                                                               *)

\* Mutation: the placeholder GetKeyProtector returns counts as a protector.
TrustPlaceholder ==
  /\ At("protect") /\ Quiet
  /\ Goto("secure")

\* Turning a setting on needs a key protector; one is made and set first.
EnsureKeyProtector ==
  /\ At("protect")
  /\ IF op.what = "on" /\ host[Protector] = Absent
     THEN Invoke(Add(Protector, "present"), Goto("secure"), Finish(FALSE))
     ELSE Quiet /\ Goto("secure")

\* Shielding takes the TPM and the encryption with it; lifting it does not.
SecuritySet(t, v) ==
  IF t = Security("shield") /\ v = "on" THEN All(SecurityThings, "on") ELSE One(t, v)

ModifySecuritySettings(s) ==
  /\ At("secure") /\ op.thing = Security(s)
  /\ Invoke(Request("modify", SecuritySet(op.thing, op.what)), Finish(TRUE), Finish(FALSE))

SetVmTpm             == ModifySecuritySettings("tpm")
SetVmStateEncryption == ModifySecuritySettings("encrypt")
SetVmShielded        == ModifySecuritySettings("shield")

----------------------------------------------------------------------------
(* Creating and deleting the machine.                                      *)

\* DefineSystem names the new machine unless a job is still making it, when
\* it may not: CreateVM then returns no GUID.
DefineSystem ==
  /\ At("define")
  /\ Invoke(Request("add", Fresh(call.gen)),
            \/ op' = Head(call.rest) /\ plan' = Tail(call.rest)
            \/ hit' # hit /\ Finish(FALSE),
            Finish(FALSE))

\* What the wizard asks for.
Choices ==
  [gen : {1, 2}, file : Some(Vhds), isNew : BOOLEAN, switch : Some(Switches), iso : Some(Isos)]

CoreOps ==
  <<Op("modify", AnyPlace, Core("memory"), "set"),
    Op("modify", AnyPlace, Core("processor"), "set")>>

\* Generation 2 comes without a controller: storage needs one first.
ControllerOps(c) ==
  IF c.gen = 2 THEN <<Op("addCtrl", AnyPlace, Ctrl(CHOOSE x \in Scsi : TRUE), "present")>> ELSE <<>>

DiskOps(c) ==
  IF c.file = Absent THEN <<>>
  ELSE <<Op(IF c.isNew THEN "createFile" ELSE "resolve", AnyPlace, VM, c.file)>>

NetworkOps(c) ==
  IF c.switch = Absent THEN <<>>
  ELSE <<Op("addPort", AnyPlace, Port(CHOOSE n \in Nics : TRUE), c.switch)>>

MediaOps(c) ==
  IF c.iso = Absent THEN <<>>
  ELSE <<Op("resolve", AnyPlace, VM, "dvd"), Op("mountFirst", AnyPlace, VM, c.iso)>>

\* Mutation: the disk comes before the controller it goes on.
CreatePlanDiskFirst(c) ==
  CoreOps \o DiskOps(c) \o ControllerOps(c) \o NetworkOps(c) \o MediaOps(c)

\* What CreateVM does once the machine is defined, in its order.
CreatePlan(c) == CoreOps \o ControllerOps(c) \o DiskOps(c) \o NetworkOps(c) \o MediaOps(c)

\* The first DVD drive found takes the image; none found, CreateVM is done.
MountFirst ==
  LET dvds == {at \in Addrs : host[Drive(at)] = "dvd"}
      Promote(at) == op' = [op EXCEPT !.step = "promote", !.at = at] /\ plan' = plan
  IN  /\ At("mountFirst")
      /\ \/ dvds = {} /\ Quiet /\ Finish(TRUE)
         \/ \E at \in dvds :
              Invoke(Request(IF host[Medium(at)] = Absent THEN "add" ELSE "modify",
                             One(Medium(at), op.what)),
                     Promote(at), Finish(FALSE))

\* Devices a machine of generation 2 boots from, in the order they came; the
\* order of generation 1 has the CD first from the start.
Bootable == {t \in {Drive(at) : at \in Addrs} \cup {Port(n) : n \in Nics} : host[t] # Absent}
IsGen1   == \E c \in Ide : host[Ctrl(c)] # Absent

PromoteDvdToBootFront ==
  /\ At("promote")
  /\ IF IsGen1 \/ Cardinality(Bootable) < 2
     THEN Quiet /\ Finish(TRUE)
     ELSE Invoke(Modify(BootFirst, "on"), Finish(TRUE), Finish(FALSE))

\* The disk files of the machine, read while it is still there.
DiskFiles == {f \in Vhds : \E at \in Addrs : host[Drive(at)] = "disk" /\ host[Medium(at)] = f}

Without(h, files) == [t \in Things |-> IF t \in {File(f) : f \in files} THEN Absent ELSE h[t]]

\* Mutation: the files are deleted when the call returns, job or not.
DestroyVMDeletesFirst ==
  /\ At("destroy") /\ watch.state = "none" /\ host[VM] # Absent
  /\ host' = Without(host, DiskFiles)
  /\ watch' = [state |-> "running", files |-> {}]
  /\ Finish(TRUE) /\ UNCHANGED <<jobs, call, hit, budget>>

\* DestroyVM reads its job as a path, and has it watched.
DestroyVM ==
  LET files == IF op.what = "on" THEN DiskFiles ELSE {}
  IN  /\ At("destroy")
      /\ UNCHANGED <<jobs, call>>
      /\ \/ /\ Accepts(host, Remove(VM))
            /\ host' = Without(Applied(host, Remove(VM)), files)
            /\ Finish(TRUE) /\ UNCHANGED <<watch, hit, budget>>
         \/ /\ Accepts(host, Remove(VM)) /\ watch.state = "none"
            /\ watch' = [state |-> "running", files |-> files]
            /\ Finish(TRUE) /\ UNCHANGED <<host, hit, budget>>
         \/ ~Accepts(host, Remove(VM)) /\ Finish(FALSE) /\ Quiet
         \/ Spend /\ Note("failed") /\ Finish(FALSE) /\ UNCHANGED <<host, watch>>

\* The destroy job ends; a failure is shown and the files stay.
DestroyEnds ==
  /\ watch.state = "running"
  /\ \/ host' = Applied(host, Remove(VM)) /\ watch' = [watch EXCEPT !.state = "clean"]
     \/ host' = host /\ watch' = [state |-> "none", files |-> {}]
  /\ UNCHANGED <<jobs, call, op, plan, hit, budget>>

DeleteVhdFilesBestEffort ==
  /\ watch.state = "clean"
  /\ \E deleted \in SUBSET watch.files : host' = Without(host, deleted)
  /\ watch' = [state |-> "none", files |-> {}]
  /\ UNCHANGED <<jobs, call, op, plan, hit, budget>>

----------------------------------------------------------------------------
(* The callers: the settings dialog, the wizard, the tile's menu.          *)

\* To this edit, what an earlier one left to Hyper-V, a job or a machine being
\* deleted, is a change by others.
BeginAs(kind, first, goal, gen, rest) ==
  /\ op.step = "idle" /\ kind \in Kinds
  /\ budget.edits > 0 /\ budget' = [budget EXCEPT !.edits = @ - 1]
  /\ (host[VM] = Absent) <=> (kind = "create")
  /\ call' = [kind |-> kind, goal |-> goal, gen |-> gen, rest |-> rest,
              drives |-> {at \in Addrs : host[Drive(at)] # Absent}]
  /\ op' = first
  /\ hit' = IF jobs = {} /\ watch.state = "none" THEN {} ELSE {<<"idle", "foreign">>}
  /\ UNCHANGED <<host, jobs, plan, watch>>

Begin(kind, first, goal) == BeginAs(kind, first, goal, 1, <<>>)

\* The dialog names the place and what it saw there when it was loaded.
Seen(at) == {VM, Medium(at)}

BeginStorage ==
  \E at \in Addrs :
    \/ \E f \in Vhds :
         \/ Begin("attach", Op("resolve", at, VM, f), One(Medium(at), f))
         \/ Begin("createDisk", Op("createFile", at, VM, f), One(Medium(at), f))
    \/ \E d \in Raw : Begin("physical", Op("resolve", at, VM, d), One(Drive(at), d))
    \/ Begin("addDvd", Op("resolve", at, VM, "dvd"), One(Drive(at), "dvd"))
    \/ \E seen \in Seen(at), iso \in Some(Isos) :
         /\ host[Drive(at)] = "dvd" /\ (iso = Absent => seen # VM)
         /\ Begin("media", Op("media", at, seen, iso), One(Medium(at), iso))
    \/ \E seen \in Seen(at), kind \in {"detach", "removeDvd"} :
         /\ host[Drive(at)] # Absent /\ (host[Drive(at)] = "dvd" <=> kind = "removeDvd")
         /\ Begin(kind, Op("removeMedium", at, seen, Absent), One(Drive(at), Absent))

BeginScsi ==
  \E c \in Scsi :
    \/ /\ host[Ctrl(c)] = Absent /\ \A j \in jobs : Ctrl(c) \notin DOMAIN j.set
       /\ Begin("addScsi", Op("addCtrl", AnyPlace, Ctrl(c), "present"),
                One(Ctrl(c), "present"))
    \/ Begin("removeScsi", Op("removeCtrl", AnyPlace, Ctrl(c), Absent), One(Ctrl(c), Absent))

\* A new adapter has an identifier of its own.
Unused(n) == host[Port(n)] = Absent /\ \A j \in jobs : Port(n) \notin DOMAIN j.set

BeginNetwork ==
  \E n \in Nics :
    \/ /\ Unused(n)
       /\ \E s \in Switches \cup {"off"} :
            Begin("addNic", Op("addPort", AnyPlace, Port(n), s), One(Connection(n), s))
    \/ /\ host[Port(n)] # Absent
       /\ \/ Begin("removeNic", Op("removeConnection", AnyPlace, Port(n), Absent),
                   One(Port(n), Absent))
          \/ \E s \in Switches \cup {"off"} :
               Begin("switch", Op("modify", AnyPlace, Connection(n), s), One(Connection(n), s))
          \/ Begin("port", Op("modify", AnyPlace, Port(n), "set"), One(Port(n), "set"))
          \/ \E f \in Features, v \in {Absent, "on", "off"} :
               (v = Absent => f = "vlan") /\
               Begin("feature", Op("feature", AnyPlace, Feature(n, f), v),
                     One(Feature(n, f), v))

BeginSecurity ==
  \E s \in Secrets, v \in {"on", "off"} :
    Begin(s, Op("protect", AnyPlace, Security(s), v), SecuritySet(Security(s), v))

\* The wizard refuses a new disk whose file exists and an old one whose file
\* does not.
Validated(c) ==
  IF c.file = Absent THEN ~c.isNew ELSE c.isNew <=> host[File(c.file)] = Absent

\* A machine is created where there is none, nor one being deleted.
BeginCreate ==
  \E c \in Choices :
    /\ Validated(c) /\ watch.state = "none" /\ jobs = {}
    /\ BeginAs("create", Op("define", AnyPlace, VM, Absent), One(VM, "present"),
               c.gen, CreatePlan(c))

BeginDestroy ==
  \E v \in {"on", "off"} :
    Begin("destroy", Op("destroy", AnyPlace, VM, v), All({}, Absent))

Return ==
  /\ At("returned")
  /\ op' = NoOp /\ call' = NoCall /\ hit' = {}
  /\ UNCHANGED <<host, jobs, plan, watch, budget>>

----------------------------------------------------------------------------
(* Hyper-V and other tools.                                                *)

JobEnds ==
  \E j \in jobs :
    /\ jobs' = jobs \ {j}
    /\ \/ Accepts(host, j) /\ host' = Applied(host, j) /\ UNCHANGED budget
       \/ ~Accepts(host, j) /\ UNCHANGED <<host, budget>>
       \/ Spend /\ UNCHANGED host
    /\ UNCHANGED <<call, op, plan, watch, hit>>

\* While an edit runs; machines changed before it are among those of Init.
Foreign ==
  /\ ~At("idle")
  /\ Spend
  /\ Note("foreign")
  /\ \E at \in Addrs, n \in Nics, s \in Switches :
       \E r \in {Add(Drive(at), "disk"), Remove(Drive(at)), Remove(Medium(at)),
                 Remove(Ctrl(at[1])), Remove(Port(n)), Modify(Connection(n), s)} :
         Accepts(host, r) /\ host' = Applied(host, r)
  /\ UNCHANGED <<jobs, call, op, plan, watch>>

Step ==
  \/ Resolve \/ AddDiskDrive \/ AddDvdDrive \/ AttachPhysicalDisk
  \/ FindDrive \/ AddVhd \/ PollLink \/ Rollback \/ CreateFile
  \/ SetDvdMedia \/ RemoveMedium \/ RemoveDrive \/ AddScsiController \/ RemoveScsiController
  \/ AddPort \/ FindPort \/ AddConnection \/ RemoveConnection \/ RemovePort
  \/ SetNetworkAdapterSwitch \/ SetNetworkAdapterPort \/ SetNetworkAdapterAdvanced
  \/ SetNetworkAdapterBandwidth \/ SetNetworkAdapterOffload \/ SetNetworkAdapterVlan
  \/ SetMemoryConfig \/ SetProcessorConfig
  \/ EnsureKeyProtector \/ SetVmTpm \/ SetVmStateEncryption \/ SetVmShielded
  \/ DefineSystem \/ MountFirst \/ PromoteDvdToBootFront \/ DestroyVM \/ Return

Next ==
  \/ BeginStorage \/ BeginScsi \/ BeginNetwork \/ BeginSecurity \/ BeginCreate \/ BeginDestroy
  \/ Step
  \/ DestroyEnds \/ DeleteVhdFilesBestEffort
  \/ JobEnds \/ Foreign

Spec == Init /\ [][Next]_vars

----------------------------------------------------------------------------
(* Properties.                                                             *)

Returned == op.step = "returned"
Holds    == \A t \in DOMAIN call.goal : host[t] = call.goal[t]
Marks    == {m[2] : m \in hit}

\* An edit that reports success has been applied: WaitForJob is there so that
\* no edit reports a success which does not stick.
TrueIsApplied == Returned /\ op.ok => Holds

\* When every call of an edit was answered at once and nothing else changed
\* the machine, an edit that reports success has been applied: no refusal in
\* the middle of it is lost.
PromptTrueIsApplied ==
  Returned /\ op.ok /\ Marks \cap {"started", "foreign"} = {} => Holds

\* AttachVhd and CreateAndAttachVhd attach the disk or leave no drive behind.
\* They report success only with the disk in its drive, however late, or never,
\* Hyper-V links it: the job is not waited for, the link is.  They leave no empty
\* drive when Hyper-V refuses the disk, or it does not come up in the drive.
AttachIsAllOrNothing ==
  Returned /\ call.kind \in {"attach", "createDisk"} =>
    /\ op.ok /\ "foreign" \notin Marks => Holds
    /\ ~op.ok /\ hit \subseteq {<<"addDrive", "refused">>, <<"addDrive", "failed">>,
                               <<"addVhd", "refused">>, <<"addVhd", "failed">>,
                               <<"addVhd", "started">>}
       => {at \in Addrs : host[Drive(at)] # Absent} \subseteq call.drives

\* What a step of CreateVM was to do has been done.
Carried(o) ==
  CASE o.step \in {"modify", "addCtrl"} -> host[o.thing] = o.what
    [] o.what \in Vhds   -> \E at \in Addrs : host[Drive(at)] = "disk" /\ host[Medium(at)] = o.what
    [] o.step = "addPort"    -> host[Connection(o.thing[2])] = o.what
    [] o.step = "mountFirst" -> /\ \E at \in Addrs : host[Medium(at)] = o.what
                                /\ IsGen1 \/ Cardinality(Bootable) < 2 \/ host[BootFirst] = "on"
    [] OTHER -> TRUE

\* A machine whose creation met no fault has everything the wizard was told,
\* and boots from its installation image.
CreatedIsComplete ==
  /\ Returned /\ call.kind = "create"
  /\ Marks \cap {"started", "foreign", "failed", "threw"} = {}
  => op.ok /\ \A i \in DOMAIN call.rest : Carried(call.rest[i])

\* A disk file is deleted only once no machine uses it.
FilesOutliveVm ==
  \A at \in Addrs : host[Medium(at)] \in Vhds => host[File(host[Medium(at)])] # Absent

=============================================================================
