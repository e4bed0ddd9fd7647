---------------------------- MODULE VmEdit_proofs ----------------------------
(***************************************************************************)
(* For any controllers, slots, adapters, files and features, whatever       *)
(* Hyper-V refuses, delays or fails: every edit keeps the machine, the       *)
(* edit and the requests of its kind (EditTypeCorrect); a disk file is       *)
(* deleted only once no machine uses it (DiskFilesOutliveVm); attaching a    *)
(* disk succeeds with the disk in its drive or takes its drive back          *)
(* (AttachesAllOrNothing); an edit that was answered at once and reports     *)
(* success has been applied (PromptSuccessIsApplied); a machine created      *)
(* without a fault has all that was asked for (CreationsComplete).           *)
(***************************************************************************)
EXTENDS VmEdit, SequenceTheorems, TLAPS

\* Steps that name their thing name one of the right kind.
Shaped(o) ==
  /\ o.step = "feature" => o.thing[1] = "feature"
  /\ o.step \in {"addCtrl", "removeCtrl"} => o.thing[1] = "ctrl"

GoodOps == {o \in Ops : Shaped(o)}

\* What CreateVM does once the machine is defined.
Planned == {o \in GoodOps : o.step # "define"}

\* A request that makes or removes the machine.
Makes(r) == VM \in DOMAIN r.set

\* A request, other than the destroy job's, makes machines and files, and
\* removes neither.
SoundRequest(r) ==
  /\ Makes(r) => r.verb = "add"
  /\ \A f \in Vhds : File(f) \in DOMAIN r.set => r.set[File(f)] = "present"

NoMachine == \A t \in Things : t[1] # "file" => host[t] = Absent

OpInv ==
  /\ op \in GoodOps
  /\ plan \in Seq(Planned)
  /\ call.rest \in Seq(Planned)
  /\ op.step = "define" => call.rest # <<>> /\ watch.state = "none"

\* At most one job is making a machine; there is none then, nor is one deleted.
JobInv ==
  /\ \A j \in jobs : SoundRequest(j)
  /\ \A j \in jobs : Makes(j) =>
       host[VM] = Absent /\ op.step # "define" /\ watch.state = "none"
  /\ \A j, k \in jobs : Makes(j) /\ Makes(k) => j = k

\* The files of a machine go after everything of it.
CleanInv == watch.state = "clean" => NoMachine

EditInv == FilesOutliveVm /\ OpInv /\ JobInv /\ CleanInv

----------------------------------------------------------------------------
(* The tree of things.                                                     *)

LEMMA ThingsAre ==
  /\ VM \in Things /\ Protector \in Things /\ BootFirst \in Things
  /\ CoreThings \subseteq Things /\ SecurityThings \subseteq Things
  /\ \A c \in Ctrls : Ctrl(c) \in Things
  /\ \A at \in Addrs : Drive(at) \in Things /\ Medium(at) \in Things
  /\ \A n \in Nics : Port(n) \in Things /\ Connection(n) \in Things
  /\ \A n \in Nics, f \in Features : Feature(n, f) \in Things
  /\ \A f \in Vhds : File(f) \in Things
BY DEF Things

LEMMA AddrsArePairs == \A at \in Addrs : at = <<at[1], at[2]>> /\ at[1] \in Ctrls
BY DEF Addrs

\* What a thing is.
LEMMA ThingKinds ==
  ASSUME NEW t \in Things
  PROVE  \/ t \in {VM, Protector, BootFirst} \cup CoreThings \cup SecurityThings
         \/ \E c \in Ctrls : t = Ctrl(c)
         \/ \E at \in Addrs : t = Drive(at) \/ t = Medium(at)
         \/ \E n \in Nics : t = Port(n) \/ t = Connection(n)
         \/ \E n \in Nics, f \in Features : t = Feature(n, f)
         \/ \E f \in Vhds : t = File(f)
BY DEF Things

LEMMA ParentOfTop ==
  /\ Parent(VM) = VM /\ Parent(Protector) = VM /\ Parent(BootFirst) = VM
  /\ \A t \in CoreThings \cup SecurityThings : Parent(t) = VM
  /\ \A f : Parent(File(f)) = File(f)
  /\ \A c : Parent(Ctrl(c)) = VM
  /\ \A n : Parent(Port(n)) = VM
  /\ \A n : Parent(Connection(n)) = Port(n)
  /\ \A n, f : Parent(Feature(n, f)) = Connection(n)
BY DEF Parent, VM, Protector, BootFirst, CoreThings, SecurityThings, Core, Security, File, Ctrl,
       Port, Connection, Feature

LEMMA ParentOfStorage ==
  ASSUME NEW at \in Addrs
  PROVE  Parent(Drive(at)) = Ctrl(at[1]) /\ Parent(Medium(at)) = Drive(at)
BY AddrsArePairs DEF Parent, Drive, Medium, Ctrl

LEMMA NotFiles ==
  /\ VM[1] # "file"
  /\ \A c : Ctrl(c)[1] # "file"
  /\ \A at : Drive(at)[1] # "file" /\ Medium(at)[1] # "file"
  /\ \A f : File(f)[1] = "file"
BY DEF VM, Ctrl, Drive, Medium, File

\* The machine is above all that is not a file; files have nothing above them.
LEMMA MachineAbove ==
  ASSUME NEW t \in Things, t[1] # "file"
  PROVE  VM \in Ancestors[t]
<1>1. Ancestors[t] = {Parent(t), Parent(Parent(t)), Parent(Parent(Parent(t)))}
  BY DEF Ancestors
<1>2. CASE t \in {VM, Protector, BootFirst} \cup CoreThings \cup SecurityThings
  BY <1>1, <1>2, ParentOfTop
<1>3. CASE \E c \in Ctrls : t = Ctrl(c)
  BY <1>1, <1>3, ParentOfTop
<1>4. CASE \E at \in Addrs : t = Drive(at) \/ t = Medium(at)
  BY <1>1, <1>4, ParentOfTop, ParentOfStorage
<1>5. CASE \E n \in Nics : t = Port(n) \/ t = Connection(n)
  BY <1>1, <1>5, ParentOfTop
<1>6. CASE \E n \in Nics, f \in Features : t = Feature(n, f)
  BY <1>1, <1>6, ParentOfTop
<1> QED
  BY <1>2, <1>3, <1>4, <1>5, <1>6, ThingKinds, NotFiles

LEMMA FileAlone == \A f \in Vhds : Ancestors[File(f)] = {File(f)}
BY ThingsAre, ParentOfTop DEF Ancestors

----------------------------------------------------------------------------
(* What a request does.                                                    *)

LEMMA PrunedKeeps ==
  ASSUME NEW h, NEW t \in Things
  PROVE  /\ Pruned(h)[t] \in {Absent, h[t]}
         /\ (\A u \in Ancestors[t] : h[u] # Absent) => Pruned(h)[t] = h[t]
         /\ (\E u \in Ancestors[t] : h[u] = Absent) => Pruned(h)[t] = Absent
BY DEF Pruned

\* An accepted request keeps the files of every disk that is used.
LEMMA AppliedKeepsFiles ==
  ASSUME NEW h, NEW r, Accepts(h, r), SoundRequest(r),
         \A at \in Addrs : h[Medium(at)] \in Vhds => h[File(h[Medium(at)])] # Absent,
         NEW at \in Addrs, Applied(h, r)[Medium(at)] \in Vhds
  PROVE  Applied(h, r)[File(Applied(h, r)[Medium(at)])] # Absent
<1> DEFINE g == [t \in Things |-> IF t \in DOMAIN r.set THEN r.set[t] ELSE h[t]]
<1>1. CASE Applied(h, r) = h
  BY <1>1
<1>2. CASE Applied(h, r) = Pruned(g)
  <2> DEFINE f == Pruned(g)[Medium(at)]
  <2>1. f \in Vhds
    BY <1>2
  <2>2. f = g[Medium(at)]
    BY <2>1, PrunedKeeps, ThingsAre, BoundsAssumption
  <2>3. h[File(f)] # Absent
    <3>1. CASE Medium(at) \in DOMAIN r.set
      BY <2>1, <2>2, <3>1, ThingsAre DEF Accepts
    <3>2. CASE Medium(at) \notin DOMAIN r.set
      BY <2>1, <2>2, <3>2, ThingsAre
    <3> QED
      BY <3>1, <3>2
  <2>4. g[File(f)] # Absent
    <3>1. File(f) \in Things
      BY <2>1, ThingsAre
    <3>2. File(f) \in DOMAIN r.set => r.set[File(f)] = "present"
      BY <2>1 DEF SoundRequest
    <3> QED
      BY <2>3, <3>1, <3>2 DEF Absent
  <2> HIDE DEF f, g
  <2>5. Ancestors[File(f)] = {File(f)} /\ File(f) \in Things
    BY <2>1, FileAlone, ThingsAre
  <2>6. Pruned(g)[File(f)] # Absent
    BY <2>4, <2>5, PrunedKeeps
  <2> QED
    BY <1>2, <2>6 DEF f
<1> QED
  BY <1>1, <1>2 DEF Applied

\* A request that does not make the machine changes nothing of a machine that
\* is not there.
LEMMA NothingWithoutMachine ==
  ASSUME NEW h, NEW r, ~Makes(r),
         \A t \in Things : t[1] # "file" => h[t] = Absent
  PROVE  \A t \in Things : t[1] # "file" => Applied(h, r)[t] = Absent
<1> SUFFICES ASSUME NEW t \in Things, t[1] # "file" PROVE Applied(h, r)[t] = Absent
  OBVIOUS
<1> DEFINE g == [u \in Things |-> IF u \in DOMAIN r.set THEN r.set[u] ELSE h[u]]
<1>1. CASE Applied(h, r) = h
  BY <1>1
<1>2. CASE Applied(h, r) = Pruned(g)
  <2>1. g[VM] = Absent
    BY ThingsAre, NotFiles DEF Makes
  <2>2. VM \in Ancestors[t]
    BY MachineAbove
  <2> HIDE DEF g
  <2> QED
    BY <1>2, <2>1, <2>2, PrunedKeeps
<1> QED
  BY <1>1, <1>2 DEF Applied

LEMMA MachineUntouched ==
  ASSUME NEW h, NEW r, ~Makes(r), h[VM] = Absent
  PROVE  Applied(h, r)[VM] = Absent
<1> DEFINE g == [u \in Things |-> IF u \in DOMAIN r.set THEN r.set[u] ELSE h[u]]
<1>1. CASE Applied(h, r) = h
  BY <1>1
<1>2. CASE Applied(h, r) = Pruned(g)
  <2>1. g[VM] = Absent
    BY ThingsAre DEF Makes
  <2> HIDE DEF g
  <2> QED
    BY <1>2, <2>1, PrunedKeeps, ThingsAre
<1> QED
  BY <1>1, <1>2 DEF Applied

\* The machine's end is the end of everything of it.
LEMMA MachineRemoved ==
  \A t \in Things : t[1] # "file" => Applied(host, Remove(VM))[t] = Absent
<1> SUFFICES ASSUME NEW t \in Things, t[1] # "file"
             PROVE  Applied(host, Remove(VM))[t] = Absent
  OBVIOUS
<1> DEFINE r == Remove(VM)
           g == [u \in Things |-> IF u \in DOMAIN r.set THEN r.set[u] ELSE host[u]]
<1>1. DOMAIN r.set = {VM} /\ r.set[VM] = Absent
  BY DEF Remove, Request, One
<1>2. VM \notin SecurityThings
  BY DEF VM, SecurityThings, Security
<1>3. Applied(host, r) = Pruned(g)
  BY <1>1, <1>2 DEF Applied
<1>4. g[VM] = Absent
  BY <1>1, ThingsAre
<1>5. VM \in Ancestors[t]
  BY MachineAbove
<1> HIDE DEF g
<1> QED
  BY <1>3, <1>4, <1>5, PrunedKeeps

----------------------------------------------------------------------------
(* One call.                                                               *)

\* What a call does to the machine and the jobs, however it is waited for.
Calls(r) ==
  \/ host' = host /\ jobs' = jobs
  \/ Accepts(host, r) /\ host' = Applied(host, r) /\ jobs' = jobs
  \/ Accepts(host, r) /\ host' = host /\ jobs' = jobs \cup {r}

\* A request of the edit at op: only a definition makes the machine.
Asks(r) == SoundRequest(r) /\ (Makes(r) => op.step = "define")

\* After a call or a look: some step, but no definition.
Onward == op' \in Planned /\ plan' \in Seq(Planned)

LEMMA InvokeCalls ==
  ASSUME NEW r, Calls(r) \/ (host' = host /\ jobs' = jobs), Asks(r), EditInv, Onward,
         UNCHANGED <<call, watch>>
  PROVE  EditInv'
<1> USE DEF EditInv
<1>1. Calls(r)
  BY DEF Calls
<1>2. FilesOutliveVm'
  <2>1. CASE host' = host
    BY <2>1 DEF FilesOutliveVm
  <2>2. CASE Accepts(host, r) /\ host' = Applied(host, r)
    BY <2>2, AppliedKeepsFiles DEF FilesOutliveVm, Asks
  <2> QED
    BY <1>1, <2>1, <2>2 DEF Calls
<1>3. OpInv'
  BY DEF OpInv, Onward, Planned
<1>4. op'.step # "define"
  BY DEF Onward, Planned
<1>5. JobInv'
  <2>1. CASE host' = host /\ jobs' = jobs
    BY <2>1, <1>4 DEF JobInv
  <2>2. CASE Accepts(host, r) /\ host' = Applied(host, r) /\ jobs' = jobs
    BY <2>2, <1>4, MachineUntouched DEF JobInv, Asks
  <2>3. CASE Accepts(host, r) /\ host' = host /\ jobs' = jobs \cup {r}
    <3>1. Makes(r) => host[VM] = Absent /\ watch.state = "none" /\ \A j \in jobs : ~Makes(j)
      BY <2>3 DEF Accepts, Makes, SoundRequest, Asks, OpInv, JobInv
    <3> QED
      BY <2>3, <1>4, <3>1 DEF JobInv, Asks
  <2> QED
    BY <1>1, <2>1, <2>2, <2>3 DEF Calls
<1>6. CleanInv'
  <2>1. CASE host' = host
    BY <2>1 DEF CleanInv, NoMachine
  <2>2. CASE Accepts(host, r) /\ host' = Applied(host, r)
    <3> SUFFICES ASSUME watch.state = "clean" PROVE NoMachine'
      BY DEF CleanInv
    <3>1. ~Makes(r)
      BY DEF Asks, OpInv
    <3> QED
      BY <2>2, <3>1, NothingWithoutMachine DEF CleanInv, NoMachine
  <2> QED
    BY <1>1, <2>1, <2>2 DEF Calls
<1> QED
  BY <1>2, <1>3, <1>5, <1>6

\* A step that only looks.
LEMMA LookKeeps ==
  ASSUME EditInv, Onward, Quiet
  PROVE  EditInv'
BY DEF EditInv, FilesOutliveVm, OpInv, Onward, Planned, JobInv, CleanInv, NoMachine, Quiet

LEMMA GotoOnward ==
  ASSUME OpInv, NEW step \in Steps \ {"feature", "addCtrl", "removeCtrl", "define"}, Goto(step)
  PROVE  Onward
BY DEF OpInv, Goto, Onward, Planned, GoodOps, Ops, Shaped

LEMMA AfterwardsOnward ==
  ASSUME OpInv, NEW step \in Steps \ {"feature", "addCtrl", "removeCtrl", "define"},
         NEW ok \in BOOLEAN, Afterwards(step, ok)
  PROVE  Onward
BY DEF OpInv, Afterwards, Onward, Planned, GoodOps, Ops, Shaped

LEMMA FinishOnward ==
  ASSUME OpInv, NEW ok \in BOOLEAN, Finish(ok)
  PROVE  Onward
<1>1. CASE plan = <<>>
  <2> DEFINE b == ok \/ (call.kind = "create" /\ op.step # "define")
  <2>1. op' = [op EXCEPT !.step = "returned", !.ok = b] /\ plan' = plan
    BY <1>1 DEF Finish
  <2>2. b \in BOOLEAN
    OBVIOUS
  <2> HIDE DEF b
  <2> QED
    BY <2>1, <2>2 DEF OpInv, Onward, Planned, GoodOps, Ops, Shaped, Steps
<1>2. CASE plan # <<>>
  BY <1>2, HeadTailProperties DEF Finish, OpInv, Onward
<1> QED
  BY <1>1, <1>2

----------------------------------------------------------------------------
(* What the edits ask for.                                                 *)

LEMMA AsksForParts ==
  ASSUME NEW verb, NEW set, \A t \in DOMAIN set : t[1] \notin {"vm", "file"}
  PROVE  Asks(Request(verb, set))
BY DEF Asks, SoundRequest, Makes, Request, VM, File

LEMMA AsksForOne ==
  ASSUME NEW t, NEW v, t[1] \notin {"vm", "file"}
  PROVE  /\ Asks(Add(t, v)) /\ Asks(Modify(t, v)) /\ Asks(Remove(t))
         /\ \A verb : Asks(Request(verb, One(t, v)))
BY AsksForParts DEF Add, Modify, Remove, One

LEMMA Parts ==
  /\ \A at : Drive(at)[1] = "drive" /\ Medium(at)[1] = "medium"
  /\ \A n : Port(n)[1] = "port" /\ Connection(n)[1] = "connection"
  /\ \A s : Security(s)[1] = "security" /\ Core(s)[1] = "core"
  /\ Protector[1] = "protector" /\ BootFirst[1] = "boot"
BY DEF Drive, Medium, Port, Connection, Security, Core, Protector, BootFirst

\* The edits of drives, controllers and adapters that are one call.
LEMMA CallsKeep ==
  ASSUME EditInv,
         \/ AddDiskDrive \/ AddDvdDrive \/ AttachPhysicalDisk
         \/ AddVhd \/ Rollback \/ CreateFile \/ RemoveDrive \/ AddScsiController
         \/ RemoveScsiController \/ AddPort \/ AddConnection \/ RemovePort
  PROVE  EditInv'
<1>o. OpInv
  BY DEF EditInv
<1>b. op.ok \in BOOLEAN
  BY <1>o DEF OpInv, GoodOps, Ops
<1> USE DEF Steps
<1>1. CASE AddDiskDrive
  <2>1. Onward
    BY <1>1, <1>o, GotoOnward, FinishOnward DEF AddDiskDrive, Invoke, WaitForJob
  <2>2. Asks(Add(Drive(op.at), "disk"))
    BY AsksForOne, Parts
  <2>3. Calls(Add(Drive(op.at), "disk")) /\ UNCHANGED <<call, watch>>
    BY <1>1 DEF AddDiskDrive, Invoke, WaitForJob, Calls
  <2> QED
    BY <2>1, <2>2, <2>3, InvokeCalls
<1>2. CASE AddDvdDrive
  <2>1. Onward
    BY <1>2, <1>o, FinishOnward DEF AddDvdDrive, Invoke, WaitForJob
  <2>2. Asks(Add(Drive(op.at), "dvd"))
    BY AsksForOne, Parts
  <2>3. Calls(Add(Drive(op.at), "dvd")) /\ UNCHANGED <<call, watch>>
    BY <1>2 DEF AddDvdDrive, Invoke, WaitForJob, Calls
  <2> QED
    BY <2>1, <2>2, <2>3, InvokeCalls
<1>3. CASE AttachPhysicalDisk
  <2>1. Onward
    BY <1>3, <1>o, FinishOnward DEF AttachPhysicalDisk, Invoke, WaitForJob
  <2>2. Asks(Add(Drive(op.at), op.what))
    BY AsksForOne, Parts
  <2>3. Calls(Add(Drive(op.at), op.what)) /\ UNCHANGED <<call, watch>>
    BY <1>3 DEF AttachPhysicalDisk, Invoke, WaitForJob, Calls
  <2> QED
    BY <2>1, <2>2, <2>3, InvokeCalls
<1>4. CASE AddVhd
  <2>1. Onward
    BY <1>4, <1>o, GotoOnward, FinishOnward DEF AddVhd, Invoke, WaitForJob
  <2>2. Asks(Add(Medium(op.at), op.what))
    BY AsksForOne, Parts
  <2>3. Calls(Add(Medium(op.at), op.what)) /\ UNCHANGED <<call, watch>>
    BY <1>4 DEF AddVhd, Invoke, WaitForJob, Calls
  <2> QED
    BY <2>1, <2>2, <2>3, InvokeCalls
<1>5. CASE Rollback
  <2>1. Onward
    BY <1>5, <1>o, FinishOnward DEF Rollback, Invoke, WaitForJob
  <2>2. Asks(Remove(Drive(op.at)))
    BY AsksForOne, Parts
  <2>3. Calls(Remove(Drive(op.at))) /\ UNCHANGED <<call, watch>>
    BY <1>5 DEF Rollback, Invoke, WaitForJob, Calls
  <2> QED
    BY <2>1, <2>2, <2>3, InvokeCalls
<1>6. CASE CreateFile
  <2>1. Onward
    BY <1>6, <1>o, GotoOnward, FinishOnward DEF CreateFile, Invoke, WaitForJob
  <2>2. Asks(Add(File(op.what), "present"))
    BY DEF Asks, SoundRequest, Makes, Add, Request, One, File, VM
  <2>3. Calls(Add(File(op.what), "present")) /\ UNCHANGED <<call, watch>>
    BY <1>6 DEF CreateFile, Invoke, WaitForJob, Calls
  <2> QED
    BY <2>1, <2>2, <2>3, InvokeCalls
<1>7. CASE RemoveDrive
  <2>1. Onward
    BY <1>7, <1>o, <1>b, FinishOnward DEF RemoveDrive, Invoke, WaitForJob
  <2>2. Asks(Remove(Drive(op.at)))
    BY AsksForOne, Parts
  <2>3. Calls(Remove(Drive(op.at))) /\ UNCHANGED <<call, watch>>
    BY <1>7 DEF RemoveDrive, Invoke, WaitForJob, Calls
  <2> QED
    BY <2>1, <2>2, <2>3, InvokeCalls
<1>8. CASE AddScsiController
  <2>1. Onward
    BY <1>8, <1>o, FinishOnward DEF AddScsiController, Invoke, WaitForJob
  <2>2. Asks(Add(op.thing, "present"))
    BY <1>8, <1>o, AsksForOne DEF OpInv, GoodOps, Shaped, AddScsiController, At
  <2>3. Calls(Add(op.thing, "present")) /\ UNCHANGED <<call, watch>>
    BY <1>8 DEF AddScsiController, Invoke, WaitForJob, Calls
  <2> QED
    BY <2>1, <2>2, <2>3, InvokeCalls
<1>9. CASE RemoveScsiController
  <2>1. Onward
    BY <1>9, <1>o, FinishOnward DEF RemoveScsiController, Invoke, WaitForJob
  <2>2. Asks(Remove(op.thing))
    BY <1>9, <1>o, AsksForOne DEF OpInv, GoodOps, Shaped, RemoveScsiController, At
  <2>3. Calls(Remove(op.thing)) /\ UNCHANGED <<call, watch>>
    BY <1>9 DEF RemoveScsiController, Invoke, WaitForJob, Calls
  <2> QED
    BY <2>1, <2>2, <2>3, InvokeCalls
<1>10. CASE AddPort
  <2>1. Onward
    BY <1>10, <1>o, GotoOnward, FinishOnward DEF AddPort, Invoke, WaitForJob
  <2>2. Asks(Add(Port(Nic), "present"))
    BY AsksForOne, Parts
  <2>3. Calls(Add(Port(Nic), "present")) /\ UNCHANGED <<call, watch>>
    BY <1>10 DEF AddPort, Invoke, WaitForJob, Calls
  <2> QED
    BY <2>1, <2>2, <2>3, InvokeCalls
<1>11. CASE AddConnection
  <2>1. Onward
    BY <1>11, <1>o, FinishOnward DEF AddConnection, Invoke, WaitForJob
  <2>2. Asks(Add(Connection(Nic), op.what))
    BY AsksForOne, Parts
  <2>3. Calls(Add(Connection(Nic), op.what)) /\ UNCHANGED <<call, watch>>
    BY <1>11 DEF AddConnection, Invoke, WaitForJob, Calls
  <2> QED
    BY <2>1, <2>2, <2>3, InvokeCalls
<1>12. CASE RemovePort
  <2>1. Onward
    BY <1>12, <1>o, <1>b, FinishOnward DEF RemovePort, Invoke, WaitForJob
  <2>2. Asks(Remove(Port(Nic)))
    BY AsksForOne, Parts
  <2>3. Calls(Remove(Port(Nic))) /\ UNCHANGED <<call, watch>>
    BY <1>12 DEF RemovePort, Invoke, WaitForJob, Calls
  <2> QED
    BY <2>1, <2>2, <2>3, InvokeCalls
<1> QED
  BY <1>1, <1>2, <1>3, <1>4, <1>5, <1>6, <1>7, <1>8, <1>9, <1>10, <1>11, <1>12

\* A place an edit chooses is a place of the machine.
LEMMA OpAt == ASSUME op \in Ops PROVE op.at \in Addrs \cup {AnyPlace}
BY DEF Ops

LEMMA FreePlacesAreAddrs ==
  ASSUME NEW c \in Ctrls, NEW at \in FreePlaces(c)
  PROVE  at \in Addrs
<1>1. PICK s \in Slots(c) : at = <<c, s>>
  BY DEF FreePlaces
<1>2. {<<c, u>> : u \in Slots(c)} \in {{<<x, u>> : u \in Slots(x)} : x \in Ctrls}
  OBVIOUS
<1> QED
  BY <1>1, <1>2 DEF Addrs

LEMMA TargetsAreAddrs ==
  ASSUME OpInv
  PROVE  ResolveStorageTarget \subseteq Addrs \cup {AnyPlace}
<1> DEFINE Present(C) == {c \in C : host[Ctrl(c)] # Absent}
           pick == IF Present(Scsi) # {} THEN Present(Scsi) ELSE Present(Ide)
<1>1. pick # {} => (CHOOSE c \in pick : TRUE) \in Ctrls
  BY DEF Ctrls
<1>2. pick # {} => FreePlaces(CHOOSE c \in pick : TRUE) \subseteq Addrs
  BY <1>1, FreePlacesAreAddrs
<1>3. op.at \in Addrs \cup {AnyPlace}
  BY OpAt DEF OpInv, GoodOps
<1> QED
  BY <1>2, <1>3 DEF ResolveStorageTarget

LEMMA OpMoves ==
  ASSUME op \in GoodOps, NEW at \in Addrs \cup {AnyPlace},
         NEW step \in Steps \ {"feature", "addCtrl", "removeCtrl", "define"}
  PROVE  [op EXCEPT !.step = step, !.at = at] \in Planned
BY DEF Planned, GoodOps, Ops, Shaped

\* The edits' looks between their calls.
LEMMA LooksKeep ==
  ASSUME EditInv, Resolve \/ FindDrive \/ PollLink \/ FindPort
  PROVE  EditInv'
<1>o. OpInv
  BY DEF EditInv
<1>1. Quiet
  BY DEF Resolve, FindDrive, PollLink, FindPort
<1>2. CASE Resolve
  <2>1. ASSUME NEW at \in ResolveStorageTarget,
               op' = [op EXCEPT !.step = "addDrive", !.at = at], plan' = plan
        PROVE  Onward
    <3>1. at \in Addrs \cup {AnyPlace}
      BY <1>o, TargetsAreAddrs
    <3> QED
      BY <1>o, <2>1, <3>1, OpMoves DEF Onward, OpInv, Steps
  <2>2. Onward
    BY <1>o, <1>2, <2>1, FinishOnward DEF Resolve
  <2> QED
    BY <1>1, <2>2, LookKeeps
<1>3. CASE FindDrive \/ PollLink \/ FindPort
  <2>1. Onward
    BY <1>o, <1>3, GotoOnward, FinishOnward DEF FindDrive, PollLink, FindPort, Steps
  <2> QED
    BY <1>1, <2>1, LookKeeps
<1> QED
  BY <1>2, <1>3

\* An edit that asks, or only looks.
LEMMA AskOrLook ==
  ASSUME EditInv, Onward, NEW r, Asks(r), Quiet \/ (Calls(r) /\ UNCHANGED <<call, watch>>)
  PROVE  EditInv'
BY LookKeeps, InvokeCalls

LEMMA MediaKeep ==
  ASSUME EditInv, SetDvdMedia \/ RemoveMedium \/ RemoveConnection
  PROVE  EditInv'
<1>o. OpInv
  BY DEF EditInv
<1> USE DEF Steps
<1>1. CASE SetDvdMedia
  <2>1. Onward
    BY <1>o, <1>1, FinishOnward DEF SetDvdMedia, Invoke, WaitForJob
  <2>2. PICK r \in {Remove(Medium(op.at)), Modify(Medium(op.at), op.what),
                  Add(Medium(op.at), op.what)} :
          Quiet \/ (Calls(r) /\ UNCHANGED <<call, watch>>)
    BY <1>1 DEF SetDvdMedia, Invoke, WaitForJob, Calls
  <2>3. Asks(r)
    BY AsksForOne, Parts
  <2> QED
    BY <2>1, <2>2, <2>3, AskOrLook
<1>2. CASE RemoveMedium
  <2>1. Onward
    BY <1>o, <1>2, GotoOnward, AfterwardsOnward, FinishOnward DEF RemoveMedium, Invoke, WaitForJob
  <2>2. Quiet \/ (Calls(Remove(Medium(op.at))) /\ UNCHANGED <<call, watch>>)
    BY <1>2 DEF RemoveMedium, Invoke, WaitForJob, Calls
  <2> QED
    BY <2>1, <2>2, AskOrLook, AsksForOne, Parts
<1>3. CASE RemoveConnection
  <2>1. Onward
    BY <1>o, <1>3, GotoOnward, AfterwardsOnward, FinishOnward
       DEF RemoveConnection, Invoke, WaitForJob
  <2>2. Quiet \/ (Calls(Remove(Connection(Nic))) /\ UNCHANGED <<call, watch>>)
    BY <1>3 DEF RemoveConnection, Invoke, WaitForJob, Calls
  <2> QED
    BY <2>1, <2>2, AskOrLook, AsksForOne, Parts
<1> QED
  BY <1>1, <1>2, <1>3

LEMMA ModifyOneKeeps ==
  ASSUME EditInv, NEW t, t[1] \notin {"vm", "file"}, ModifyOne(t)
  PROVE  EditInv'
<1>1. Onward
  BY FinishOnward DEF EditInv, ModifyOne, Invoke, WaitForJob
<1>2. Calls(Modify(t, op.what)) /\ UNCHANGED <<call, watch>>
  BY DEF ModifyOne, Invoke, WaitForJob, Calls
<1> QED
  BY <1>1, <1>2, AskOrLook, AsksForOne

\* A feature's thing is a feature: it is named by the caller.
LEMMA FeatureThing == ASSUME OpInv, At("feature") PROVE op.thing[1] = "feature"
BY DEF OpInv, At, GoodOps, Shaped

LEMMA ModifyOrAddKeeps ==
  ASSUME EditInv, NEW f, ModifyOrAdd(f)
  PROVE  EditInv'
<1> DEFINE r == Request(IF host[op.thing] = Absent THEN "add" ELSE "modify", One(op.thing, op.what))
<1>1. Onward
  BY FinishOnward DEF EditInv, ModifyOrAdd, Invoke, WaitForJob
<1>2. Calls(r) /\ UNCHANGED <<call, watch>>
  BY DEF ModifyOrAdd, Invoke, WaitForJob, Calls
<1>3. Asks(r)
  BY FeatureThing, AsksForOne DEF EditInv, ModifyOrAdd
<1> QED
  BY <1>1, <1>2, <1>3, AskOrLook

LEMMA SettersKeep ==
  ASSUME EditInv,
         \/ SetNetworkAdapterSwitch \/ SetNetworkAdapterPort
         \/ SetMemoryConfig \/ SetProcessorConfig
         \/ SetNetworkAdapterAdvanced \/ SetNetworkAdapterBandwidth \/ SetNetworkAdapterOffload
         \/ SetNetworkAdapterVlan
  PROVE  EditInv'
<1>1. CASE SetNetworkAdapterSwitch \/ SetNetworkAdapterPort \/ SetMemoryConfig \/ SetProcessorConfig
  BY <1>1, ModifyOneKeeps, Parts
     DEF SetNetworkAdapterSwitch, SetNetworkAdapterPort, SetMemoryConfig, SetProcessorConfig
<1>2. CASE SetNetworkAdapterAdvanced \/ SetNetworkAdapterBandwidth \/ SetNetworkAdapterOffload
  BY <1>2, ModifyOrAddKeeps
     DEF SetNetworkAdapterAdvanced, SetNetworkAdapterBandwidth, SetNetworkAdapterOffload
<1>3. CASE SetNetworkAdapterVlan
  <2>1. CASE ModifyOrAdd("vlan")
    BY <2>1, ModifyOrAddKeeps
  <2>2. CASE ~ModifyOrAdd("vlan")
    <3>1. Onward
      BY <1>3, <2>2, FinishOnward DEF EditInv, SetNetworkAdapterVlan, Invoke, WaitForJob
    <3>2. Quiet \/ (Calls(Remove(op.thing)) /\ UNCHANGED <<call, watch>>)
      BY <1>3, <2>2 DEF SetNetworkAdapterVlan, Invoke, WaitForJob, Calls
    <3>3. Asks(Remove(op.thing))
      BY <1>3, <2>2, FeatureThing, AsksForOne DEF EditInv, SetNetworkAdapterVlan
    <3> QED
      BY <3>1, <3>2, <3>3, AskOrLook
  <2> QED
    BY <2>1, <2>2
<1> QED
  BY <1>1, <1>2, <1>3

LEMMA SecurityKeeps ==
  ASSUME EditInv, EnsureKeyProtector \/ SetVmTpm \/ SetVmStateEncryption \/ SetVmShielded
  PROVE  EditInv'
<1>1. CASE EnsureKeyProtector
  <2>1. Onward
    BY <1>1, GotoOnward, FinishOnward DEF EditInv, EnsureKeyProtector, Invoke, WaitForJob, Steps
  <2>2. Quiet \/ (Calls(Add(Protector, "present")) /\ UNCHANGED <<call, watch>>)
    BY <1>1 DEF EnsureKeyProtector, Invoke, WaitForJob, Calls
  <2> QED
    BY <2>1, <2>2, AskOrLook, AsksForOne, Parts
<1>2. ASSUME NEW s, ModifySecuritySettings(s) PROVE EditInv'
  <2> DEFINE r == Request("modify", SecuritySet(op.thing, op.what))
  <2>1. Onward
    BY <1>2, FinishOnward DEF EditInv, ModifySecuritySettings, Invoke, WaitForJob
  <2>2. Calls(r) /\ UNCHANGED <<call, watch>>
    BY <1>2 DEF ModifySecuritySettings, Invoke, WaitForJob, Calls
  <2>3. \A t \in DOMAIN SecuritySet(op.thing, op.what) : t[1] = "security"
    BY <1>2, Parts DEF ModifySecuritySettings, SecuritySet, All, One, SecurityThings
  <2>4. Asks(r)
    BY <2>3, AsksForParts
  <2> QED
    BY <2>1, <2>2, <2>4, AskOrLook
<1> QED
  BY <1>1, <1>2 DEF SetVmTpm, SetVmStateEncryption, SetVmShielded

----------------------------------------------------------------------------
(* Creating and deleting.                                                  *)

LEMMA CreationKeeps ==
  ASSUME EditInv, DefineSystem \/ MountFirst \/ PromoteDvdToBootFront
  PROVE  EditInv'
<1>o. OpInv
  BY DEF EditInv
<1> USE DEF Steps
<1>1. CASE DefineSystem
  <2> DEFINE r == Request("add", Fresh(call.gen))
  <2>1. ASSUME op' = Head(call.rest), plan' = Tail(call.rest) PROVE Onward
    <3>1. call.rest \in Seq(Planned) /\ call.rest # <<>>
      BY <1>o, <1>1 DEF OpInv, DefineSystem, At
    <3> QED
      BY <2>1, <3>1, HeadTailProperties DEF Onward
  <2>2. Onward
    BY <1>o, <1>1, <2>1, FinishOnward DEF DefineSystem, Invoke, WaitForJob
  <2>3. Calls(r) /\ UNCHANGED <<call, watch>>
    BY <1>1 DEF DefineSystem, Invoke, WaitForJob, Calls
  <2>4. \A f \in Vhds : File(f) \notin DOMAIN Fresh(call.gen)
    BY NotFiles, Parts DEF Fresh, CoreThings, SecurityThings
  <2>5. Asks(r)
    BY <1>1, <2>4 DEF Asks, SoundRequest, Makes, Request, DefineSystem, At
  <2> QED
    BY <2>2, <2>3, <2>5, AskOrLook
<1>2. CASE MountFirst
  <2>1. CASE Quiet /\ Finish(TRUE)
    BY <1>o, <2>1, FinishOnward, LookKeeps
  <2>2. CASE ~(Quiet /\ Finish(TRUE))
    <3> DEFINE Promote(at) == op' = [op EXCEPT !.step = "promote", !.at = at] /\ plan' = plan
               R(at) == Request(IF host[Medium(at)] = Absent THEN "add" ELSE "modify",
                                One(Medium(at), op.what))
    <3>1. PICK at \in Addrs : Invoke(R(at), Promote(at), Finish(FALSE))
      BY <1>2, <2>2 DEF MountFirst
    <3>2. Promote(at) => Onward
      <4>1. [op EXCEPT !.step = "promote", !.at = at] \in Planned
        BY <1>o, OpMoves DEF OpInv
      <4> QED
        BY <1>o, <4>1 DEF OpInv, Onward
    <3> HIDE DEF Promote, R
    <3>3. Onward
      BY <1>o, <3>1, <3>2, FinishOnward DEF Invoke, WaitForJob
    <3>4. Calls(R(at)) /\ UNCHANGED <<call, watch>>
      BY <3>1 DEF Invoke, WaitForJob, Calls
    <3>5. Asks(R(at))
      BY AsksForOne, Parts DEF R
    <3> QED
      BY <3>3, <3>4, <3>5, AskOrLook
  <2> QED
    BY <2>1, <2>2
<1>3. CASE PromoteDvdToBootFront
  <2>1. Onward
    BY <1>o, <1>3, FinishOnward DEF PromoteDvdToBootFront, Invoke, WaitForJob
  <2>2. Quiet \/ (Calls(Modify(BootFirst, "on")) /\ UNCHANGED <<call, watch>>)
    BY <1>3 DEF PromoteDvdToBootFront, Invoke, WaitForJob, Calls
  <2> QED
    BY <2>1, <2>2, AskOrLook, AsksForOne, Parts
<1> QED
  BY <1>1, <1>2, <1>3

\* Only a machine that is there is deleted, and nothing makes one meanwhile.
LEMMA NothingMade ==
  ASSUME EditInv, host[VM] # Absent
  PROVE  \A j \in jobs : ~Makes(j)
BY DEF EditInv, JobInv

\* Without a machine no file is in use, whichever files go.
LEMMA NothingUsed ==
  ASSUME NEW h, \A t \in Things : t[1] # "file" => h[t] = Absent, NEW files
  PROVE  /\ \A t \in Things : t[1] # "file" => Without(h, files)[t] = Absent
         /\ \A at \in Addrs : h[Medium(at)] \notin Vhds
         /\ \A at \in Addrs : Without(h, files)[Medium(at)] \notin Vhds
<1>1. \A t \in Things : Without(h, files)[t] \in {Absent, h[t]}
  BY DEF Without
<1>2. \A at \in Addrs : Medium(at) \in Things /\ Medium(at)[1] # "file"
  BY ThingsAre, NotFiles
<1> QED
  BY <1>1, <1>2, BoundsAssumption

LEMMA DestroyKeeps ==
  ASSUME EditInv, DestroyVM
  PROVE  EditInv'
<1>o. OpInv
  BY DEF EditInv
<1>1. Onward
  BY <1>o, FinishOnward DEF DestroyVM
<1>2. UNCHANGED <<jobs, call>>
  BY DEF DestroyVM
<1>3. op'.step # "define"
  BY <1>1 DEF Onward, Planned
<1>4. OpInv'
  BY <1>o, <1>1, <1>2, <1>3 DEF OpInv, Onward, Planned
<1>5. DOMAIN Remove(VM).set = {VM} /\ Remove(VM).verb = "remove"
  BY DEF Remove, Request, One
<1>6. Accepts(host, Remove(VM)) => host[VM] # Absent
  BY <1>5 DEF Accepts
<1>7. CASE UNCHANGED <<host, watch>>
  BY <1>2, <1>3, <1>4, <1>7 DEF EditInv, FilesOutliveVm, JobInv, CleanInv, NoMachine
<1>8. CASE Accepts(host, Remove(VM)) /\ ~UNCHANGED <<host, watch>>
  <2>1. \A j \in jobs : ~Makes(j)
    BY <1>6, <1>8, NothingMade
  <2>2. JobInv'
    BY <1>2, <2>1 DEF EditInv, JobInv
  <2>3. CASE UNCHANGED host /\ watch'.state = "running"
    BY <1>4, <2>2, <2>3 DEF EditInv, FilesOutliveVm, CleanInv
  <2>4. CASE ~(UNCHANGED host /\ watch'.state = "running")
    <3>1. PICK files : host' = Without(Applied(host, Remove(VM)), files)
      <4> DEFINE files == IF op.what = "on" THEN DiskFiles ELSE {}
      <4>1. \/ host' = Without(Applied(host, Remove(VM)), files)
            \/ watch' = [state |-> "running", files |-> files] /\ UNCHANGED host
            \/ ~Accepts(host, Remove(VM))
            \/ UNCHANGED <<host, watch>>
        BY DEF DestroyVM
      <4> HIDE DEF files
      <4> QED
        BY <1>8, <2>4, <4>1
    <3>2. NoMachine' /\ \A at \in Addrs : host'[Medium(at)] \notin Vhds
      BY <3>1, MachineRemoved, NothingUsed DEF NoMachine
    <3> QED
      BY <1>4, <2>2, <3>2 DEF EditInv, FilesOutliveVm, CleanInv
  <2> QED
    BY <2>3, <2>4
<1> QED
  BY <1>7, <1>8 DEF DestroyVM, Quiet

LEMMA WatcherKeeps ==
  ASSUME EditInv, DestroyEnds \/ DeleteVhdFilesBestEffort
  PROVE  EditInv'
<1>o. UNCHANGED <<jobs, call, op, plan>>
  BY DEF DestroyEnds, DeleteVhdFilesBestEffort
<1>1. CASE DestroyEnds
  <2>1. \A j \in jobs : ~Makes(j)
    BY <1>1 DEF EditInv, JobInv, DestroyEnds
  <2>2. OpInv' /\ JobInv'
    BY <1>1, <1>o, <2>1 DEF EditInv, OpInv, JobInv, DestroyEnds
  <2>3. CASE host' = Applied(host, Remove(VM))
    <3>1. NoMachine'
      BY <2>3, MachineRemoved DEF NoMachine
    <3>2. \A at \in Addrs : host'[Medium(at)] \notin Vhds
      BY <2>3, MachineRemoved, NothingUsed
    <3> QED
      BY <2>2, <3>1, <3>2 DEF EditInv, FilesOutliveVm, CleanInv
  <2>4. CASE host' = host /\ watch'.state = "none"
    BY <2>2, <2>4 DEF EditInv, FilesOutliveVm, CleanInv
  <2> QED
    BY <1>1, <2>3, <2>4 DEF DestroyEnds
<1>2. CASE DeleteVhdFilesBestEffort
  <2>1. NoMachine
    BY <1>2 DEF EditInv, CleanInv, DeleteVhdFilesBestEffort
  <2>2. PICK deleted : host' = Without(host, deleted)
    BY <1>2 DEF DeleteVhdFilesBestEffort
  <2>3. \A at \in Addrs : host'[Medium(at)] \notin Vhds
    BY <2>1, <2>2, NothingUsed DEF NoMachine
  <2>4. host'[VM] = Absent
    BY <2>1, <2>2, NothingUsed, ThingsAre, NotFiles DEF NoMachine
  <2>5. OpInv' /\ JobInv'
    BY <1>2, <1>o, <2>4 DEF EditInv, OpInv, JobInv, DeleteVhdFilesBestEffort
  <2> QED
    BY <1>2, <2>3, <2>5 DEF EditInv, FilesOutliveVm, CleanInv, DeleteVhdFilesBestEffort
<1> QED
  BY <1>1, <1>2

----------------------------------------------------------------------------
(* The callers, Hyper-V and other tools.                                   *)

LEMMA OpsAre ==
  ASSUME NEW step \in Steps \ {"define", "feature", "addCtrl", "removeCtrl"},
         NEW at \in Addrs \cup {AnyPlace}, NEW thing \in Things, NEW what \in Values
  PROVE  Op(step, at, thing, what) \in Planned
BY DEF Op, Planned, GoodOps, Ops, Shaped

LEMMA OpsNamingTheirThing ==
  ASSUME NEW thing \in Things, NEW what \in Values,
         NEW step \in {"feature", "addCtrl", "removeCtrl"},
         thing[1] = (IF step = "feature" THEN "feature" ELSE "ctrl")
  PROVE  Op(step, AnyPlace, thing, what) \in Planned
BY DEF Op, Planned, GoodOps, Ops, Shaped, Steps

LEMMA BeginKeeps ==
  ASSUME EditInv, NEW kind, NEW first \in Planned, NEW goal, Begin(kind, first, goal)
  PROVE  EditInv'
<1>1. UNCHANGED <<host, jobs, plan, watch>> /\ op' = first /\ call'.rest = <<>>
  BY DEF Begin, BeginAs
<1>2. <<>> \in Seq(Planned)
  BY EmptySeq
<1>3. op' \in GoodOps /\ op'.step # "define"
  BY <1>1 DEF Planned
<1>4. OpInv'
  BY <1>1, <1>2, <1>3 DEF EditInv, OpInv
<1>5. JobInv'
  BY <1>1, <1>3 DEF EditInv, JobInv
<1> QED
  BY <1>1, <1>4, <1>5 DEF EditInv, FilesOutliveVm, CleanInv, NoMachine

LEMMA ValuesAre ==
  /\ {Absent, "present", "default", "set", "on", "off", "disk", "dvd"} \subseteq Values
  /\ Vhds \subseteq Values /\ Isos \subseteq Values
  /\ Raw \subseteq Values /\ Switches \subseteq Values
BY DEF Values

\* Every edit but the creation starts with a step of its own.
LEMMA EditsBegin ==
  ASSUME EditInv, BeginStorage \/ BeginScsi \/ BeginNetwork \/ BeginSecurity \/ BeginDestroy
  PROVE  EditInv'
<1> USE DEF Steps
<1>1. CASE BeginStorage
  <2>1. PICK at \in Addrs :
          \E step \in {"resolve", "createFile", "media", "removeMedium"},
             thing \in {VM, Medium(at)}, what \in Values : \E kind, goal :
            Begin(kind, Op(step, at, thing, what), goal)
    BY <1>1, ValuesAre, Zenon DEF BeginStorage, Seen, Some
  <2>2. \A step \in {"resolve", "createFile", "media", "removeMedium"},
           thing \in {VM, Medium(at)}, what \in Values : Op(step, at, thing, what) \in Planned
    BY OpsAre, ThingsAre
  <2> QED
    BY <2>1, <2>2, BeginKeeps
<1>2. CASE BeginScsi
  <2>1. PICK c \in Scsi :
          \E step \in {"addCtrl", "removeCtrl"}, what \in {Absent, "present"} : \E kind, goal :
            Begin(kind, Op(step, AnyPlace, Ctrl(c), what), goal)
    BY <1>2, Zenon DEF BeginScsi
  <2>2. Ctrl(c) \in Things /\ Ctrl(c)[1] = "ctrl"
    BY ThingsAre DEF Ctrls, Ctrl
  <2>3. \A step \in {"addCtrl", "removeCtrl"}, what \in {Absent, "present"} :
          Op(step, AnyPlace, Ctrl(c), what) \in Planned
    BY <2>2, OpsNamingTheirThing, ValuesAre
  <2> QED
    BY <2>1, <2>3, BeginKeeps
<1>3. CASE BeginNetwork
  <2>1. PICK n \in Nics :
          \/ \E step \in {"addPort", "removeConnection", "modify"},
                thing \in {Port(n), Connection(n)}, what \in Values : \E kind, goal :
               Begin(kind, Op(step, AnyPlace, thing, what), goal)
          \/ \E f \in Features, what \in Values : \E kind, goal :
               Begin(kind, Op("feature", AnyPlace, Feature(n, f), what), goal)
    BY <1>3, ValuesAre, Zenon DEF BeginNetwork
  <2>2. \A step \in {"addPort", "removeConnection", "modify"},
           thing \in {Port(n), Connection(n)}, what \in Values :
          Op(step, AnyPlace, thing, what) \in Planned
    BY OpsAre, ThingsAre
  <2>3. \A f \in Features : Feature(n, f) \in Things /\ Feature(n, f)[1] = "feature"
    BY ThingsAre DEF Feature
  <2>4. \A f \in Features, what \in Values :
          Op("feature", AnyPlace, Feature(n, f), what) \in Planned
    BY <2>3, OpsNamingTheirThing
  <2> QED
    BY <2>1, <2>2, <2>4, BeginKeeps
<1>4. CASE BeginSecurity
  <2>1. PICK s \in Secrets, v \in {"on", "off"} :
          \E goal : Begin(s, Op("protect", AnyPlace, Security(s), v), goal)
    BY <1>4, Zenon DEF BeginSecurity
  <2>2. Op("protect", AnyPlace, Security(s), v) \in Planned
    BY OpsAre, ThingsAre, ValuesAre DEF SecurityThings
  <2> QED
    BY <2>1, <2>2, BeginKeeps
<1>5. CASE BeginDestroy
  <2>1. PICK v \in {"on", "off"} : \E goal : Begin("destroy", Op("destroy", AnyPlace, VM, v), goal)
    BY <1>5, Zenon DEF BeginDestroy
  <2>2. Op("destroy", AnyPlace, VM, v) \in Planned
    BY OpsAre, ThingsAre, ValuesAre
  <2> QED
    BY <2>1, <2>2, BeginKeeps
<1> QED
  BY <1>1, <1>2, <1>3, <1>4, <1>5

LEMMA PlansAre ==
  ASSUME NEW c \in Choices
  PROVE  CreatePlan(c) \in Seq(Planned) /\ CreatePlan(c) # <<>>
<1> USE DEF Steps
<1>1. CoreOps \in Seq(Planned) /\ CoreOps # <<>>
  <2>1. Core("memory") \in Things /\ Core("processor") \in Things
    BY ThingsAre DEF CoreThings
  <2>2. /\ Op("modify", AnyPlace, Core("memory"), "set") \in Planned
        /\ Op("modify", AnyPlace, Core("processor"), "set") \in Planned
    BY <2>1, OpsAre, ValuesAre
  <2> QED
    BY <2>2 DEF CoreOps
<1>2. ControllerOps(c) \in Seq(Planned)
  <2>1. (CHOOSE x \in Scsi : TRUE) \in Scsi
    BY BoundsAssumption
  <2> DEFINE first == Ctrl(CHOOSE x \in Scsi : TRUE)
  <2>2. first \in Things /\ first[1] = "ctrl"
    BY <2>1, ThingsAre DEF Ctrls, Ctrl
  <2> HIDE DEF first
  <2>3. Op("addCtrl", AnyPlace, first, "present") \in Planned
    BY <2>2, OpsNamingTheirThing, ValuesAre
  <2> QED
    BY <2>3 DEF ControllerOps, first
<1>3. DiskOps(c) \in Seq(Planned)
  <2>1. \A step \in {"createFile", "resolve"}, f \in Vhds : Op(step, AnyPlace, VM, f) \in Planned
    BY OpsAre, ThingsAre, ValuesAre
  <2>2. c.file \in Vhds \cup {Absent}
    BY DEF Choices, Some
  <2> QED
    BY <2>1, <2>2 DEF DiskOps
<1>4. NetworkOps(c) \in Seq(Planned)
  <2> DEFINE n == CHOOSE n \in Nics : TRUE
  <2>1. n \in Nics
    BY BoundsAssumption
  <2> HIDE DEF n
  <2>2. \A v \in Switches : Op("addPort", AnyPlace, Port(n), v) \in Planned
    BY <2>1, OpsAre, ThingsAre, ValuesAre
  <2>3. c.switch \in Switches \cup {Absent}
    BY DEF Choices, Some
  <2> QED
    BY <2>2, <2>3 DEF NetworkOps, n
<1>5. MediaOps(c) \in Seq(Planned)
  <2>1. \A f \in Isos : Op("mountFirst", AnyPlace, VM, f) \in Planned
    BY OpsAre, ThingsAre, ValuesAre
  <2>2. Op("resolve", AnyPlace, VM, "dvd") \in Planned
    BY OpsAre, ThingsAre, ValuesAre
  <2>3. c.iso \in Isos \cup {Absent}
    BY DEF Choices, Some
  <2> QED
    BY <2>1, <2>2, <2>3 DEF MediaOps
<1>6. \A a, b \in Seq(Planned) : a \o b \in Seq(Planned) /\ (a # <<>> => a \o b # <<>>)
  BY ConcatProperties, EmptySeq
<1> QED
  BY <1>1, <1>2, <1>3, <1>4, <1>5, <1>6 DEF CreatePlan

LEMMA CreationBegins ==
  ASSUME EditInv, BeginCreate
  PROVE  EditInv'
<1>0. PICK c \in Choices :
        /\ watch.state = "none" /\ jobs = {}
        /\ BeginAs("create", Op("define", AnyPlace, VM, Absent), One(VM, "present"),
                   c.gen, CreatePlan(c))
  BY Zenon DEF BeginCreate
<1>1. /\ watch.state = "none" /\ jobs = {} /\ UNCHANGED <<host, jobs, plan, watch>>
      /\ op' = Op("define", AnyPlace, VM, Absent) /\ call'.rest = CreatePlan(c)
  BY <1>0 DEF BeginAs
<1>2. Op("define", AnyPlace, VM, Absent) \in GoodOps
  BY ThingsAre, ValuesAre DEF Op, GoodOps, Ops, Shaped, Steps
<1>3. OpInv'
  BY <1>1, <1>2, PlansAre DEF EditInv, OpInv
<1>4. JobInv'
  BY <1>1 DEF JobInv
<1> QED
  BY <1>1, <1>3, <1>4 DEF EditInv, FilesOutliveVm, CleanInv

LEMMA IdleIsPlanned == NoOp \in Planned
BY OpsAre, ThingsAre, ValuesAre DEF NoOp, Steps

LEMMA ReturnKeeps == ASSUME EditInv, Return PROVE EditInv'
<1>1. op' \in GoodOps /\ op'.step # "define"
  BY IdleIsPlanned DEF Return, Planned
<1>2. call'.rest \in Seq(Planned)
  BY EmptySeq DEF Return, NoCall
<1> QED
  BY <1>1, <1>2 DEF EditInv, Return, FilesOutliveVm, OpInv, JobInv, CleanInv, NoMachine

\* A change that no edit makes and that does not make the machine.
LEMMA ChangeKeeps ==
  ASSUME EditInv, NEW r, Accepts(host, r), SoundRequest(r), ~Makes(r),
         host' = Applied(host, r), jobs' \subseteq jobs, UNCHANGED <<call, op, plan, watch>>
  PROVE  EditInv'
<1>1. FilesOutliveVm'
  BY AppliedKeepsFiles DEF EditInv, FilesOutliveVm
<1>2. OpInv'
  BY DEF EditInv, OpInv
<1>3. JobInv'
  BY MachineUntouched DEF EditInv, JobInv
<1>4. CleanInv'
  BY NothingWithoutMachine DEF EditInv, CleanInv, NoMachine
<1> QED
  BY <1>1, <1>2, <1>3, <1>4 DEF EditInv

LEMMA JobEndKeeps ==
  ASSUME EditInv, JobEnds
  PROVE  EditInv'
<1>1. PICK j \in jobs :
        /\ jobs' = jobs \ {j} /\ UNCHANGED <<call, op, plan, watch>>
        /\ (Accepts(host, j) /\ host' = Applied(host, j)) \/ UNCHANGED host
  BY DEF JobEnds
<1>2. SoundRequest(j)
  BY DEF EditInv, JobInv
<1>3. CASE UNCHANGED host
  BY <1>1, <1>3 DEF EditInv, FilesOutliveVm, OpInv, JobInv, CleanInv, NoMachine
<1>4. CASE Accepts(host, j) /\ host' = Applied(host, j) /\ ~Makes(j)
  BY <1>1, <1>2, <1>4, ChangeKeeps
<1>5. CASE Accepts(host, j) /\ host' = Applied(host, j) /\ Makes(j)
  <2>1. FilesOutliveVm'
    BY <1>2, <1>5, AppliedKeepsFiles DEF EditInv, FilesOutliveVm
  <2>2. JobInv'
    BY <1>1, <1>5 DEF EditInv, JobInv
  <2>3. OpInv' /\ CleanInv'
    BY <1>1, <1>5 DEF EditInv, OpInv, JobInv, CleanInv
  <2> QED
    BY <2>1, <2>2, <2>3 DEF EditInv
<1> QED
  BY <1>1, <1>3, <1>4, <1>5

LEMMA ForeignKeeps ==
  ASSUME EditInv, Foreign
  PROVE  EditInv'
<1>1. PICK at \in Addrs, n \in Nics, s \in Switches :
        \E r \in {Add(Drive(at), "disk"), Remove(Drive(at)), Remove(Medium(at)),
                  Remove(Ctrl(at[1])), Remove(Port(n)), Modify(Connection(n), s)} :
          Accepts(host, r) /\ host' = Applied(host, r)
  BY DEF Foreign
<1>2. PICK r \in {Add(Drive(at), "disk"), Remove(Drive(at)), Remove(Medium(at)),
                  Remove(Ctrl(at[1])), Remove(Port(n)), Modify(Connection(n), s)} :
        Accepts(host, r) /\ host' = Applied(host, r)
  BY <1>1
<1>3. Ctrl(at[1])[1] = "ctrl"
  BY DEF Ctrl
<1>4. \A t, v : t[1] \notin {"vm", "file"} =>
        /\ SoundRequest(Add(t, v)) /\ SoundRequest(Remove(t)) /\ SoundRequest(Modify(t, v))
        /\ ~Makes(Add(t, v)) /\ ~Makes(Remove(t)) /\ ~Makes(Modify(t, v))
  BY DEF SoundRequest, Makes, Add, Remove, Modify, Request, One, VM, File
<1>5. SoundRequest(r) /\ ~Makes(r)
  BY <1>2, <1>3, <1>4, Parts
<1> QED
  BY <1>2, <1>5, ChangeKeeps DEF Foreign

----------------------------------------------------------------------------
(* The theorem.                                                            *)

LEMMA EditInvInit == Init => EditInv
<1> SUFFICES ASSUME Init PROVE EditInv
  OBVIOUS
<1>1. /\ jobs = {} /\ call = NoCall /\ op = NoOp /\ plan = <<>> /\ watch.state = "none"
  BY Zenon DEF Init
<1>2. PICK onDisk \in SUBSET Vhds, made \in Machines :
        /\ \A t \in DOMAIN made : made[t] \in Vhds => made[t] \in onDisk
        /\ host = [t \in Things |-> IF t \in {File(f) : f \in onDisk} THEN "present"
                                    ELSE IF t \in DOMAIN made THEN made[t] ELSE Absent]
  BY Zenon DEF Init
<1>3. FilesOutliveVm
  <2> SUFFICES ASSUME NEW at \in Addrs, host[Medium(at)] \in Vhds
               PROVE  host[File(host[Medium(at)])] # Absent
    BY DEF FilesOutliveVm
  <2>1. Medium(at) \in Things /\ Medium(at) \notin {File(f) : f \in onDisk}
    BY ThingsAre DEF Medium, File
  <2>2. host[Medium(at)] \in onDisk
    BY <1>2, <2>1, BoundsAssumption
  <2>3. File(host[Medium(at)]) \in Things
    BY ThingsAre
  <2> QED
    BY <1>2, <2>2, <2>3 DEF Absent
<1>4. OpInv
  BY <1>1, IdleIsPlanned, EmptySeq DEF OpInv, NoCall, Planned
<1> QED
  BY <1>1, <1>3, <1>4 DEF EditInv, JobInv, CleanInv

LEMMA EditInvStep == EditInv /\ [Next]_vars => EditInv'
<1> SUFFICES ASSUME EditInv, [Next]_vars PROVE EditInv'
  OBVIOUS
<1>1. CASE UNCHANGED vars
  BY <1>1 DEF vars, EditInv, FilesOutliveVm, OpInv, JobInv, CleanInv, NoMachine
<1>2. CASE Step
  BY <1>2, CallsKeep, LooksKeep, MediaKeep, SettersKeep, SecurityKeeps, CreationKeeps, DestroyKeeps,
     ReturnKeeps DEF Step
<1> QED
  BY <1>1, <1>2, EditsBegin, CreationBegins, WatcherKeeps, JobEndKeeps, ForeignKeeps DEF Next

\* DestroyVM and the watcher of its job delete a disk file only once no drive
\* of the machine holds it: whatever the edits before it left running, and
\* whatever Hyper-V or other tools change under them.
THEOREM DiskFilesOutliveVm == Spec => []FilesOutliveVm
<1>1. Init => EditInv
  BY EditInvInit
<1>2. EditInv /\ [Next]_vars => EditInv'
  BY EditInvStep
<1>3. EditInv => FilesOutliveVm
  BY DEF EditInv
<1> QED
  BY <1>1, <1>2, <1>3, PTL DEF Spec

----------------------------------------------------------------------------
(* What an edit is about.                                                   *)

\* A machine without a part has nothing of that part.
Tree(h) == \A t \in Things : \A u \in Ancestors[t] : h[u] = Absent => h[t] = Absent

\* Without a key protector no security setting is on.
Bare(h) == h[Protector] = Absent => \A s \in Secrets : h[Security(s)] \in {Absent, "off"}

\* A request that adds no security setting but one that is off.
Fair(r) ==
  /\ Protector \in DOMAIN r.set => r.set[Protector] # Absent
  /\ \/ DOMAIN r.set \subseteq SecurityThings
     \/ \A s \in Secrets : Security(s) \in DOMAIN r.set => r.set[Security(s)] = "off"

DiskSteps == {"createFile", "resolve", "addDrive", "findDrive", "addVhd", "pollLink", "rollback"}
NicSteps  == {"addPort", "findPort", "addConnection"}
Attaches  == {"attach", "createDisk"}

CreateSteps == {"define", "modify", "addCtrl", "mountFirst", "promote"} \cup DiskSteps \cup NicSteps

\* The step is one of an edit of that kind.
Fits(kind, step) ==
  /\ kind = "none" => step = "idle"
  /\ kind \in Attaches => step \in DiskSteps
  /\ kind \in {"physical", "addDvd"} => step \in {"resolve", "addDrive"}
  /\ kind = "media" => step = "media"
  /\ kind \in {"detach", "removeDvd"} => step \in {"removeMedium", "removeDrive"}
  /\ kind = "addScsi" => step = "addCtrl"
  /\ kind = "removeScsi" => step = "removeCtrl"
  /\ kind = "addNic" => step \in NicSteps
  /\ kind = "removeNic" => step \in {"removeConnection", "removePort"}
  /\ kind \in {"switch", "port"} => step = "modify"
  /\ kind = "feature" => step = "feature"
  /\ kind \in Secrets => step \in {"protect", "secure"}
  /\ kind = "destroy" => step = "destroy"
  /\ kind = "create" => step \in CreateSteps

\* The places, files and things a step names.
StepNames(o) ==
  /\ o.step \in {"addDrive", "findDrive", "addVhd", "pollLink", "rollback", "media",
                 "removeMedium", "removeDrive", "promote"} => o.at \in Addrs
  /\ o.step \in {"createFile", "findDrive", "addVhd", "pollLink", "rollback"} => o.what \in Vhds
  /\ o.step \in NicSteps \cup {"removeConnection", "removePort"} => \E n \in Nics : o.thing = Port(n)
  /\ o.step \in {"protect", "secure"} => o.what \in {"on", "off"} /\ o.thing \in SecurityThings

TypedOps  == {o \in Ops : StepNames(o)}
CreateOps == {o \in TypedOps : o.step \in CreateSteps \ {"define"}}

\* The things and values an edit names, by its kind.
Names(kind, o) ==
  /\ kind \in Attaches => o.at \in Addrs /\ o.what \in Vhds
  /\ kind = "physical" => o.at \in Addrs /\ o.what \in Raw
  /\ kind = "addDvd" => o.at \in Addrs /\ o.what = "dvd"
  /\ kind = "media" =>
       /\ o.at \in Addrs /\ o.what \in Some(Isos) /\ o.thing \in {VM, Medium(o.at)}
       /\ o.what = Absent => o.thing = Medium(o.at)
  /\ kind \in {"detach", "removeDvd"} => o.at \in Addrs /\ o.what = Absent
  /\ kind \in {"addScsi", "removeScsi"} => \E c \in Scsi : o.thing = Ctrl(c)
  /\ kind = "addScsi" => o.what = "present"
  /\ kind \in {"removeScsi", "removeNic"} => o.what = Absent
  /\ kind \in {"addNic", "removeNic", "port"} => \E n \in Nics : o.thing = Port(n)
  /\ kind = "switch" => \E n \in Nics : o.thing = Connection(n)
  /\ kind \in {"addNic", "switch"} => o.what \in Switches \cup {"off"}
  /\ kind = "port" => o.what = "set"
  /\ kind = "feature" => \E n \in Nics, f \in Features : o.thing = Feature(n, f)
  /\ kind \in Secrets => o.thing = Security(kind) /\ o.what \in {"on", "off"}

\* What the edit is to achieve, by its kind.
Aims(kind, o, goal) ==
  /\ kind \in Attaches \cup {"media"} => goal = One(Medium(o.at), o.what)
  /\ kind \in {"physical", "addDvd", "detach", "removeDvd"} => goal = One(Drive(o.at), o.what)
  /\ kind \in {"addScsi", "removeScsi", "removeNic", "switch", "port", "feature"} =>
       goal = One(o.thing, o.what)
  /\ kind = "addNic" => goal = One(Connection(o.thing[2]), o.what)
  /\ kind \in Secrets => goal = SecuritySet(o.thing, o.what)
  /\ kind = "create" => goal = One(VM, "present")
  /\ kind = "destroy" => DOMAIN goal = {}

\* No call of the edit was answered by a job; nobody else changed the machine.
Clean  == "foreign" \notin Marks
Prompt == Clean /\ "started" \notin Marks

Types ==
  /\ host \in [Things -> Values]
  /\ \A j \in jobs : IsRequest(j) /\ Fair(j)
  /\ call.kind \in AllKinds \cup {"none"} /\ call.gen \in {1, 2}
  /\ call.rest \in Seq(CreateOps) /\ plan \in Seq(CreateOps)
  /\ op \in TypedOps
  /\ watch \in [state : {"none", "running", "clean"}, files : SUBSET Vhds]
  /\ budget \in [edits : 0 .. MaxEdits, faults : 0 .. MaxFaults]

KindInv ==
  /\ call.kind = "none" => hit = {} /\ op.step = "idle"
  /\ (op.step = "returned" /\ plan = <<>>) \/ Fits(call.kind, op.step)
  /\ call.kind # "create" \/ op.step = "define" => plan = <<>>
  /\ Names(call.kind, op) /\ Aims(call.kind, op, call.goal)

\* What earlier edits left behind is a change by others.
Alone ==
  call.kind \notin {"none", "destroy"} =>
    /\ Clean => watch.state = "none"
    /\ Prompt => jobs = {}

Typed == EditInv /\ Types /\ KindInv /\ Tree(host) /\ Bare(host) /\ Alone

----------------------------------------------------------------------------
(* What a request does to the tree.                                        *)

LEMMA MediumAncestors ==
  ASSUME NEW at \in Addrs
  PROVE  /\ Ancestors[Drive(at)] = {Ctrl(at[1]), VM}
         /\ Ancestors[Medium(at)] = {Drive(at), Ctrl(at[1]), VM}
<1>1. Parent(Medium(at)) = Drive(at) /\ Parent(Drive(at)) = Ctrl(at[1]) /\ Parent(Ctrl(at[1])) = VM
  BY ParentOfTop, ParentOfStorage
<1>2. Parent(VM) = VM /\ Drive(at) \in Things /\ Medium(at) \in Things
  BY ParentOfTop, ThingsAre
<1> QED
  BY <1>1, <1>2 DEF Ancestors

LEMMA TopAncestors ==
  /\ \A t \in {VM, Protector, BootFirst} \cup CoreThings \cup SecurityThings : Ancestors[t] = {VM}
  /\ \A c \in Ctrls : Ancestors[Ctrl(c)] = {VM}
BY ParentOfTop, ThingsAre DEF Ancestors

LEMMA NicAncestors ==
  ASSUME NEW n \in Nics
  PROVE  /\ Ancestors[Port(n)] = {VM}
         /\ Ancestors[Connection(n)] = {Port(n), VM}
         /\ \A f \in Features : Ancestors[Feature(n, f)] = {Connection(n), Port(n), VM}
<1>1. Parent(Port(n)) = VM /\ Parent(Connection(n)) = Port(n) /\ Parent(VM) = VM
  BY ParentOfTop
<1>2. \A f : Parent(Feature(n, f)) = Connection(n)
  BY ParentOfTop
<1>3. Port(n) \in Things /\ Connection(n) \in Things /\ \A f \in Features : Feature(n, f) \in Things
  BY ThingsAre
<1> QED
  BY <1>1, <1>2, <1>3 DEF Ancestors

\* What is above a thing's parent is above the thing, and there is no more.
LEMMA AncestorsAre ==
  ASSUME NEW t \in Things
  PROVE  /\ Parent(t) \in Ancestors[t] /\ Parent(t) \in Things
         /\ Ancestors[t] \subseteq {Parent(t)} \cup Ancestors[Parent(t)]
         /\ \A u \in Ancestors[t] : u \in Things /\ Ancestors[u] \subseteq Ancestors[t]
<1>1. CASE t \in {VM, Protector, BootFirst} \cup CoreThings \cup SecurityThings
  BY <1>1, TopAncestors, ParentOfTop, ThingsAre
<1>2. CASE \E c \in Ctrls : t = Ctrl(c)
  BY <1>2, TopAncestors, ParentOfTop, ThingsAre
<1>3. CASE \E at \in Addrs : t = Drive(at) \/ t = Medium(at)
  <2>1. PICK at \in Addrs : t = Drive(at) \/ t = Medium(at)
    BY <1>3
  <2>2. at[1] \in Ctrls /\ Ctrl(at[1]) \in Things /\ Ancestors[Ctrl(at[1])] = {VM} /\ Ancestors[VM] = {VM}
    BY AddrsArePairs, TopAncestors, ThingsAre
  <2>3. Drive(at) \in Things /\ Medium(at) \in Things /\ VM \in Things
    BY ThingsAre
  <2> QED
    BY <2>1, <2>2, <2>3, MediumAncestors, ParentOfStorage
<1>4. CASE \E n \in Nics : t = Port(n) \/ t = Connection(n)
  BY <1>4, NicAncestors, TopAncestors, ParentOfTop, ThingsAre
<1>5. CASE \E n \in Nics, f \in Features : t = Feature(n, f)
  BY <1>5, NicAncestors, TopAncestors, ParentOfTop, ThingsAre
<1>6. CASE \E f \in Vhds : t = File(f)
  BY <1>6, FileAlone, ParentOfTop, ThingsAre
<1> QED
  BY <1>1, <1>2, <1>3, <1>4, <1>5, <1>6, ThingKinds

\* The machine with the values of a request, before what they leave without
\* a place goes.
Laid(h, r) == [t \in Things |-> IF t \in DOMAIN r.set THEN r.set[t] ELSE h[t]]

\* A change of security settings that changes nothing.
Ignored(h, r) == DOMAIN r.set \subseteq SecurityThings /\ h[Protector] = Absent

LEMMA AppliedIs ==
  ASSUME NEW h, NEW r
  PROVE  Applied(h, r) = IF Ignored(h, r) THEN h ELSE Pruned(Laid(h, r))
BY DEF Applied, Ignored, Laid

LEMMA AppliedTyped ==
  ASSUME NEW h \in [Things -> Values], NEW r, IsRequest(r)
  PROVE  Applied(h, r) \in [Things -> Values]
<1>1. \A t \in Things : Laid(h, r)[t] \in Values
  BY DEF Laid, IsRequest
<1>2. Pruned(Laid(h, r)) \in [Things -> Values]
  <2>1. \A t \in Things : Pruned(Laid(h, r))[t] \in {Absent, Laid(h, r)[t]}
    BY PrunedKeeps
  <2>2. Absent \in Values
    BY ValuesAre
  <2> QED
    BY <1>1, <2>1, <2>2 DEF Pruned
<1> QED
  BY <1>2, AppliedIs

LEMMA PrunedTree == \A h : Tree(Pruned(h))
<1> SUFFICES ASSUME NEW h, NEW t \in Things, NEW u \in Ancestors[t], Pruned(h)[u] = Absent
             PROVE  Pruned(h)[t] = Absent
  BY DEF Tree
<1>1. u \in Things /\ Ancestors[u] \subseteq Ancestors[t]
  BY AncestorsAre
<1>2. h[u] = Absent \/ \E w \in Ancestors[u] : h[w] = Absent
  BY <1>1, PrunedKeeps
<1>3. \E w \in Ancestors[t] : h[w] = Absent
  BY <1>1, <1>2
<1> QED
  BY <1>3, PrunedKeeps

LEMMA AppliedTree == ASSUME NEW h, NEW r, Tree(h) PROVE Tree(Applied(h, r))
BY AppliedIs, PrunedTree

LEMMA SecretsAre == \A s \in Secrets : Security(s) \in SecurityThings /\ Security(s) \in Things
BY ThingsAre DEF SecurityThings

LEMMA AppliedBare ==
  ASSUME NEW h, NEW r, Bare(h), Fair(r)
  PROVE  Bare(Applied(h, r))
<1> DEFINE g == Laid(h, r)
<1>1. CASE Ignored(h, r)
  BY <1>1, AppliedIs
<1>2. CASE ~Ignored(h, r)
  <2>1. Applied(h, r) = Pruned(g)
    BY <1>2, AppliedIs
  <2> SUFFICES ASSUME Pruned(g)[Protector] = Absent, NEW s \in Secrets
               PROVE  Pruned(g)[Security(s)] \in {Absent, "off"}
    BY <2>1 DEF Bare
  <2>2. Protector \in Things /\ Ancestors[Protector] = {VM}
    BY ThingsAre, TopAncestors
  <2>3. Security(s) \in Things /\ Ancestors[Security(s)] = {VM}
    BY SecretsAre, TopAncestors
  <2>4. CASE g[VM] = Absent
    BY <2>3, <2>4, PrunedKeeps
  <2>5. CASE g[VM] # Absent
    <3>1. g[Protector] = Absent
      BY <2>2, <2>5, PrunedKeeps
    <3>2. h[Protector] = Absent
      BY <2>2, <3>1 DEF Laid, Fair
    <3>3. \A x \in Secrets : Security(x) \in DOMAIN r.set => r.set[Security(x)] = "off"
      BY <1>2, <3>2 DEF Ignored, Fair
    <3>4. g[Security(s)] \in {Absent, "off"}
      BY <2>3, <3>2, <3>3 DEF Bare, Laid
    <3> HIDE DEF g
    <3> QED
      BY <2>3, <3>4, PrunedKeeps
  <2> QED
    BY <2>4, <2>5
<1> QED
  BY <1>1, <1>2

\* An accepted request for one thing, not a security setting, gives it the value.
LEMMA OneApplied ==
  ASSUME NEW h, NEW r, NEW t \in Things, NEW v, r.set = One(t, v), t \notin SecurityThings,
         Tree(h), Accepts(h, r)
  PROVE  Applied(h, r)[t] = v
<1> DEFINE g == Laid(h, r)
<1>1. DOMAIN r.set = {t} /\ r.set[t] = v
  BY DEF One
<1>2. Applied(h, r) = Pruned(g)
  BY <1>1, AppliedIs DEF Ignored
<1>3. g[t] = v
  BY <1>1 DEF Laid
<1>4. CASE v = Absent
  <2> HIDE DEF g
  <2> QED
    BY <1>2, <1>3, <1>4, PrunedKeeps
<1>5. CASE v # Absent
  <2>1. \A u \in Ancestors[t] : g[u] # Absent
    <3> SUFFICES ASSUME NEW u \in Ancestors[t], u # t PROVE g[u] # Absent
      BY <1>3, <1>5
    <3>1. u \in Things /\ g[u] = h[u]
      BY <1>1, AncestorsAre DEF Laid
    <3>2. Parent(t) # t
      <4>1. SUFFICES ASSUME Parent(t) = t PROVE FALSE
        OBVIOUS
      <4>2. Ancestors[t] = {t}
        BY <4>1 DEF Ancestors
      <4> QED
        BY <4>2
    <3>3. h[Parent(t)] # Absent
      BY <1>1, <3>2 DEF Accepts
    <3>4. u = Parent(t) \/ u \in Ancestors[Parent(t)]
      BY AncestorsAre
    <3>5. h[u] # Absent
      BY <3>3, <3>4, AncestorsAre DEF Tree
    <3> QED
      BY <3>1, <3>5
  <2> HIDE DEF g
  <2> QED
    BY <1>2, <1>3, <2>1, PrunedKeeps
<1> QED
  BY <1>4, <1>5

\* Other things stay, unless what they are part of goes.
LEMMA OthersApplied ==
  ASSUME NEW h, NEW r, NEW x \in Things, x \notin DOMAIN r.set
  PROVE  /\ Applied(h, r)[x] \in {Absent, h[x]}
         /\ Tree(h) /\ (\A t \in DOMAIN r.set : r.set[t] # Absent) => Applied(h, r)[x] = h[x]
<1> DEFINE g == Laid(h, r)
<1>1. g[x] = h[x]
  BY DEF Laid
<1>2. Applied(h, r) = h \/ Applied(h, r) = Pruned(g)
  BY AppliedIs
<1>3. ASSUME Tree(h), \A t \in DOMAIN r.set : r.set[t] # Absent, h[x] # Absent
      PROVE  \A u \in Ancestors[x] : g[u] # Absent
  BY <1>3, AncestorsAre DEF Laid, Tree
<1> HIDE DEF g
<1> QED
  BY <1>1, <1>2, <1>3, PrunedKeeps

----------------------------------------------------------------------------
(* One step of an edit.                                                    *)

\* What a call does, but for where the edit goes from there.
Said(r) ==
  /\ \/ Accepts(host, r) /\ host' = Applied(host, r) /\ UNCHANGED <<jobs, hit>>
     \/ Accepts(host, r) /\ host' = host /\ jobs' = jobs \cup {r} /\ Note("started")
     \/ UNCHANGED <<host, jobs>> /\ \E what \in {"refused", "failed", "threw"} : Note(what)
  /\ UNCHANGED <<call, watch>> /\ (budget' = budget \/ Spend)

\* Some other step of the edit in hand, or its end.
Forth ==
  /\ op' \in TypedOps /\ plan' \in Seq(CreateOps)
  /\ call.kind # "create" => plan' = <<>> /\ op'.at = op.at /\ op'.thing = op.thing /\ op'.what = op.what
  /\ op'.step # "define"
  /\ (op'.step = "returned" /\ plan' = <<>>) \/ Fits(call.kind, op'.step)

LEMMA MarksOf ==
  /\ \A what : Note(what) => hit \subseteq hit' /\ Marks' = Marks \cup {what}
  /\ hit' = hit => Marks' = Marks
<1>1. ASSUME NEW what, Note(what) PROVE hit \subseteq hit' /\ Marks' = Marks \cup {what}
  <2> DEFINE m == <<IF call.kind = "create" THEN "define" ELSE op.step, what>>
  <2>1. hit' = hit \cup {m} /\ m[2] = what
    BY <1>1 DEF Note
  <2> HIDE DEF m
  <2> QED
    BY <2>1 DEF Marks
<1>2. hit' = hit => Marks' = Marks
  BY DEF Marks
<1> QED
  BY <1>1, <1>2

LEMMA NotIdle ==
  ASSUME KindInv, op.step # "idle"
  PROVE  call.kind # "none"
BY DEF KindInv

LEMMA SpendTyped ==
  ASSUME Types, budget' = budget \/ Spend
  PROVE  budget' \in [edits : 0 .. MaxEdits, faults : 0 .. MaxFaults]
<1>1. CASE Spend
  <2>1. budget.faults \in 0 .. MaxFaults /\ budget.faults > 0 /\ MaxFaults \in Nat
    BY <1>1, BoundsAssumption DEF Types, Spend
  <2>2. budget.faults - 1 \in 0 .. MaxFaults
    BY <2>1
  <2>3. budget' = [budget EXCEPT !.faults = budget.faults - 1]
    BY <1>1 DEF Spend
  <2> QED
    BY <2>2, <2>3 DEF Types
<1> QED
  BY <1>1 DEF Types

LEMMA ForthKinds ==
  ASSUME KindInv, call.kind # "none", Forth, UNCHANGED call
  PROVE  KindInv'
<1>1. CASE call.kind = "create"
  BY <1>1 DEF KindInv, Forth, Names, Aims, Attaches, Secrets
<1>2. CASE call.kind # "create"
  BY <1>2 DEF KindInv, Forth, Names, Aims
<1> QED
  BY <1>1, <1>2

LEMMA SaidKeeps ==
  ASSUME Typed, EditInv', op.step # "idle", NEW r, IsRequest(r), Fair(r), Said(r), Forth
  PROVE  Typed'
<1>1. call.kind # "none"
  BY NotIdle DEF Typed
<1>2. UNCHANGED <<call, watch>> /\ (budget' = budget \/ Spend)
  BY DEF Said
<1>3. KindInv'
  BY <1>1, <1>2, ForthKinds DEF Typed
<1>4. host' = host \/ host' = Applied(host, r)
  BY DEF Said
<1>5. host' \in [Things -> Values] /\ Tree(host') /\ Bare(host')
  BY <1>4, AppliedTyped, AppliedTree, AppliedBare DEF Typed, Types
<1>6. \A j \in jobs' : IsRequest(j) /\ Fair(j)
  BY DEF Said, Typed, Types
<1>7. budget' \in [edits : 0 .. MaxEdits, faults : 0 .. MaxFaults]
  BY <1>2, SpendTyped DEF Typed
<1>8. Types'
  BY <1>2, <1>5, <1>6, <1>7 DEF Typed, Types, Forth
<1>9. Alone'
  <2>1. Marks \subseteq Marks'
    BY MarksOf DEF Said
  <2>2. "started" \notin Marks' => jobs' = jobs
    BY MarksOf DEF Said
  <2> QED
    BY <1>2, <2>1, <2>2 DEF Typed, Alone, Clean, Prompt
<1> QED
  BY <1>3, <1>5, <1>8, <1>9 DEF Typed

\* A look is a call that was refused, but for the note of it.
LEMMA QuietKeeps ==
  ASSUME Typed, EditInv', op.step # "idle", Quiet, Forth
  PROVE  Typed'
<1>1. call.kind # "none" /\ UNCHANGED <<host, jobs, call, watch, hit, budget>>
  BY NotIdle DEF Typed, Quiet
<1>2. KindInv'
  BY <1>1, ForthKinds DEF Typed
<1>3. Types' /\ Tree(host') /\ Bare(host')
  BY <1>1 DEF Typed, Types, Forth
<1>4. Alone'
  BY <1>1 DEF Typed, Alone, Clean, Prompt, Marks
<1> QED
  BY <1>2, <1>3, <1>4 DEF Typed

LEMMA GotoForth ==
  ASSUME Types, KindInv, NEW step \in Steps \ {"define"}, Fits(call.kind, step), Goto(step),
         StepNames([op EXCEPT !.step = step])
  PROVE  Forth
<1>1. op' = [op EXCEPT !.step = step] /\ plan' = plan
  BY DEF Goto
<1>2. op \in Ops /\ op' \in Ops
  BY <1>1 DEF Types, TypedOps, Ops
<1>3. op' \in TypedOps
  BY <1>1, <1>2 DEF TypedOps
<1>4. op'.step = step /\ op'.at = op.at /\ op'.thing = op.thing /\ op'.what = op.what
  BY <1>1, <1>2 DEF Ops
<1> QED
  BY <1>1, <1>3, <1>4 DEF Forth, Types, KindInv

LEMMA AfterwardsForth ==
  ASSUME Types, KindInv, NEW step \in Steps \ {"define"}, Fits(call.kind, step), NEW ok \in BOOLEAN,
         Afterwards(step, ok), StepNames([op EXCEPT !.step = step])
  PROVE  Forth
<1>1. op' = [op EXCEPT !.step = step, !.ok = ok] /\ plan' = plan
  BY DEF Afterwards
<1>2. op \in Ops /\ op' \in Ops
  BY <1>1 DEF Types, TypedOps, Ops
<1>3. op'.step = step /\ op'.at = op.at /\ op'.thing = op.thing /\ op'.what = op.what
  BY <1>1, <1>2 DEF Ops
<1>4. op' \in TypedOps
  <2>1. StepNames(op')
    BY <1>2, <1>3 DEF StepNames, Ops
  <2> QED
    BY <1>2, <2>1 DEF TypedOps
<1> QED
  BY <1>1, <1>3, <1>4 DEF Forth, Types, KindInv

\* Where an edit but the creation returns.
LEMMA FinishIs ==
  ASSUME Types, KindInv, NEW ok \in BOOLEAN, Finish(ok)
  PROVE  /\ plan = <<>> =>
              /\ plan' = <<>> /\ op'.step = "returned" /\ op' \in Ops
              /\ op'.at = op.at /\ op'.thing = op.thing /\ op'.what = op.what
              /\ op'.ok = (ok \/ (call.kind = "create" /\ op.step # "define"))
         /\ plan # <<>> => op' = Head(plan) /\ plan' = Tail(plan) /\ op' \in CreateOps /\ plan' \in Seq(CreateOps)
<1>1. CASE plan = <<>>
  <2> DEFINE b == ok \/ (call.kind = "create" /\ op.step # "define")
  <2>1. op' = [op EXCEPT !.step = "returned", !.ok = b] /\ plan' = plan
    BY <1>1 DEF Finish
  <2>2. b \in BOOLEAN /\ op \in Ops
    BY DEF Types, TypedOps
  <2> HIDE DEF b
  <2>3. op' \in Ops /\ op'.step = "returned" /\ op'.at = op.at /\ op'.thing = op.thing /\ op'.what = op.what /\ op'.ok = b
    BY <2>1, <2>2 DEF Ops, Steps
  <2> QED
    BY <1>1, <2>1, <2>3 DEF b
<1>2. CASE plan # <<>>
  <2>1. op' = Head(plan) /\ plan' = Tail(plan)
    BY <1>2 DEF Finish
  <2> QED
    BY <1>2, <2>1, HeadTailProperties DEF Types
<1> QED
  BY <1>1, <1>2

LEMMA FinishForth ==
  ASSUME Types, KindInv, NEW ok \in BOOLEAN, Finish(ok)
  PROVE  Forth
<1>1. CASE plan = <<>>
  <2>1. StepNames(op')
    BY <1>1, FinishIs DEF StepNames, NicSteps
  <2>2. op' \in TypedOps
    BY <1>1, <2>1, FinishIs DEF TypedOps
  <2> QED
    BY <1>1, <2>2, FinishIs DEF Forth, Types
<1>2. CASE plan # <<>>
  <2>1. call.kind = "create"
    BY <1>2 DEF KindInv
  <2>2. op' \in CreateOps /\ plan' \in Seq(CreateOps)
    BY <1>2, FinishIs
  <2>3. op'.step \in CreateSteps /\ op'.step # "define" /\ op' \in TypedOps
    BY <2>2 DEF CreateOps
  <2> QED
    BY <2>1, <2>2, <2>3 DEF Forth, Fits, Attaches, Secrets
<1> QED
  BY <1>1, <1>2

----------------------------------------------------------------------------
(* The steps, one by one.                                                  *)

LEMMA OneIsRequest ==
  ASSUME NEW t \in Things, NEW v \in Values, t[1] \notin {"security", "protector"}
  PROVE  /\ \A verb \in {"add", "modify", "remove"} :
              IsRequest(Request(verb, One(t, v))) /\ Fair(Request(verb, One(t, v)))
         /\ IsRequest(Add(t, v)) /\ Fair(Add(t, v))
         /\ IsRequest(Modify(t, v)) /\ Fair(Modify(t, v))
<1>1. ASSUME NEW verb \in {"add", "modify", "remove"}
      PROVE  IsRequest(Request(verb, One(t, v))) /\ Fair(Request(verb, One(t, v)))
  <2>1. DOMAIN One(t, v) = {t} /\ One(t, v)[t] = v
    BY DEF One
  <2>2. Protector # t /\ \A s \in Secrets : Security(s) # t
    BY DEF Protector, Security
  <2> QED
    BY <2>1, <2>2 DEF IsRequest, Fair, Request
<1> QED
  BY <1>1 DEF Add, Modify

LEMMA RemoveIsRequest ==
  ASSUME NEW t \in Things, t[1] \notin {"security", "protector"}
  PROVE  IsRequest(Remove(t)) /\ Fair(Remove(t))
BY OneIsRequest, ValuesAre DEF Remove

LEMMA DrivesAre ==
  ASSUME NEW at \in Addrs
  PROVE  /\ Drive(at) \in Things /\ Drive(at)[1] \notin {"security", "protector"}
         /\ Medium(at) \in Things /\ Medium(at)[1] \notin {"security", "protector"}
BY ThingsAre, Parts

\* Where a drive goes is a place, the one the edit was told, if it was.
LEMMA TargetIs ==
  ASSUME Types, NEW at \in ResolveStorageTarget
  PROVE  at \in Addrs /\ (op.at \in Addrs => at = op.at)
<1> DEFINE Present(C) == {c \in C : host[Ctrl(c)] # Absent}
           pick == IF Present(Scsi) # {} THEN Present(Scsi) ELSE Present(Ide)
<1>1. op.at \in Addrs \cup {AnyPlace}
  BY DEF Types, TypedOps, Ops
<1>2. AnyPlace \notin Addrs
  BY AddrsArePairs, BoundsAssumption DEF Ctrls
<1>3. CASE op.at # AnyPlace
  BY <1>1, <1>3 DEF ResolveStorageTarget
<1>4. CASE op.at = AnyPlace
  <2>1. pick # {} => (CHOOSE c \in pick : TRUE) \in Ctrls
    BY DEF Ctrls
  <2>2. pick # {} => FreePlaces(CHOOSE c \in pick : TRUE) \subseteq Addrs
    BY <2>1, FreePlacesAreAddrs
  <2>3. ResolveStorageTarget \subseteq Addrs
    BY <1>4, <2>2 DEF ResolveStorageTarget
  <2> QED
    BY <1>2, <1>4, <2>3
<1> QED
  BY <1>3, <1>4

LEMMA OpTypes ==
  ASSUME Types
  PROVE  /\ op \in Ops /\ StepNames(op) /\ op.ok \in BOOLEAN /\ op.what \in Values /\ op.thing \in Things
         /\ op.at \in Addrs \cup {AnyPlace}
         /\ \A step : /\ [op EXCEPT !.step = step].step = step
                      /\ [op EXCEPT !.step = step].at = op.at
                      /\ [op EXCEPT !.step = step].what = op.what
                      /\ [op EXCEPT !.step = step].thing = op.thing
BY DEF Types, TypedOps, Ops

LEMMA ResolveTyped == Typed /\ EditInv' /\ Resolve => Typed'
<1> SUFFICES ASSUME Typed, EditInv', Resolve PROVE Typed'
  OBVIOUS
<1>1. Types /\ KindInv /\ op.step = "resolve" /\ Quiet
  BY DEF Typed, Resolve, At
<1>2. ASSUME NEW at \in ResolveStorageTarget,
             op' = [op EXCEPT !.step = "addDrive", !.at = at], plan' = plan
      PROVE  Forth
  <2>1. at \in Addrs /\ (op.at \in Addrs => at = op.at)
    BY <1>1, TargetIs
  <2>2. op \in Ops /\ op.what \in Values
    BY <1>1, OpTypes
  <2>3. op' \in Ops /\ op'.step = "addDrive" /\ op'.at = at /\ op'.what = op.what /\ op'.thing = op.thing
    BY <1>2, <2>1, <2>2 DEF Ops, Steps
  <2>4. op' \in TypedOps
    BY <2>1, <2>3 DEF TypedOps, StepNames, NicSteps
  <2>5. Fits(call.kind, "addDrive") /\ (call.kind # "create" => op.at \in Addrs)
    BY <1>1 DEF KindInv, Fits, Names, CreateSteps, DiskSteps, NicSteps, Attaches, Types, AllKinds, Secrets
  <2> QED
    BY <1>1, <1>2, <2>1, <2>3, <2>4, <2>5 DEF Forth, Types, KindInv
<1>3. Forth
  BY <1>1, <1>2, FinishForth DEF Resolve
<1> QED
  BY <1>1, <1>3, QuietKeeps

\* The kinds of edit a step is one of.
LEMMA KindsAt ==
  ASSUME Types, KindInv
  PROVE  /\ op.step \in {"createFile", "findDrive", "addVhd", "pollLink", "rollback"} =>
              call.kind \in Attaches \cup {"create"}
         /\ op.step = "addDrive" /\ op.what \in Vhds => call.kind \in Attaches \cup {"create"}
         /\ op.step \in {"resolve", "addDrive"} => call.kind \in Attaches \cup {"physical", "addDvd", "create"}
         /\ op.step = "media" => call.kind = "media"
         /\ op.step \in {"removeMedium", "removeDrive"} => call.kind \in {"detach", "removeDvd"}
         /\ op.step = "addCtrl" => call.kind \in {"addScsi", "create"}
         /\ op.step = "removeCtrl" => call.kind = "removeScsi"
         /\ op.step \in NicSteps => call.kind \in {"addNic", "create"}
         /\ op.step \in {"removeConnection", "removePort"} => call.kind = "removeNic"
         /\ op.step = "modify" => call.kind \in {"switch", "port", "create"}
         /\ op.step = "feature" => call.kind = "feature"
         /\ op.step \in {"protect", "secure"} => call.kind \in Secrets
         /\ op.step \in {"define", "mountFirst", "promote"} => call.kind = "create"
         /\ op.step = "destroy" => call.kind = "destroy"
<1>1. call.kind \in AllKinds \cup {"none"} /\ (op.step = "returned" \/ Fits(call.kind, op.step))
  BY DEF Types, KindInv
<1>2. call.kind \in {"physical", "addDvd"} => op.what \notin Vhds
  BY BoundsAssumption DEF KindInv, Names
<1> QED
  BY <1>1, <1>2 DEF AllKinds, Fits, Attaches, Secrets, DiskSteps, NicSteps, CreateSteps

LEMMA FitsAt ==
  /\ \A kind \in Attaches \cup {"create"}, step \in DiskSteps : Fits(kind, step)
  /\ \A kind \in {"addNic", "create"}, step \in NicSteps : Fits(kind, step)
  /\ \A kind \in {"detach", "removeDvd"} : Fits(kind, "removeDrive")
  /\ Fits("removeNic", "removePort")
  /\ \A kind \in Secrets : Fits(kind, "secure")
  /\ Fits("create", "promote")
BY DEF Fits, Attaches, Secrets, DiskSteps, NicSteps, CreateSteps

\* The thing of an adapter's step is its port.
LEMMA NicIs ==
  ASSUME StepNames(op), op.step \in NicSteps \cup {"removeConnection", "removePort"}
  PROVE  /\ Nic \in Nics /\ op.thing = Port(Nic)
         /\ \A t \in {Port(Nic), Connection(Nic)} : t \in Things /\ t[1] \notin {"security", "protector"}
<1>1. PICK n \in Nics : op.thing = Port(n)
  BY DEF StepNames
<1>2. Nic = n
  BY <1>1 DEF Nic, Port
<1> QED
  BY <1>1, <1>2, ThingsAre, Parts

LEMMA FilesAre == \A f : File(f)[1] \notin {"security", "protector"}
BY DEF File

LEMMA DiskCallsTyped ==
  ASSUME Typed, EditInv',
         AddDiskDrive \/ AddDvdDrive \/ AttachPhysicalDisk \/ AddVhd \/ Rollback \/ CreateFile \/ RemoveDrive
  PROVE  Typed'
<1>o. Types /\ KindInv
  BY DEF Typed
<1> USE DEF At
<1>1. CASE AddDiskDrive
  <2> DEFINE r == Add(Drive(op.at), "disk")
  <2>1. IsRequest(r) /\ Fair(r)
    BY <1>1, <1>o, OpTypes, OneIsRequest, DrivesAre, ValuesAre DEF AddDiskDrive, StepNames
  <2>2. Goto("findDrive") => Forth
    BY <1>1, <1>o, KindsAt, FitsAt, OpTypes, GotoForth DEF AddDiskDrive, StepNames, DiskSteps, NicSteps, Steps
  <2>3. Forth
    BY <1>1, <1>o, <2>2, OpTypes, FinishForth DEF AddDiskDrive, Invoke, WaitForJob
  <2>4. Said(r) /\ op.step # "idle"
    BY <1>1 DEF AddDiskDrive, Invoke, WaitForJob, Said
  <2> QED
    BY <2>1, <2>3, <2>4, SaidKeeps
<1>2. CASE AddDvdDrive
  <2> DEFINE r == Add(Drive(op.at), "dvd")
  <2>1. IsRequest(r) /\ Fair(r)
    BY <1>2, <1>o, OpTypes, OneIsRequest, DrivesAre, ValuesAre DEF AddDvdDrive, StepNames
  <2>3. Forth
    BY <1>2, <1>o, OpTypes, FinishForth DEF AddDvdDrive, Invoke, WaitForJob
  <2>4. Said(r) /\ op.step # "idle"
    BY <1>2 DEF AddDvdDrive, Invoke, WaitForJob, Said
  <2> QED
    BY <2>1, <2>3, <2>4, SaidKeeps
<1>3. CASE AttachPhysicalDisk
  <2> DEFINE r == Add(Drive(op.at), op.what)
  <2>1. IsRequest(r) /\ Fair(r)
    BY <1>3, <1>o, OpTypes, OneIsRequest, DrivesAre DEF AttachPhysicalDisk, StepNames
  <2>3. Forth
    BY <1>3, <1>o, OpTypes, FinishForth DEF AttachPhysicalDisk, Invoke, WaitForJob
  <2>4. Said(r) /\ op.step # "idle"
    BY <1>3 DEF AttachPhysicalDisk, Invoke, WaitForJob, Said
  <2> QED
    BY <2>1, <2>3, <2>4, SaidKeeps
<1>4. CASE AddVhd
  <2> DEFINE r == Add(Medium(op.at), op.what)
  <2>1. IsRequest(r) /\ Fair(r)
    BY <1>4, <1>o, OpTypes, OneIsRequest, DrivesAre DEF AddVhd, StepNames
  <2>2. Goto("pollLink") \/ Goto("rollback") => Forth
    BY <1>4, <1>o, KindsAt, FitsAt, OpTypes, GotoForth DEF AddVhd, StepNames, DiskSteps, NicSteps, Steps
  <2>3. Forth
    BY <1>4, <1>o, <2>2, OpTypes, FinishForth DEF AddVhd, Invoke, WaitForJob
  <2>4. Said(r) /\ op.step # "idle"
    BY <1>4 DEF AddVhd, Invoke, WaitForJob, Said
  <2> QED
    BY <2>1, <2>3, <2>4, SaidKeeps
<1>5. CASE Rollback
  <2> DEFINE r == Remove(Drive(op.at))
  <2>1. IsRequest(r) /\ Fair(r)
    BY <1>5, <1>o, OpTypes, RemoveIsRequest, DrivesAre DEF Rollback, StepNames
  <2>3. Forth
    BY <1>5, <1>o, OpTypes, FinishForth DEF Rollback, Invoke, WaitForJob
  <2>4. Said(r) /\ op.step # "idle"
    BY <1>5 DEF Rollback, Invoke, WaitForJob, Said
  <2> QED
    BY <2>1, <2>3, <2>4, SaidKeeps
<1>6. CASE CreateFile
  <2> DEFINE r == Add(File(op.what), "present")
  <2>1. IsRequest(r) /\ Fair(r)
    BY <1>6, <1>o, OpTypes, OneIsRequest, ThingsAre, ValuesAre, FilesAre DEF CreateFile, StepNames
  <2>2. Goto("resolve") => Forth
    BY <1>6, <1>o, KindsAt, FitsAt, OpTypes, GotoForth DEF CreateFile, StepNames, DiskSteps, NicSteps, Steps
  <2>3. Forth
    BY <1>6, <1>o, <2>2, OpTypes, FinishForth DEF CreateFile, Invoke, WaitForJob
  <2>4. Said(r) /\ op.step # "idle"
    BY <1>6 DEF CreateFile, Invoke, WaitForJob, Said
  <2> QED
    BY <2>1, <2>3, <2>4, SaidKeeps
<1>7. CASE RemoveDrive
  <2> DEFINE r == Remove(Drive(op.at))
  <2>1. IsRequest(r) /\ Fair(r)
    BY <1>7, <1>o, OpTypes, RemoveIsRequest, DrivesAre DEF RemoveDrive, StepNames
  <2>3. Forth
    BY <1>7, <1>o, OpTypes, FinishForth DEF RemoveDrive, Invoke, WaitForJob
  <2>4. Said(r) /\ op.step # "idle"
    BY <1>7 DEF RemoveDrive, Invoke, WaitForJob, Said
  <2> QED
    BY <2>1, <2>3, <2>4, SaidKeeps
<1> QED
  BY <1>1, <1>2, <1>3, <1>4, <1>5, <1>6, <1>7

\* A controller's step names a controller, a feature's step a feature.
LEMMA ThingIs ==
  ASSUME Typed
  PROVE  /\ op.step \in {"addCtrl", "removeCtrl"} => op.thing[1] = "ctrl"
         /\ op.step = "feature" => op.thing[1] = "feature"
         /\ op.thing \in Things
BY OpTypes DEF Typed, EditInv, OpInv, GoodOps, Shaped

LEMMA NicCallsTyped ==
  ASSUME Typed, EditInv',
         AddScsiController \/ RemoveScsiController \/ AddPort \/ AddConnection \/ RemovePort
  PROVE  Typed'
<1>o. Types /\ KindInv
  BY DEF Typed
<1> USE DEF At
<1>1. CASE AddScsiController
  <2> DEFINE r == Add(op.thing, "present")
  <2>1. IsRequest(r) /\ Fair(r)
    BY <1>1, <1>o, ThingIs, OneIsRequest, ValuesAre DEF AddScsiController
  <2>3. Forth
    BY <1>1, <1>o, OpTypes, FinishForth DEF AddScsiController, Invoke, WaitForJob
  <2>4. Said(r) /\ op.step # "idle"
    BY <1>1 DEF AddScsiController, Invoke, WaitForJob, Said
  <2> QED
    BY <2>1, <2>3, <2>4, SaidKeeps
<1>2. CASE RemoveScsiController
  <2> DEFINE r == Remove(op.thing)
  <2>1. IsRequest(r) /\ Fair(r)
    BY <1>2, <1>o, ThingIs, RemoveIsRequest DEF RemoveScsiController
  <2>3. Forth
    BY <1>2, <1>o, OpTypes, FinishForth DEF RemoveScsiController, Invoke, WaitForJob
  <2>4. Said(r) /\ op.step # "idle"
    BY <1>2 DEF RemoveScsiController, Invoke, WaitForJob, Said
  <2> QED
    BY <2>1, <2>3, <2>4, SaidKeeps
<1>3. CASE AddPort
  <2> DEFINE r == Add(Port(Nic), "present")
  <2>1. IsRequest(r) /\ Fair(r)
    BY <1>3, <1>o, OpTypes, NicIs, OneIsRequest, ValuesAre DEF AddPort, NicSteps
  <2>2. Goto("findPort") => Forth
    BY <1>3, <1>o, KindsAt, FitsAt, OpTypes, GotoForth DEF AddPort, StepNames, DiskSteps, NicSteps, Steps
  <2>3. Forth
    BY <1>3, <1>o, <2>2, OpTypes, FinishForth DEF AddPort, Invoke, WaitForJob
  <2>4. Said(r) /\ op.step # "idle"
    BY <1>3 DEF AddPort, Invoke, WaitForJob, Said
  <2> QED
    BY <2>1, <2>3, <2>4, SaidKeeps
<1>4. CASE AddConnection
  <2> DEFINE r == Add(Connection(Nic), op.what)
  <2>1. IsRequest(r) /\ Fair(r)
    BY <1>4, <1>o, OpTypes, NicIs, OneIsRequest DEF AddConnection, NicSteps
  <2>3. Forth
    BY <1>4, <1>o, OpTypes, FinishForth DEF AddConnection, Invoke, WaitForJob
  <2>4. Said(r) /\ op.step # "idle"
    BY <1>4 DEF AddConnection, Invoke, WaitForJob, Said
  <2> QED
    BY <2>1, <2>3, <2>4, SaidKeeps
<1>5. CASE RemovePort
  <2> DEFINE r == Remove(Port(Nic))
  <2>1. IsRequest(r) /\ Fair(r)
    BY <1>5, <1>o, OpTypes, NicIs, RemoveIsRequest DEF RemovePort
  <2>3. Forth
    BY <1>5, <1>o, OpTypes, FinishForth DEF RemovePort, Invoke, WaitForJob
  <2>4. Said(r) /\ op.step # "idle"
    BY <1>5 DEF RemovePort, Invoke, WaitForJob, Said
  <2> QED
    BY <2>1, <2>3, <2>4, SaidKeeps
<1> QED
  BY <1>1, <1>2, <1>3, <1>4, <1>5

LEMMA LooksTyped ==
  ASSUME Typed, EditInv', FindDrive \/ PollLink \/ FindPort
  PROVE  Typed'
<1>o. Types /\ KindInv
  BY DEF Typed
<1> USE DEF At
<1>1. CASE FindDrive
  <2>1. Goto("addVhd") => Forth
    BY <1>1, <1>o, KindsAt, FitsAt, OpTypes, GotoForth DEF FindDrive, StepNames, DiskSteps, NicSteps, Steps
  <2>2. Forth
    BY <1>1, <1>o, <2>1, OpTypes, FinishForth DEF FindDrive
  <2>3. Quiet /\ op.step # "idle"
    BY <1>1 DEF FindDrive
  <2> QED
    BY <2>2, <2>3, QuietKeeps
<1>2. CASE PollLink
  <2>1. Goto("rollback") => Forth
    BY <1>2, <1>o, KindsAt, FitsAt, OpTypes, GotoForth DEF PollLink, StepNames, DiskSteps, NicSteps, Steps
  <2>2. Forth
    BY <1>2, <1>o, <2>1, OpTypes, FinishForth DEF PollLink
  <2>3. Quiet /\ op.step # "idle"
    BY <1>2 DEF PollLink
  <2> QED
    BY <2>2, <2>3, QuietKeeps
<1>3. CASE FindPort
  <2>1. Goto("addConnection") => Forth
    BY <1>3, <1>o, KindsAt, FitsAt, OpTypes, GotoForth DEF FindPort, StepNames, DiskSteps, NicSteps, Steps
  <2>2. Forth
    BY <1>3, <1>o, <2>1, OpTypes, FinishForth DEF FindPort
  <2>3. Quiet /\ op.step # "idle"
    BY <1>3 DEF FindPort
  <2> QED
    BY <2>2, <2>3, QuietKeeps
<1> QED
  BY <1>1, <1>2, <1>3

LEMMA SaidOrQuiet ==
  ASSUME Typed, EditInv', op.step # "idle", Forth,
         NEW r, IsRequest(r), Fair(r), Quiet \/ Said(r)
  PROVE  Typed'
BY SaidKeeps, QuietKeeps

LEMMA MediaTyped ==
  ASSUME Typed, EditInv', SetDvdMedia \/ RemoveMedium \/ RemoveConnection
  PROVE  Typed'
<1>o. Types /\ KindInv
  BY DEF Typed
<1> USE DEF At
<1>1. CASE SetDvdMedia
  <2>1. Forth
    BY <1>o, <1>1, FinishForth DEF SetDvdMedia, Invoke, WaitForJob
  <2>2. PICK r \in {Remove(Medium(op.at)), Modify(Medium(op.at), op.what),
                  Add(Medium(op.at), op.what)} : Quiet \/ Said(r)
    BY <1>1 DEF SetDvdMedia, Invoke, WaitForJob, Said
  <2>3. op.at \in Addrs /\ op.what \in Values /\ op.step # "idle"
    BY <1>o, <1>1, OpTypes DEF SetDvdMedia, StepNames
  <2>4. IsRequest(r) /\ Fair(r)
    BY <2>3, OneIsRequest, RemoveIsRequest, DrivesAre
  <2> QED
    BY <2>1, <2>2, <2>3, <2>4, SaidOrQuiet
<1>2. CASE RemoveMedium
  <2>1. op.at \in Addrs /\ op.step # "idle" /\ Fits(call.kind, "removeDrive")
    BY <1>o, <1>2, OpTypes, KindsAt, FitsAt DEF RemoveMedium, StepNames
  <2>2. Goto("removeDrive") \/ Afterwards("removeDrive", FALSE) => Forth
    BY <1>o, <2>1, OpTypes, GotoForth, AfterwardsForth DEF StepNames, NicSteps, Steps
  <2>3. Forth
    BY <1>o, <1>2, <2>2, FinishForth DEF RemoveMedium, Invoke, WaitForJob
  <2>4. Quiet \/ Said(Remove(Medium(op.at)))
    BY <1>2 DEF RemoveMedium, Invoke, WaitForJob, Said
  <2> QED
    BY <2>1, <2>3, <2>4, SaidOrQuiet, RemoveIsRequest, DrivesAre
<1>3. CASE RemoveConnection
  <2>1. /\ op.step = "removeConnection" /\ StepNames(op) /\ Fits(call.kind, "removePort")
        /\ \E n \in Nics : op.thing = Port(n)
    BY <1>o, <1>3, OpTypes, KindsAt, FitsAt DEF RemoveConnection, StepNames
  <2>2. Goto("removePort") \/ Afterwards("removePort", FALSE) => Forth
    BY ZenonT(60), <1>o, <2>1, OpTypes, GotoForth, AfterwardsForth DEF StepNames, NicSteps, Steps
  <2>3. Forth
    BY <1>o, <1>3, <2>2, FinishForth DEF RemoveConnection, Invoke, WaitForJob
  <2>4. Quiet \/ Said(Remove(Connection(Nic)))
    BY <1>3 DEF RemoveConnection, Invoke, WaitForJob, Said
  <2> QED
    BY <2>1, <2>3, <2>4, SaidOrQuiet, RemoveIsRequest, NicIs
<1> QED
  BY <1>1, <1>2, <1>3

LEMMA ModifyOneTyped ==
  ASSUME Typed, EditInv', NEW t, t[1] \notin {"security", "protector"}, ModifyOne(t)
  PROVE  Typed'
<1>o. Types /\ KindInv
  BY DEF Typed
<1>1. Forth
  BY <1>o, FinishForth DEF ModifyOne, Invoke, WaitForJob
<1>2. Said(Modify(t, op.what)) /\ op.step # "idle"
  BY DEF ModifyOne, Invoke, WaitForJob, Said, At
<1>3. t \in Things /\ op.what \in Values
  BY <1>o, OpTypes DEF ModifyOne
<1> QED
  BY <1>1, <1>2, <1>3, SaidKeeps, OneIsRequest

LEMMA ModifyOrAddTyped ==
  ASSUME Typed, EditInv', NEW f, ModifyOrAdd(f)
  PROVE  Typed'
<1> DEFINE verb == IF host[op.thing] = Absent THEN "add" ELSE "modify"
           r == Request(verb, One(op.thing, op.what))
<1>o. Types /\ KindInv
  BY DEF Typed
<1>1. Forth
  BY <1>o, FinishForth DEF ModifyOrAdd, Invoke, WaitForJob
<1>2. Said(r) /\ op.step = "feature"
  BY DEF ModifyOrAdd, Invoke, WaitForJob, Said, At
<1>3. op.thing \in Things /\ op.what \in Values /\ op.thing[1] = "feature"
  BY <1>o, <1>2, OpTypes, ThingIs
<1>4. verb \in {"add", "modify", "remove"}
  OBVIOUS
<1> HIDE DEF verb
<1> QED
  BY <1>1, <1>2, <1>3, <1>4, SaidKeeps, OneIsRequest

LEMMA SettersTyped ==
  ASSUME Typed, EditInv',
         \/ SetNetworkAdapterSwitch \/ SetNetworkAdapterPort
         \/ SetMemoryConfig \/ SetProcessorConfig
         \/ SetNetworkAdapterAdvanced \/ SetNetworkAdapterBandwidth \/ SetNetworkAdapterOffload
         \/ SetNetworkAdapterVlan
  PROVE  Typed'
<1>1. CASE SetNetworkAdapterSwitch \/ SetNetworkAdapterPort \/ SetMemoryConfig \/ SetProcessorConfig
  BY <1>1, ModifyOneTyped, Parts
     DEF SetNetworkAdapterSwitch, SetNetworkAdapterPort, SetMemoryConfig, SetProcessorConfig
<1>2. CASE SetNetworkAdapterAdvanced \/ SetNetworkAdapterBandwidth \/ SetNetworkAdapterOffload
  BY <1>2, ModifyOrAddTyped
     DEF SetNetworkAdapterAdvanced, SetNetworkAdapterBandwidth, SetNetworkAdapterOffload
<1>3. CASE SetNetworkAdapterVlan
  <2>1. CASE ModifyOrAdd("vlan")
    BY <2>1, ModifyOrAddTyped
  <2>2. CASE ~ModifyOrAdd("vlan")
    <3>o. Types /\ KindInv
      BY DEF Typed
    <3>1. Forth
      BY <1>3, <2>2, <3>o, FinishForth DEF SetNetworkAdapterVlan, Invoke, WaitForJob
    <3>2. (Quiet \/ Said(Remove(op.thing))) /\ op.step = "feature"
      BY <1>3, <2>2 DEF SetNetworkAdapterVlan, Invoke, WaitForJob, Said, At
    <3>3. op.thing \in Things /\ op.thing[1] = "feature"
      BY <3>2, ThingIs
    <3> QED
      BY <3>1, <3>2, <3>3, SaidOrQuiet, RemoveIsRequest
  <2> QED
    BY <2>1, <2>2
<1> QED
  BY <1>1, <1>2, <1>3

\* What a change of a security setting sets.
LEMMA SecuritySetIs ==
  ASSUME NEW t \in SecurityThings, NEW v \in {"on", "off"}
  PROVE  /\ DOMAIN SecuritySet(t, v) \subseteq SecurityThings /\ t \in DOMAIN SecuritySet(t, v)
         /\ \A u \in DOMAIN SecuritySet(t, v) : SecuritySet(t, v)[u] = v
BY DEF SecuritySet, All, One

LEMMA SecurityTyped ==
  ASSUME Typed, EditInv', EnsureKeyProtector \/ SetVmTpm \/ SetVmStateEncryption \/ SetVmShielded
  PROVE  Typed'
<1>o. Types /\ KindInv
  BY DEF Typed
<1>1. CASE EnsureKeyProtector
  <2>1. /\ op.step = "protect" /\ Fits(call.kind, "secure")
        /\ op.what \in {"on", "off"} /\ op.thing \in SecurityThings
    BY <1>o, <1>1, OpTypes, KindsAt, FitsAt DEF EnsureKeyProtector, StepNames, At
  <2>2. Goto("secure") => Forth
    BY <1>o, <2>1, OpTypes, GotoForth DEF StepNames, NicSteps, Steps
  <2>3. Forth
    BY <1>o, <1>1, <2>2, FinishForth DEF EnsureKeyProtector, Invoke, WaitForJob
  <2>4. Quiet \/ Said(Add(Protector, "present"))
    BY <1>1 DEF EnsureKeyProtector, Invoke, WaitForJob, Said
  <2>5. IsRequest(Add(Protector, "present")) /\ Fair(Add(Protector, "present"))
    <3>1. \A s : Security(s) # Protector
      BY DEF Security, Protector
    <3> QED
      BY <3>1, ThingsAre, ValuesAre DEF IsRequest, Fair, Add, Request, One, Absent
  <2> QED
    BY <2>1, <2>3, <2>4, <2>5, SaidOrQuiet
<1>2. ASSUME NEW s, ModifySecuritySettings(s) PROVE Typed'
  <2> DEFINE r == Request("modify", SecuritySet(op.thing, op.what))
  <2>1. Forth
    BY <1>o, <1>2, FinishForth DEF ModifySecuritySettings, Invoke, WaitForJob
  <2>2. Said(r) /\ op.step = "secure"
    BY <1>2 DEF ModifySecuritySettings, Invoke, WaitForJob, Said, At
  <2>3. op.thing \in SecurityThings /\ op.what \in {"on", "off"}
    BY <1>o, <2>2, OpTypes DEF StepNames
  <2>4. IsRequest(r) /\ Fair(r)
    <3>1. Protector \notin SecurityThings
      BY DEF Protector, SecurityThings, Security
    <3> QED
      BY <2>3, <3>1, SecuritySetIs, ThingsAre, ValuesAre DEF IsRequest, Fair, Request
  <2> QED
    BY <2>1, <2>2, <2>4, SaidKeeps
<1> QED
  BY <1>1, <1>2 DEF SetVmTpm, SetVmStateEncryption, SetVmShielded

----------------------------------------------------------------------------
(* Creating and deleting the machine.                                      *)

\* A machine as it is made: the machine, its own parts and, in the first
\* generation, controllers.
LEMMA FreshIs ==
  ASSUME NEW gen
  PROVE  /\ DOMAIN Fresh(gen) = {VM, BootFirst} \cup CoreThings \cup SecurityThings
                                 \cup (IF gen = 1 THEN {Ctrl(c) : c \in Ide} ELSE {})
         /\ DOMAIN Fresh(gen) \subseteq Things
         /\ Fresh(gen)[VM] = "present"
         /\ \A c \in Ide : gen = 1 => Fresh(gen)[Ctrl(c)] = "present"
         /\ \A t \in SecurityThings : Fresh(gen)[t] = "off"
         /\ \A t \in {BootFirst} \cup CoreThings : Fresh(gen)[t] = "default"
         /\ Protector \notin DOMAIN Fresh(gen)
<1>1. DOMAIN Fresh(gen) = {VM, BootFirst} \cup CoreThings \cup SecurityThings
                                 \cup (IF gen = 1 THEN {Ctrl(c) : c \in Ide} ELSE {})
  BY DEF Fresh
<1>2. DOMAIN Fresh(gen) \subseteq Things
  BY <1>1, ThingsAre DEF Ctrls
<1> DEFINE S == DOMAIN Fresh(gen)
<1>a. ASSUME NEW t \in S
      PROVE  Fresh(gen)[t] = (CASE t = VM \/ t[1] = "ctrl" -> "present"
                                [] t[1] = "security"       -> "off"
                                [] OTHER                   -> "default")
  BY DEF Fresh
<1> HIDE DEF S
<1>4. /\ \A t \in S : t = VM \/ t[1] = "ctrl" => Fresh(gen)[t] = "present"
      /\ \A t \in S : t # VM /\ t[1] = "security" => Fresh(gen)[t] = "off"
      /\ \A t \in S : t # VM /\ t[1] \notin {"ctrl", "security"} => Fresh(gen)[t] = "default"
  <2>1. ASSUME NEW t \in S, t = VM \/ t[1] = "ctrl" PROVE Fresh(gen)[t] = "present"
    <3>1. t[1] # "security"
      BY <2>1 DEF VM
    <3> QED
      BY <1>a, <2>1, <3>1, Zenon
  <2>2. ASSUME NEW t \in S, t # VM, t[1] = "security" PROVE Fresh(gen)[t] = "off"
    <3>1. t[1] # "ctrl"
      BY <2>2
    <3> QED
      BY <1>a, <2>2, <3>1, Zenon
  <2>3. ASSUME NEW t \in S, t # VM, t[1] \notin {"ctrl", "security"} PROVE Fresh(gen)[t] = "default"
    <3>1. t[1] # "ctrl" /\ t[1] # "security"
      BY <2>3
    <3> QED
      BY <1>a, <2>3, <3>1, Zenon
  <2> QED
    BY <2>1, <2>2, <2>3
<1>3. Fresh(gen)[VM] = "present"
  BY <1>1, <1>4 DEF S
<1>5. \A t \in SecurityThings : t # VM /\ t[1] = "security"
  BY DEF SecurityThings, Security, VM
<1>6. \A t \in {BootFirst} \cup CoreThings : t # VM /\ t[1] \notin {"ctrl", "security"}
  BY DEF BootFirst, CoreThings, Core, VM
<1>7. \A c : Ctrl(c)[1] = "ctrl"
  BY DEF Ctrl
<1>8. /\ \A c \in Ide : gen = 1 => Fresh(gen)[Ctrl(c)] = "present"
      /\ \A t \in SecurityThings : Fresh(gen)[t] = "off"
      /\ \A t \in {BootFirst} \cup CoreThings : Fresh(gen)[t] = "default"
  BY <1>1, <1>4, <1>5, <1>6, <1>7 DEF S
<1>9. Protector[1] = "protector" /\ VM[1] = "vm"
  BY DEF Protector, VM
<1>10. Protector \notin DOMAIN Fresh(gen)
  BY <1>1, <1>5, <1>6, <1>7, <1>9 DEF BootFirst, CoreThings, Core
<1> QED
  BY <1>1, <1>2, <1>3, <1>8, <1>10

LEMMA FreshIsRequest ==
  ASSUME NEW gen
  PROVE  IsRequest(Request("add", Fresh(gen))) /\ Fair(Request("add", Fresh(gen)))
<1> DEFINE f == Fresh(gen)
<1>1. /\ DOMAIN f \subseteq Things /\ Protector \notin DOMAIN f
      /\ DOMAIN f = {VM, BootFirst} \cup CoreThings \cup SecurityThings
                      \cup (IF gen = 1 THEN {Ctrl(c) : c \in Ide} ELSE {})
      /\ f[VM] = "present" /\ \A c \in Ide : gen = 1 => f[Ctrl(c)] = "present"
      /\ \A t \in SecurityThings : f[t] = "off"
      /\ \A t \in {BootFirst} \cup CoreThings : f[t] = "default"
  BY FreshIs
<1> HIDE DEF f
<1>2. \A t \in DOMAIN f : f[t] \in {"present", "off", "default"}
  BY <1>1
<1>3. \A s \in Secrets : f[Security(s)] = "off"
  BY <1>1, SecretsAre
<1>4. DOMAIN Request("add", f).set = DOMAIN f /\ Request("add", f).set = f /\ Request("add", f).verb = "add"
  BY DEF Request
<1>5. IsRequest(Request("add", f)) /\ Fair(Request("add", f))
  BY <1>1, <1>2, <1>3, <1>4, ValuesAre DEF IsRequest, Fair
<1> QED
  BY <1>5 DEF f

LEMMA CreationTyped ==
  ASSUME Typed, EditInv', DefineSystem \/ MountFirst \/ PromoteDvdToBootFront
  PROVE  Typed'
<1>o. Types /\ KindInv
  BY DEF Typed
<1>k. call.kind = "create"
  BY <1>o, KindsAt DEF DefineSystem, MountFirst, PromoteDvdToBootFront, At
<1>1. CASE DefineSystem
  <2> DEFINE r == Request("add", Fresh(call.gen))
  <2>1. ASSUME op' = Head(call.rest), plan' = Tail(call.rest) PROVE Forth
    <3>1. call.rest \in Seq(CreateOps) /\ call.rest # <<>>
      BY <1>o, <1>1 DEF Typed, EditInv, OpInv, DefineSystem, At, Types
    <3>2. op' \in CreateOps /\ plan' \in Seq(CreateOps)
      BY <2>1, <3>1, HeadTailProperties
    <3>3. Fits("create", op'.step) /\ op'.step # "define" /\ op' \in TypedOps
      BY <3>2 DEF CreateOps, Fits, Attaches, Secrets
    <3> QED
      BY <1>k, <3>2, <3>3 DEF Forth
  <2>2. Forth
    BY <1>o, <1>1, <2>1, FinishForth DEF DefineSystem, Invoke, WaitForJob
  <2>3. Said(r) /\ op.step = "define"
    BY <1>1 DEF DefineSystem, Invoke, WaitForJob, Said, At
  <2> QED
    BY <2>2, <2>3, FreshIsRequest, SaidKeeps
<1>2. CASE MountFirst
  <2>0. op.step = "mountFirst"
    BY <1>2 DEF MountFirst, At
  <2>1. CASE Quiet /\ Finish(TRUE)
    BY <1>o, <2>0, <2>1, FinishForth, QuietKeeps
  <2>2. CASE ~(Quiet /\ Finish(TRUE))
    <3> DEFINE Promote(at) == op' = [op EXCEPT !.step = "promote", !.at = at] /\ plan' = plan
               verb(at) == IF host[Medium(at)] = Absent THEN "add" ELSE "modify"
               R(at) == Request(verb(at), One(Medium(at), op.what))
    <3>1. PICK at \in Addrs : Invoke(R(at), Promote(at), Finish(FALSE))
      BY <1>2, <2>2 DEF MountFirst
    <3>2. Promote(at) => Forth
      <4> SUFFICES ASSUME Promote(at) PROVE Forth
        OBVIOUS
      <4>1. op \in Ops
        BY <1>o, OpTypes
      <4>2. op' \in Ops /\ op'.step = "promote" /\ op'.at = at
        BY <4>1 DEF Ops, Steps
      <4>3. op' \in TypedOps
        BY <4>2 DEF TypedOps, StepNames, NicSteps
      <4> QED
        BY <1>o, <1>k, <4>2, <4>3, FitsAt DEF Forth, Types
    <3>3. verb(at) \in {"add", "modify", "remove"}
      OBVIOUS
    <3> HIDE DEF Promote, verb
    <3>4. IsRequest(R(at)) /\ Fair(R(at))
      BY <1>o, <3>3, OpTypes, OneIsRequest, DrivesAre
    <3> HIDE DEF R
    <3>5. Forth
      BY <1>o, <3>1, <3>2, FinishForth DEF Invoke, WaitForJob
    <3>6. Said(R(at))
      BY <3>1 DEF Invoke, WaitForJob, Said
    <3> QED
      BY <2>0, <3>4, <3>5, <3>6, SaidKeeps
  <2> QED
    BY <2>1, <2>2
<1>3. CASE PromoteDvdToBootFront
  <2>1. Forth
    BY <1>o, <1>3, FinishForth DEF PromoteDvdToBootFront, Invoke, WaitForJob
  <2>2. (Quiet \/ Said(Modify(BootFirst, "on"))) /\ op.step = "promote"
    BY <1>3 DEF PromoteDvdToBootFront, Invoke, WaitForJob, Said, At
  <2>3. IsRequest(Modify(BootFirst, "on")) /\ Fair(Modify(BootFirst, "on"))
    BY OneIsRequest, Parts, ThingsAre, ValuesAre
  <2> QED
    BY <2>1, <2>2, <2>3, SaidOrQuiet
<1> QED
  BY <1>1, <1>2, <1>3

\* Without files a machine is typed, and what was whole stays whole.
LEMMA WithoutIs ==
  ASSUME NEW h \in [Things -> Values], Tree(h), Bare(h), NEW files \in SUBSET Vhds
  PROVE  /\ Without(h, files) \in [Things -> Values]
         /\ Tree(Without(h, files)) /\ Bare(Without(h, files))
<1> DEFINE g == Without(h, files)
<1>1. Absent \in Values
  BY ValuesAre
<1>2. g \in [Things -> Values]
  BY <1>1 DEF Without
<1>3. \A t \in Things : g[t] = (IF t \in {File(f) : f \in files} THEN Absent ELSE h[t])
  BY DEF Without
<1>4. \A t \in Things : t[1] # "file" => g[t] = h[t]
  BY <1>3, NotFiles
<1>5. Bare(g)
  BY <1>4, SecretsAre, Parts, ThingsAre DEF Bare
<1>6. Tree(g)
  <2> HIDE DEF g
  <2> SUFFICES ASSUME NEW t \in Things, NEW u \in Ancestors[t], g[u] = Absent, t # u
               PROVE  g[t] = Absent
    BY DEF Tree
  <2>1. u \in Things
    BY AncestorsAre
  <2>2. u \notin {File(f) : f \in files}
    <3> SUFFICES ASSUME NEW f \in files, u = File(f) PROVE FALSE
      OBVIOUS
    <3>1. CASE t \in {File(x) : x \in Vhds}
      BY <3>1, FileAlone
    <3>2. CASE t \notin {File(x) : x \in Vhds}
      <4>1. \A w \in Ancestors[t] : w[1] # "file"
        <5>0. /\ VM[1] # "file" /\ (\A c : Ctrl(c)[1] # "file")
              /\ (\A n : Port(n)[1] # "file" /\ Connection(n)[1] # "file")
              /\ (\A at : Drive(at)[1] # "file")
          BY DEF VM, Ctrl, Port, Connection, Drive
        <5>1. CASE t \in {VM, Protector, BootFirst} \cup CoreThings \cup SecurityThings
          BY <5>0, <5>1, TopAncestors
        <5>2. CASE \E c \in Ctrls : t = Ctrl(c)
          BY <5>0, <5>2, TopAncestors
        <5>3. CASE \E at \in Addrs : t = Drive(at) \/ t = Medium(at)
          BY <5>0, <5>3, MediumAncestors
        <5>4. CASE \E n \in Nics : t = Port(n) \/ t = Connection(n)
          BY <5>0, <5>4, NicAncestors
        <5>5. CASE \E n \in Nics, x \in Features : t = Feature(n, x)
          BY <5>0, <5>5, NicAncestors
        <5> QED
          BY <3>2, <5>1, <5>2, <5>3, <5>4, <5>5, ThingKinds
      <4> QED
        BY <4>1, NotFiles
    <3> QED
      BY <3>1, <3>2
  <2>3. h[u] = Absent
    BY <1>3, <2>1, <2>2
  <2> QED
    BY <1>3, <2>3 DEF Tree
<1> QED
  BY <1>2, <1>5, <1>6

LEMMA RemovedMachineIs ==
  ASSUME Typed
  PROVE  /\ Applied(host, Remove(VM)) \in [Things -> Values]
         /\ Tree(Applied(host, Remove(VM))) /\ Bare(Applied(host, Remove(VM)))
<1>1. IsRequest(Remove(VM)) /\ Fair(Remove(VM))
  BY RemoveIsRequest, ThingsAre DEF VM
<1> QED
  BY <1>1, AppliedTyped, AppliedTree, AppliedBare DEF Typed, Types

LEMMA DestroyTyped ==
  ASSUME Typed, EditInv', DestroyVM
  PROVE  Typed'
<1>o. Types /\ KindInv
  BY DEF Typed
<1>1. op.step = "destroy" /\ call.kind = "destroy"
  BY <1>o, KindsAt DEF DestroyVM, At
<1>2. Forth
  BY <1>o, FinishForth DEF DestroyVM
<1>3. UNCHANGED <<jobs, call>> /\ (budget' = budget \/ Spend)
  BY DEF DestroyVM, Quiet
<1>4. KindInv'
  BY <1>o, <1>1, <1>2, <1>3, ForthKinds
<1> DEFINE files == IF op.what = "on" THEN DiskFiles ELSE {}
<1>5. files \in SUBSET Vhds
  BY DEF DiskFiles
<1>6. \/ host' = host
      \/ host' = Without(Applied(host, Remove(VM)), files)
  BY DEF DestroyVM, Quiet
<1>7. watch' = watch \/ watch' = [state |-> "running", files |-> files]
  BY DEF DestroyVM, Quiet
<1> HIDE DEF files
<1>8. host' \in [Things -> Values] /\ Tree(host') /\ Bare(host')
  BY <1>5, <1>6, RemovedMachineIs, WithoutIs DEF Typed, Types
<1>9. Types'
  BY <1>o, <1>2, <1>3, <1>5, <1>7, <1>8, SpendTyped DEF Types, Forth
<1> QED
  BY <1>1, <1>3, <1>4, <1>8, <1>9 DEF Typed, Alone

LEMMA WatcherTyped ==
  ASSUME Typed, EditInv', DestroyEnds \/ DeleteVhdFilesBestEffort
  PROVE  Typed'
<1>1. UNCHANGED <<jobs, call, op, plan, hit, budget>> /\ watch.state # "none"
  BY DEF DestroyEnds, DeleteVhdFilesBestEffort
<1>2. watch' \in [state : {"none", "running", "clean"}, files : SUBSET Vhds]
  BY DEF DestroyEnds, DeleteVhdFilesBestEffort, Typed, Types
<1>3. host' \in [Things -> Values] /\ Tree(host') /\ Bare(host')
  <2>1. CASE DestroyEnds
    BY <2>1, RemovedMachineIs DEF DestroyEnds, Typed, Types
  <2>2. CASE DeleteVhdFilesBestEffort
    <3>1. PICK deleted \in SUBSET watch.files : host' = Without(host, deleted)
      BY <2>2 DEF DeleteVhdFilesBestEffort
    <3>2. deleted \in SUBSET Vhds
      BY DEF Typed, Types
    <3> QED
      BY <3>1, <3>2, WithoutIs DEF Typed, Types
  <2> QED
    BY <2>1, <2>2
<1>4. Types'
  BY <1>1, <1>2, <1>3 DEF Typed, Types
<1>5. KindInv'
  BY <1>1 DEF Typed, KindInv
<1>6. Alone'
  BY <1>1 DEF Typed, Alone, Clean, Prompt, Marks
<1> QED
  BY <1>3, <1>4, <1>5, <1>6 DEF Typed

----------------------------------------------------------------------------
(* The callers, Hyper-V and other tools.                                   *)

LEMMA IdleKind == ASSUME Types, KindInv, op.step = "idle" PROVE call.kind = "none"
BY DEF Types, KindInv, Fits, AllKinds, Attaches, Secrets, DiskSteps, NicSteps, CreateSteps

LEMMA BegunTyped ==
  ASSUME Typed, EditInv', NEW kind \in AllKinds, NEW first \in TypedOps, NEW goal,
         NEW gen \in {1, 2}, NEW rest \in Seq(CreateOps),
         BeginAs(kind, first, goal, gen, rest),
         Fits(kind, first.step), Names(kind, first), Aims(kind, first, goal)
  PROVE  Typed'
<1>1. /\ op.step = "idle" /\ op' = first /\ UNCHANGED <<host, jobs, plan, watch>>
      /\ call'.kind = kind /\ call'.goal = goal /\ call'.gen = gen /\ call'.rest = rest
      /\ hit' = (IF jobs = {} /\ watch.state = "none" THEN {} ELSE {<<"idle", "foreign">>})
  BY DEF BeginAs
<1>2. call.kind = "none" /\ plan = <<>>
  BY <1>1, IdleKind DEF Typed, KindInv
<1>3. budget' \in [edits : 0 .. MaxEdits, faults : 0 .. MaxFaults]
  <2>1. budget.edits \in 0 .. MaxEdits /\ budget.edits > 0 /\ MaxEdits \in Nat
    BY BoundsAssumption DEF BeginAs, Typed, Types
  <2>2. budget.edits - 1 \in 0 .. MaxEdits
    BY <2>1
  <2>3. budget' = [budget EXCEPT !.edits = budget.edits - 1]
    BY DEF BeginAs
  <2> QED
    BY <2>2, <2>3 DEF Typed, Types
<1>4. Types'
  BY <1>1, <1>3 DEF Typed, Types
<1>5. kind # "none"
  BY DEF AllKinds
<1>6. KindInv'
  BY <1>1, <1>2, <1>5 DEF KindInv
<1>7. Alone'
  BY <1>1 DEF Alone, Clean, Prompt, Marks
<1> QED
  BY <1>1, <1>4, <1>6, <1>7 DEF Typed

LEMMA NoRest == <<>> \in Seq(CreateOps)
BY EmptySeq

LEMMA OpIsTyped ==
  ASSUME NEW step \in Steps, NEW at \in Addrs \cup {AnyPlace}, NEW thing \in Things, NEW what \in Values
  PROVE  /\ Op(step, at, thing, what) \in Ops
         /\ Op(step, at, thing, what).step = step /\ Op(step, at, thing, what).at = at
         /\ Op(step, at, thing, what).thing = thing /\ Op(step, at, thing, what).what = what
BY DEF Op, Ops

\* The same, of the edits that are not the creation.
LEMMA EditBegun ==
  ASSUME Typed, EditInv', NEW kind \in AllKinds \ {"create"}, NEW o \in TypedOps, NEW goal,
         Begin(kind, o, goal), Fits(kind, o.step), Names(kind, o), Aims(kind, o, goal)
  PROVE  Typed'
BY NoRest, BegunTyped DEF Begin

LEMMA StorageBegins ==
  ASSUME Typed, EditInv', BeginStorage
  PROVE  Typed'
<1>1. PICK at \in Addrs :
        \/ \E f \in Vhds :
             \/ Begin("attach", Op("resolve", at, VM, f), One(Medium(at), f))
             \/ Begin("createDisk", Op("createFile", at, VM, f), One(Medium(at), f))
        \/ \E d \in Raw : Begin("physical", Op("resolve", at, VM, d), One(Drive(at), d))
        \/ Begin("addDvd", Op("resolve", at, VM, "dvd"), One(Drive(at), "dvd"))
        \/ \E seen \in Seen(at), iso \in Some(Isos) :
             /\ host[Drive(at)] = "dvd" /\ (iso = Absent => seen # VM)
             /\ Begin("media", Op("media", at, seen, iso), One(Medium(at), iso))
        \/ \E seen \in Seen(at), kind \in {"detach", "removeDvd"} :
             /\ host[Drive(at)] # Absent /\ (host[Drive(at)] = "dvd" <=> kind = "removeDvd")
             /\ Begin(kind, Op("removeMedium", at, seen, Absent), One(Drive(at), Absent))
  BY Zenon DEF BeginStorage
<1>2. ASSUME NEW f \in Vhds, Begin("attach", Op("resolve", at, VM, f), One(Medium(at), f))
      PROVE  Typed'
  <2> DEFINE o == Op("resolve", at, VM, f)
             goal == One(Medium(at), f)
  <2>1. o.step = "resolve" /\ o.at = at /\ o.thing = VM /\ o.what = f
    BY DEF Op
  <2>2. VM \in Things /\ f \in Values /\ at \in Addrs \cup {AnyPlace}
    BY ValuesAre, ThingsAre
  <2>3. o \in Ops
    BY <2>2, OpIsTyped DEF Steps
  <2>4. Begin("attach", o, goal)
    BY <1>2
  <2> HIDE DEF o
  <2>5. o \in TypedOps
    BY <2>1, <2>2, <2>3 DEF TypedOps, StepNames, NicSteps
  <2>6. "attach" \in AllKinds \ {"create"} /\ Fits("attach", "resolve")
    BY <2>2 DEF AllKinds, Fits, Attaches, DiskSteps, NicSteps, Secrets
  <2>7. Names("attach", o)
    BY <2>1, <2>2 DEF Names, Attaches, Secrets, Some
  <2>8. Aims("attach", o, goal)
    BY <2>1, <2>2 DEF Aims, Attaches, Secrets
  <2> HIDE DEF goal
  <2> QED
    BY <2>1, <2>4, <2>5, <2>6, <2>7, <2>8, EditBegun
<1>3. ASSUME NEW f \in Vhds, Begin("createDisk", Op("createFile", at, VM, f), One(Medium(at), f))
      PROVE  Typed'
  <2> DEFINE o == Op("createFile", at, VM, f)
             goal == One(Medium(at), f)
  <2>1. o.step = "createFile" /\ o.at = at /\ o.thing = VM /\ o.what = f
    BY DEF Op
  <2>2. VM \in Things /\ f \in Values /\ at \in Addrs \cup {AnyPlace}
    BY ValuesAre, ThingsAre
  <2>3. o \in Ops
    BY <2>2, OpIsTyped DEF Steps
  <2>4. Begin("createDisk", o, goal)
    BY <1>3
  <2> HIDE DEF o
  <2>5. o \in TypedOps
    BY <2>1, <2>2, <2>3 DEF TypedOps, StepNames, NicSteps
  <2>6. "createDisk" \in AllKinds \ {"create"} /\ Fits("createDisk", "createFile")
    BY <2>2 DEF AllKinds, Fits, Attaches, DiskSteps, NicSteps, Secrets
  <2>7. Names("createDisk", o)
    BY <2>1, <2>2 DEF Names, Attaches, Secrets, Some
  <2>8. Aims("createDisk", o, goal)
    BY <2>1, <2>2 DEF Aims, Attaches, Secrets
  <2> HIDE DEF goal
  <2> QED
    BY <2>1, <2>4, <2>5, <2>6, <2>7, <2>8, EditBegun
<1>4. ASSUME NEW d \in Raw, Begin("physical", Op("resolve", at, VM, d), One(Drive(at), d))
      PROVE  Typed'
  <2> DEFINE o == Op("resolve", at, VM, d)
             goal == One(Drive(at), d)
  <2>1. o.step = "resolve" /\ o.at = at /\ o.thing = VM /\ o.what = d
    BY DEF Op
  <2>2. VM \in Things /\ d \in Values /\ at \in Addrs \cup {AnyPlace}
    BY ValuesAre, ThingsAre
  <2>3. o \in Ops
    BY <2>2, OpIsTyped DEF Steps
  <2>4. Begin("physical", o, goal)
    BY <1>4
  <2> HIDE DEF o
  <2>5. o \in TypedOps
    BY <2>1, <2>2, <2>3 DEF TypedOps, StepNames, NicSteps
  <2>6. "physical" \in AllKinds \ {"create"} /\ Fits("physical", "resolve")
    BY <2>2 DEF AllKinds, Fits, Attaches, DiskSteps, NicSteps, Secrets
  <2>7. Names("physical", o)
    BY <2>1, <2>2 DEF Names, Attaches, Secrets, Some
  <2>8. Aims("physical", o, goal)
    BY <2>1, <2>2 DEF Aims, Attaches, Secrets
  <2> HIDE DEF goal
  <2> QED
    BY <2>1, <2>4, <2>5, <2>6, <2>7, <2>8, EditBegun
<1>5. ASSUME Begin("addDvd", Op("resolve", at, VM, "dvd"), One(Drive(at), "dvd"))
      PROVE  Typed'
  <2> DEFINE o == Op("resolve", at, VM, "dvd")
             goal == One(Drive(at), "dvd")
  <2>1. o.step = "resolve" /\ o.at = at /\ o.thing = VM /\ o.what = "dvd"
    BY DEF Op
  <2>2. VM \in Things /\ "dvd" \in Values /\ at \in Addrs \cup {AnyPlace}
    BY ValuesAre, ThingsAre
  <2>3. o \in Ops
    BY <2>2, OpIsTyped DEF Steps
  <2>4. Begin("addDvd", o, goal)
    BY <1>5
  <2> HIDE DEF o
  <2>5. o \in TypedOps
    BY <2>1, <2>2, <2>3 DEF TypedOps, StepNames, NicSteps
  <2>6. "addDvd" \in AllKinds \ {"create"} /\ Fits("addDvd", "resolve")
    BY <2>2 DEF AllKinds, Fits, Attaches, DiskSteps, NicSteps, Secrets
  <2>7. Names("addDvd", o)
    BY <2>1, <2>2 DEF Names, Attaches, Secrets, Some
  <2>8. Aims("addDvd", o, goal)
    BY <2>1, <2>2 DEF Aims, Attaches, Secrets
  <2> HIDE DEF goal
  <2> QED
    BY <2>1, <2>4, <2>5, <2>6, <2>7, <2>8, EditBegun
<1>6. ASSUME NEW seen \in Seen(at), NEW iso \in Some(Isos), iso = Absent => seen # VM,
             Begin("media", Op("media", at, seen, iso), One(Medium(at), iso))
      PROVE  Typed'
  <2> DEFINE o == Op("media", at, seen, iso)
             goal == One(Medium(at), iso)
  <2>1. o.step = "media" /\ o.at = at /\ o.thing = seen /\ o.what = iso
    BY DEF Op
  <2>2. seen \in Things /\ iso \in Values /\ at \in Addrs \cup {AnyPlace}
       /\ seen \in {VM, Medium(at)} /\ (iso = Absent => seen = Medium(at))
    BY ValuesAre, ThingsAre, <1>6 DEF Seen, Some
  <2>3. o \in Ops
    BY <2>2, OpIsTyped DEF Steps
  <2>4. Begin("media", o, goal)
    BY <1>6
  <2> HIDE DEF o
  <2>5. o \in TypedOps
    BY <2>1, <2>2, <2>3 DEF TypedOps, StepNames, NicSteps
  <2>6. "media" \in AllKinds \ {"create"} /\ Fits("media", "media")
    BY <2>2 DEF AllKinds, Fits, Attaches, DiskSteps, NicSteps, Secrets
  <2>7. Names("media", o)
    BY <2>1, <2>2 DEF Names, Attaches, Secrets, Some
  <2>8. Aims("media", o, goal)
    BY <2>1, <2>2 DEF Aims, Attaches, Secrets
  <2> HIDE DEF goal
  <2> QED
    BY <2>1, <2>4, <2>5, <2>6, <2>7, <2>8, EditBegun
<1>7. ASSUME NEW seen \in Seen(at), NEW kind \in {"detach", "removeDvd"},
             Begin(kind, Op("removeMedium", at, seen, Absent), One(Drive(at), Absent))
      PROVE  Typed'
  <2> DEFINE o == Op("removeMedium", at, seen, Absent)
             goal == One(Drive(at), Absent)
  <2>1. o.step = "removeMedium" /\ o.at = at /\ o.thing = seen /\ o.what = Absent
    BY DEF Op
  <2>2. seen \in Things /\ Absent \in Values /\ at \in Addrs \cup {AnyPlace}
       /\ kind \in {"detach", "removeDvd"}
    BY ValuesAre, ThingsAre DEF Seen
  <2>3. o \in Ops
    BY <2>2, OpIsTyped DEF Steps
  <2>4. Begin(kind, o, goal)
    BY <1>7
  <2> HIDE DEF o
  <2>5. o \in TypedOps
    BY <2>1, <2>2, <2>3 DEF TypedOps, StepNames, NicSteps
  <2>6. kind \in AllKinds \ {"create"} /\ Fits(kind, "removeMedium")
    BY <2>2 DEF AllKinds, Fits, Attaches, DiskSteps, NicSteps, Secrets
  <2>7. Names(kind, o)
    BY <2>1, <2>2 DEF Names, Attaches, Secrets, Some
  <2>8. Aims(kind, o, goal)
    BY <2>1, <2>2 DEF Aims, Attaches, Secrets
  <2> HIDE DEF goal
  <2> QED
    BY <2>1, <2>4, <2>5, <2>6, <2>7, <2>8, EditBegun
<1> QED
  BY <1>1, <1>2, <1>3, <1>4, <1>5, <1>6, <1>7

LEMMA ScsiBegins ==
  ASSUME Typed, EditInv', BeginScsi
  PROVE  Typed'
<1>1. PICK c \in Scsi :
        \/ Begin("addScsi", Op("addCtrl", AnyPlace, Ctrl(c), "present"), One(Ctrl(c), "present"))
        \/ Begin("removeScsi", Op("removeCtrl", AnyPlace, Ctrl(c), Absent), One(Ctrl(c), Absent))
  BY Zenon DEF BeginScsi
<1>2. ASSUME Begin("addScsi", Op("addCtrl", AnyPlace, Ctrl(c), "present"), One(Ctrl(c), "present"))
      PROVE  Typed'
  <2> DEFINE o == Op("addCtrl", AnyPlace, Ctrl(c), "present")
             goal == One(Ctrl(c), "present")
  <2>1. o.step = "addCtrl" /\ o.at = AnyPlace /\ o.thing = Ctrl(c) /\ o.what = "present"
    BY DEF Op
  <2>2. Ctrl(c) \in Things /\ "present" \in Values /\ AnyPlace \in Addrs \cup {AnyPlace}
    BY ValuesAre, ThingsAre DEF Ctrls
  <2>3. o \in Ops
    BY <2>2, OpIsTyped DEF Steps
  <2>4. Begin("addScsi", o, goal)
    BY <1>2
  <2> HIDE DEF o
  <2>5. o \in TypedOps
    BY <2>1, <2>2, <2>3 DEF TypedOps, StepNames, NicSteps
  <2>6. "addScsi" \in AllKinds \ {"create"} /\ Fits("addScsi", "addCtrl")
    BY <2>2 DEF AllKinds, Fits, Attaches, DiskSteps, NicSteps, Secrets
  <2>7. Names("addScsi", o)
    BY <2>1, <2>2 DEF Names, Attaches, Secrets, Some
  <2>8. Aims("addScsi", o, goal)
    BY <2>1, <2>2 DEF Aims, Attaches, Secrets
  <2> HIDE DEF goal
  <2> QED
    BY <2>1, <2>4, <2>5, <2>6, <2>7, <2>8, EditBegun
<1>3. ASSUME Begin("removeScsi", Op("removeCtrl", AnyPlace, Ctrl(c), Absent), One(Ctrl(c), Absent))
      PROVE  Typed'
  <2> DEFINE o == Op("removeCtrl", AnyPlace, Ctrl(c), Absent)
             goal == One(Ctrl(c), Absent)
  <2>1. o.step = "removeCtrl" /\ o.at = AnyPlace /\ o.thing = Ctrl(c) /\ o.what = Absent
    BY DEF Op
  <2>2. Ctrl(c) \in Things /\ Absent \in Values /\ AnyPlace \in Addrs \cup {AnyPlace}
    BY ValuesAre, ThingsAre DEF Ctrls
  <2>3. o \in Ops
    BY <2>2, OpIsTyped DEF Steps
  <2>4. Begin("removeScsi", o, goal)
    BY <1>3
  <2> HIDE DEF o
  <2>5. o \in TypedOps
    BY <2>1, <2>2, <2>3 DEF TypedOps, StepNames, NicSteps
  <2>6. "removeScsi" \in AllKinds \ {"create"} /\ Fits("removeScsi", "removeCtrl")
    BY <2>2 DEF AllKinds, Fits, Attaches, DiskSteps, NicSteps, Secrets
  <2>7. Names("removeScsi", o)
    BY <2>1, <2>2 DEF Names, Attaches, Secrets, Some
  <2>8. Aims("removeScsi", o, goal)
    BY <2>1, <2>2 DEF Aims, Attaches, Secrets
  <2> HIDE DEF goal
  <2> QED
    BY <2>1, <2>4, <2>5, <2>6, <2>7, <2>8, EditBegun
<1> QED
  BY <1>1, <1>2, <1>3

LEMMA NetworkBegins ==
  ASSUME Typed, EditInv', BeginNetwork
  PROVE  Typed'
<1>1. PICK n \in Nics :
        \/ \E s \in Switches \cup {"off"} :
             Begin("addNic", Op("addPort", AnyPlace, Port(n), s), One(Connection(n), s))
        \/ Begin("removeNic", Op("removeConnection", AnyPlace, Port(n), Absent), One(Port(n), Absent))
        \/ \E s \in Switches \cup {"off"} :
             Begin("switch", Op("modify", AnyPlace, Connection(n), s), One(Connection(n), s))
        \/ Begin("port", Op("modify", AnyPlace, Port(n), "set"), One(Port(n), "set"))
        \/ \E f \in Features, v \in {Absent, "on", "off"} :
             Begin("feature", Op("feature", AnyPlace, Feature(n, f), v), One(Feature(n, f), v))
  BY Zenon DEF BeginNetwork
<1>2. ASSUME NEW s \in Switches \cup {"off"},
             Begin("addNic", Op("addPort", AnyPlace, Port(n), s), One(Connection(n), s))
      PROVE  Typed'
  <2> DEFINE o == Op("addPort", AnyPlace, Port(n), s)
             goal == One(Connection(n), s)
  <2>1. o.step = "addPort" /\ o.at = AnyPlace /\ o.thing = Port(n) /\ o.what = s
    BY DEF Op
  <2>2. Port(n) \in Things /\ s \in Values /\ AnyPlace \in Addrs \cup {AnyPlace}
       /\ Port(n)[2] = n
    BY ValuesAre, ThingsAre DEF Port
  <2>3. o \in Ops
    BY <2>2, OpIsTyped DEF Steps
  <2>4. Begin("addNic", o, goal)
    BY <1>2
  <2> HIDE DEF o
  <2>5. o \in TypedOps
    BY <2>1, <2>2, <2>3 DEF TypedOps, StepNames, NicSteps
  <2>6. "addNic" \in AllKinds \ {"create"} /\ Fits("addNic", "addPort")
    BY <2>2 DEF AllKinds, Fits, Attaches, DiskSteps, NicSteps, Secrets
  <2>7. Names("addNic", o)
    BY <2>1, <2>2 DEF Names, Attaches, Secrets, Some
  <2>8. Aims("addNic", o, goal)
    BY <2>1, <2>2 DEF Aims, Attaches, Secrets
  <2> HIDE DEF goal
  <2> QED
    BY <2>1, <2>4, <2>5, <2>6, <2>7, <2>8, EditBegun
<1>3. ASSUME Begin("removeNic", Op("removeConnection", AnyPlace, Port(n), Absent), One(Port(n), Absent))
      PROVE  Typed'
  <2> DEFINE o == Op("removeConnection", AnyPlace, Port(n), Absent)
             goal == One(Port(n), Absent)
  <2>1. o.step = "removeConnection" /\ o.at = AnyPlace /\ o.thing = Port(n) /\ o.what = Absent
    BY DEF Op
  <2>2. Port(n) \in Things /\ Absent \in Values /\ AnyPlace \in Addrs \cup {AnyPlace}
    BY ValuesAre, ThingsAre
  <2>3. o \in Ops
    BY <2>2, OpIsTyped DEF Steps
  <2>4. Begin("removeNic", o, goal)
    BY <1>3
  <2> HIDE DEF o
  <2>5. o \in TypedOps
    BY <2>1, <2>2, <2>3 DEF TypedOps, StepNames, NicSteps
  <2>6. "removeNic" \in AllKinds \ {"create"} /\ Fits("removeNic", "removeConnection")
    BY <2>2 DEF AllKinds, Fits, Attaches, DiskSteps, NicSteps, Secrets
  <2>7. Names("removeNic", o)
    BY <2>1, <2>2 DEF Names, Attaches, Secrets, Some
  <2>8. Aims("removeNic", o, goal)
    BY <2>1, <2>2 DEF Aims, Attaches, Secrets
  <2> HIDE DEF goal
  <2> QED
    BY <2>1, <2>4, <2>5, <2>6, <2>7, <2>8, EditBegun
<1>4. ASSUME NEW s \in Switches \cup {"off"},
             Begin("switch", Op("modify", AnyPlace, Connection(n), s), One(Connection(n), s))
      PROVE  Typed'
  <2> DEFINE o == Op("modify", AnyPlace, Connection(n), s)
             goal == One(Connection(n), s)
  <2>1. o.step = "modify" /\ o.at = AnyPlace /\ o.thing = Connection(n) /\ o.what = s
    BY DEF Op
  <2>2. Connection(n) \in Things /\ s \in Values /\ AnyPlace \in Addrs \cup {AnyPlace}
    BY ValuesAre, ThingsAre
  <2>3. o \in Ops
    BY ZenonT(60), <2>2, OpIsTyped DEF Steps
  <2>4. Begin("switch", o, goal)
    BY <1>4
  <2> HIDE DEF o
  <2>5. o \in TypedOps
    BY <2>1, <2>2, <2>3 DEF TypedOps, StepNames, NicSteps
  <2>6. "switch" \in AllKinds \ {"create"} /\ Fits("switch", "modify")
    BY <2>2 DEF AllKinds, Fits, Attaches, DiskSteps, NicSteps, Secrets
  <2>7. Names("switch", o)
    BY <2>1, <2>2 DEF Names, Attaches, Secrets, Some
  <2>8. Aims("switch", o, goal)
    BY <2>1, <2>2 DEF Aims, Attaches, Secrets
  <2> HIDE DEF goal
  <2> QED
    BY <2>1, <2>4, <2>5, <2>6, <2>7, <2>8, EditBegun
<1>5. ASSUME Begin("port", Op("modify", AnyPlace, Port(n), "set"), One(Port(n), "set"))
      PROVE  Typed'
  <2> DEFINE o == Op("modify", AnyPlace, Port(n), "set")
             goal == One(Port(n), "set")
  <2>1. o.step = "modify" /\ o.at = AnyPlace /\ o.thing = Port(n) /\ o.what = "set"
    BY DEF Op
  <2>2. Port(n) \in Things /\ "set" \in Values /\ AnyPlace \in Addrs \cup {AnyPlace}
    BY ValuesAre, ThingsAre
  <2>3. o \in Ops
    BY <2>2, OpIsTyped DEF Steps
  <2>4. Begin("port", o, goal)
    BY <1>5
  <2> HIDE DEF o
  <2>5. o \in TypedOps
    BY <2>1, <2>2, <2>3 DEF TypedOps, StepNames, NicSteps
  <2>6. "port" \in AllKinds \ {"create"} /\ Fits("port", "modify")
    BY <2>2 DEF AllKinds, Fits, Attaches, DiskSteps, NicSteps, Secrets
  <2>7. Names("port", o)
    BY <2>1, <2>2 DEF Names, Attaches, Secrets, Some
  <2>8. Aims("port", o, goal)
    BY <2>1, <2>2 DEF Aims, Attaches, Secrets
  <2> HIDE DEF goal
  <2> QED
    BY <2>1, <2>4, <2>5, <2>6, <2>7, <2>8, EditBegun
<1>6. ASSUME NEW f \in Features, NEW v \in {Absent, "on", "off"},
             Begin("feature", Op("feature", AnyPlace, Feature(n, f), v), One(Feature(n, f), v))
      PROVE  Typed'
  <2> DEFINE o == Op("feature", AnyPlace, Feature(n, f), v)
             goal == One(Feature(n, f), v)
  <2>1. o.step = "feature" /\ o.at = AnyPlace /\ o.thing = Feature(n, f) /\ o.what = v
    BY DEF Op
  <2>2. Feature(n, f) \in Things /\ v \in Values /\ AnyPlace \in Addrs \cup {AnyPlace}
    BY ValuesAre, ThingsAre
  <2>3. o \in Ops
    BY <2>2, OpIsTyped DEF Steps
  <2>4. Begin("feature", o, goal)
    BY <1>6
  <2> HIDE DEF o
  <2>5. o \in TypedOps
    BY <2>1, <2>2, <2>3 DEF TypedOps, StepNames, NicSteps
  <2>6. "feature" \in AllKinds \ {"create"} /\ Fits("feature", "feature")
    BY <2>2 DEF AllKinds, Fits, Attaches, DiskSteps, NicSteps, Secrets
  <2>7. Names("feature", o)
    BY <2>1, <2>2 DEF Names, Attaches, Secrets, Some
  <2>8. Aims("feature", o, goal)
    BY <2>1, <2>2 DEF Aims, Attaches, Secrets
  <2> HIDE DEF goal
  <2> QED
    BY <2>1, <2>4, <2>5, <2>6, <2>7, <2>8, EditBegun
<1> QED
  BY <1>1, <1>2, <1>3, <1>4, <1>5, <1>6

LEMMA SecurityBegins ==
  ASSUME Typed, EditInv', BeginSecurity
  PROVE  Typed'
<1>1. PICK s \in Secrets, v \in {"on", "off"} :
        Begin(s, Op("protect", AnyPlace, Security(s), v), SecuritySet(Security(s), v))
  BY Zenon DEF BeginSecurity
<1>2. ASSUME Begin(s, Op("protect", AnyPlace, Security(s), v), SecuritySet(Security(s), v))
      PROVE  Typed'
  <2> DEFINE o == Op("protect", AnyPlace, Security(s), v)
             goal == SecuritySet(Security(s), v)
  <2>1. o.step = "protect" /\ o.at = AnyPlace /\ o.thing = Security(s) /\ o.what = v
    BY DEF Op
  <2>2. Security(s) \in Things /\ v \in Values /\ AnyPlace \in Addrs \cup {AnyPlace}
       /\ Security(s) \in SecurityThings /\ s \in {"tpm", "encrypt", "shield"}
    BY ValuesAre, ThingsAre DEF SecurityThings, Secrets
  <2>3. o \in Ops
    BY <2>2, OpIsTyped DEF Steps
  <2>4. Begin(s, o, goal)
    BY <1>2
  <2> HIDE DEF o
  <2>5. o \in TypedOps
    BY <2>1, <2>2, <2>3 DEF TypedOps, StepNames, NicSteps
  <2>6. s \in AllKinds \ {"create"} /\ Fits(s, "protect")
    BY <2>2 DEF AllKinds, Fits, Attaches, DiskSteps, NicSteps, Secrets
  <2>7. Names(s, o)
    BY <2>1, <2>2 DEF Names, Attaches, Secrets, Some
  <2>8. Aims(s, o, goal)
    BY <2>1, <2>2 DEF Aims, Attaches, Secrets
  <2> HIDE DEF goal
  <2> QED
    BY <2>1, <2>4, <2>5, <2>6, <2>7, <2>8, EditBegun
<1> QED
  BY <1>1, <1>2

LEMMA DestroyBegins ==
  ASSUME Typed, EditInv', BeginDestroy
  PROVE  Typed'
<1>1. PICK v \in {"on", "off"} :
        Begin("destroy", Op("destroy", AnyPlace, VM, v), All({}, Absent))
  BY Zenon DEF BeginDestroy
<1>2. ASSUME Begin("destroy", Op("destroy", AnyPlace, VM, v), All({}, Absent))
      PROVE  Typed'
  <2> DEFINE o == Op("destroy", AnyPlace, VM, v)
             goal == All({}, Absent)
  <2>1. o.step = "destroy" /\ o.at = AnyPlace /\ o.thing = VM /\ o.what = v
    BY DEF Op
  <2>2. VM \in Things /\ v \in Values /\ AnyPlace \in Addrs \cup {AnyPlace}
       /\ DOMAIN All({}, Absent) = {}
    BY ValuesAre, ThingsAre DEF All
  <2>3. o \in Ops
    BY <2>2, OpIsTyped DEF Steps
  <2>4. Begin("destroy", o, goal)
    BY <1>2
  <2> HIDE DEF o
  <2>5. o \in TypedOps
    BY <2>1, <2>2, <2>3 DEF TypedOps, StepNames, NicSteps
  <2>6. "destroy" \in AllKinds \ {"create"} /\ Fits("destroy", "destroy")
    BY <2>2 DEF AllKinds, Fits, Attaches, DiskSteps, NicSteps, Secrets
  <2>7. Names("destroy", o)
    BY <2>1, <2>2 DEF Names, Attaches, Secrets, Some
  <2>8. Aims("destroy", o, goal)
    BY <2>1, <2>2 DEF Aims, Attaches, Secrets
  <2> HIDE DEF goal
  <2> QED
    BY <2>1, <2>4, <2>5, <2>6, <2>7, <2>8, EditBegun
<1> QED
  BY <1>1, <1>2

LEMMA CreateOpIs ==
  ASSUME NEW step \in {"modify", "addCtrl", "createFile", "resolve", "addPort", "mountFirst"},
         NEW thing \in Things, NEW what \in Values,
         step = "createFile" => what \in Vhds, step = "addPort" => \E n \in Nics : thing = Port(n)
  PROVE  Op(step, AnyPlace, thing, what) \in CreateOps
<1> DEFINE o == Op(step, AnyPlace, thing, what)
<1>1. o.step = step /\ o.thing = thing /\ o.what = what
  BY DEF Op
<1>2. step \in Steps /\ step \in CreateSteps \ {"define"}
  BY DEF Steps, CreateSteps, DiskSteps, NicSteps
<1>3. o \in Ops
  BY <1>2, OpIsTyped
<1> HIDE DEF o
<1>4. StepNames(o)
  BY <1>1 DEF StepNames, NicSteps
<1> QED
  BY <1>1, <1>2, <1>3, <1>4 DEF CreateOps, TypedOps, o

LEMMA PlansTyped ==
  ASSUME NEW c \in Choices
  PROVE  CreatePlan(c) \in Seq(CreateOps)
<1>1. CoreOps \in Seq(CreateOps)
  <2>1. Core("memory") \in Things /\ Core("processor") \in Things /\ "set" \in Values
    BY ThingsAre, ValuesAre DEF CoreThings
  <2>2. /\ Op("modify", AnyPlace, Core("memory"), "set") \in CreateOps
        /\ Op("modify", AnyPlace, Core("processor"), "set") \in CreateOps
    BY <2>1, CreateOpIs
  <2> QED
    BY <2>2 DEF CoreOps
<1>2. ControllerOps(c) \in Seq(CreateOps)
  <2> DEFINE first == Ctrl(CHOOSE x \in Scsi : TRUE)
  <2>1. (CHOOSE x \in Scsi : TRUE) \in Scsi
    BY BoundsAssumption
  <2>2. first \in Things /\ "present" \in Values
    BY <2>1, ThingsAre, ValuesAre DEF Ctrls
  <2> HIDE DEF first
  <2>3. Op("addCtrl", AnyPlace, first, "present") \in CreateOps
    BY <2>2, CreateOpIs
  <2> QED
    BY <2>3 DEF ControllerOps, first
<1>3. DiskOps(c) \in Seq(CreateOps)
  <2>1. \A step \in {"createFile", "resolve"}, f \in Vhds : Op(step, AnyPlace, VM, f) \in CreateOps
    BY CreateOpIs, ThingsAre, ValuesAre
  <2>2. c.file \in Vhds \cup {Absent}
    BY DEF Choices, Some
  <2> QED
    BY <2>1, <2>2 DEF DiskOps
<1>4. NetworkOps(c) \in Seq(CreateOps)
  <2> DEFINE n == CHOOSE n \in Nics : TRUE
  <2>1. n \in Nics
    BY BoundsAssumption
  <2> HIDE DEF n
  <2>2. Port(n) \in Things
    BY <2>1, ThingsAre
  <2>3. \A v \in Switches : Op("addPort", AnyPlace, Port(n), v) \in CreateOps
    BY <2>1, <2>2, CreateOpIs, ValuesAre
  <2>4. c.switch \in Switches \cup {Absent}
    BY DEF Choices, Some
  <2> QED
    BY <2>3, <2>4 DEF NetworkOps, n
<1>5. MediaOps(c) \in Seq(CreateOps)
  <2>1. \A f \in Isos : Op("mountFirst", AnyPlace, VM, f) \in CreateOps
    BY CreateOpIs, ThingsAre, ValuesAre
  <2>2. Op("resolve", AnyPlace, VM, "dvd") \in CreateOps
    BY CreateOpIs, ThingsAre, ValuesAre
  <2>3. c.iso \in Isos \cup {Absent}
    BY DEF Choices, Some
  <2> QED
    BY <2>1, <2>2, <2>3 DEF MediaOps
<1>6. \A a, b \in Seq(CreateOps) : a \o b \in Seq(CreateOps)
  BY ConcatProperties
<1> QED
  BY <1>1, <1>2, <1>3, <1>4, <1>5, <1>6 DEF CreatePlan

LEMMA CreationBegun ==
  ASSUME Typed, EditInv', BeginCreate
  PROVE  Typed'
<1>1. PICK c \in Choices :
        BeginAs("create", Op("define", AnyPlace, VM, Absent), One(VM, "present"),
                c.gen, CreatePlan(c))
  BY Zenon DEF BeginCreate
<1>2. c.gen \in {1, 2} /\ CreatePlan(c) \in Seq(CreateOps)
  BY PlansTyped DEF Choices
<1> DEFINE o == Op("define", AnyPlace, VM, Absent)
           goal == One(VM, "present")
<1>3. o.step = "define"
  BY DEF Op
<1>4. o \in Ops
  BY ThingsAre, ValuesAre, OpIsTyped DEF Steps
<1>5. BeginAs("create", o, goal, c.gen, CreatePlan(c))
  BY <1>1
<1> HIDE DEF o
<1>6. o \in TypedOps
  BY <1>3, <1>4 DEF TypedOps, StepNames, NicSteps
<1>7. "create" \in AllKinds /\ Fits("create", "define")
  BY DEF AllKinds, Fits, Attaches, Secrets, CreateSteps
<1>8. Names("create", o) /\ Aims("create", o, goal)
  BY DEF Names, Aims, Attaches, Secrets
<1> HIDE DEF goal
<1> QED
  BY <1>2, <1>3, <1>5, <1>6, <1>7, <1>8, BegunTyped

LEMMA ReturnTyped ==
  ASSUME Typed, EditInv', Return
  PROVE  Typed'
<1>1. /\ op.step = "returned" /\ op' = NoOp /\ call' = NoCall /\ hit' = {}
      /\ UNCHANGED <<host, jobs, plan, watch, budget>>
  BY DEF Return, At
<1>2. plan = <<>>
  BY <1>1 DEF Typed, KindInv, Types, Fits, AllKinds, Attaches, Secrets, DiskSteps, NicSteps, CreateSteps
<1>3. NoOp.step = "idle" /\ NoOp \in Ops
  BY SMTT(60), OpIsTyped, ThingsAre, ValuesAre DEF NoOp, Steps
<1>4. NoOp \in TypedOps
  BY <1>3 DEF TypedOps, StepNames, NicSteps
<1>5. NoCall.kind = "none" /\ NoCall.gen = 1 /\ NoCall.rest = <<>>
  BY DEF NoCall
<1>6. Types'
  BY <1>1, <1>4, <1>5, NoRest DEF Typed, Types
<1>7. Names("none", NoOp) /\ (\A goal : Aims("none", NoOp, goal)) /\ Fits("none", "idle")
  BY DEF Names, Aims, Fits, Attaches, Secrets
<1>8. KindInv'
  BY <1>1, <1>2, <1>3, <1>5, <1>7 DEF KindInv
<1>9. Alone'
  BY <1>1, <1>5 DEF Alone
<1> QED
  BY <1>1, <1>6, <1>8, <1>9 DEF Typed

LEMMA JobEndTyped ==
  ASSUME Typed, EditInv', JobEnds
  PROVE  Typed'
<1>1. PICK j \in jobs :
        /\ jobs' = jobs \ {j} /\ UNCHANGED <<call, op, plan, watch, hit>>
        /\ host' = host \/ host' = Applied(host, j)
        /\ budget' = budget \/ Spend
  BY DEF JobEnds
<1>2. IsRequest(j) /\ Fair(j)
  BY DEF Typed, Types
<1>3. host' \in [Things -> Values] /\ Tree(host') /\ Bare(host')
  BY <1>1, <1>2, AppliedTyped, AppliedTree, AppliedBare DEF Typed, Types
<1>4. budget' \in [edits : 0 .. MaxEdits, faults : 0 .. MaxFaults]
  BY <1>1, SpendTyped DEF Typed
<1>5. Types'
  BY <1>1, <1>3, <1>4 DEF Typed, Types
<1>6. KindInv'
  BY <1>1 DEF Typed, KindInv
<1>7. Alone'
  BY <1>1 DEF Typed, Alone, Clean, Prompt, Marks
<1> QED
  BY <1>3, <1>5, <1>6, <1>7 DEF Typed

LEMMA ForeignTyped ==
  ASSUME Typed, EditInv', Foreign
  PROVE  Typed'
<1>1. PICK at \in Addrs, n \in Nics, s \in Switches :
        \E r \in {Add(Drive(at), "disk"), Remove(Drive(at)), Remove(Medium(at)),
                  Remove(Ctrl(at[1])), Remove(Port(n)), Modify(Connection(n), s)} :
          Accepts(host, r) /\ host' = Applied(host, r)
  BY DEF Foreign
<1>2. PICK r \in {Add(Drive(at), "disk"), Remove(Drive(at)), Remove(Medium(at)),
                  Remove(Ctrl(at[1])), Remove(Port(n)), Modify(Connection(n), s)} :
        host' = Applied(host, r)
  BY <1>1
<1>3. Ctrl(at[1])[1] = "ctrl" /\ Ctrl(at[1]) \in Things
  BY AddrsArePairs, ThingsAre DEF Ctrl
<1>4. IsRequest(r) /\ Fair(r)
  <2>1. \A t \in Things, v \in Values : t[1] \notin {"security", "protector"} =>
          /\ IsRequest(Add(t, v)) /\ Fair(Add(t, v))
          /\ IsRequest(Modify(t, v)) /\ Fair(Modify(t, v))
          /\ IsRequest(Remove(t)) /\ Fair(Remove(t))
    BY OneIsRequest, RemoveIsRequest
  <2>2. /\ Port(n) \in Things /\ Connection(n) \in Things /\ s \in Values /\ "disk" \in Values
        /\ Port(n)[1] \notin {"security", "protector"} /\ Connection(n)[1] \notin {"security", "protector"}
    BY ThingsAre, ValuesAre, Parts
  <2> QED
    BY <1>2, <1>3, <2>1, <2>2, DrivesAre
<1>5. host' \in [Things -> Values] /\ Tree(host') /\ Bare(host')
  BY <1>2, <1>4, AppliedTyped, AppliedTree, AppliedBare DEF Typed, Types
<1>6. UNCHANGED <<jobs, call, op, plan, watch>> /\ op.step # "idle" /\ Note("foreign") /\ Spend
  BY DEF Foreign, At
<1>7. budget' \in [edits : 0 .. MaxEdits, faults : 0 .. MaxFaults]
  BY <1>6, SpendTyped DEF Typed
<1>8. Types'
  BY <1>5, <1>6, <1>7 DEF Typed, Types
<1>9. call.kind # "none"
  BY <1>6, NotIdle DEF Typed
<1>10. KindInv'
  BY <1>6, <1>9 DEF Typed, KindInv
<1>11. Alone'
  <2>1. "foreign" \in Marks'
    BY <1>6, MarksOf
  <2> QED
    BY <2>1 DEF Alone, Clean, Prompt
<1> QED
  BY <1>5, <1>8, <1>10, <1>11 DEF Typed

LEMMA TypedStep == Typed /\ [Next]_vars => Typed'
<1> SUFFICES ASSUME Typed, [Next]_vars PROVE Typed'
  OBVIOUS
<1>1. EditInv'
  BY EditInvStep DEF Typed
<1>2. CASE UNCHANGED vars
  <2>1. Types' /\ KindInv' /\ Alone' /\ Tree(host') /\ Bare(host')
    BY <1>2 DEF vars, Typed, Types, KindInv, Alone, Clean, Prompt, Marks
  <2> QED
    BY <1>1, <2>1 DEF Typed
<1>3. CASE Step
  <2>1. CASE AddDiskDrive \/ AddDvdDrive \/ AttachPhysicalDisk \/ AddVhd \/ Rollback \/ CreateFile \/ RemoveDrive
    BY <1>1, <2>1, DiskCallsTyped
  <2>2. CASE AddScsiController \/ RemoveScsiController \/ AddPort \/ AddConnection \/ RemovePort
    BY <1>1, <2>2, NicCallsTyped
  <2>3. CASE \/ SetNetworkAdapterSwitch \/ SetNetworkAdapterPort
             \/ SetMemoryConfig \/ SetProcessorConfig
             \/ SetNetworkAdapterAdvanced \/ SetNetworkAdapterBandwidth \/ SetNetworkAdapterOffload
             \/ SetNetworkAdapterVlan
    BY <1>1, <2>3, SettersTyped
  <2>4. CASE EnsureKeyProtector \/ SetVmTpm \/ SetVmStateEncryption \/ SetVmShielded
    BY <1>1, <2>4, SecurityTyped
  <2>5. CASE FindDrive \/ PollLink \/ FindPort
    BY <1>1, <2>5, LooksTyped
  <2>6. CASE SetDvdMedia \/ RemoveMedium \/ RemoveConnection
    BY <1>1, <2>6, MediaTyped
  <2>7. CASE DefineSystem \/ MountFirst \/ PromoteDvdToBootFront
    BY <1>1, <2>7, CreationTyped
  <2> QED
    BY <1>1, <1>3, <2>1, <2>2, <2>3, <2>4, <2>5, <2>6, <2>7, ResolveTyped, DestroyTyped, ReturnTyped DEF Step
<1>4. CASE BeginStorage \/ BeginScsi \/ BeginNetwork \/ BeginSecurity \/ BeginCreate \/ BeginDestroy
  BY <1>1, <1>4, StorageBegins, ScsiBegins, NetworkBegins, SecurityBegins, CreationBegun, DestroyBegins
<1> QED
  BY <1>1, <1>2, <1>3, <1>4, WatcherTyped, JobEndTyped, ForeignTyped DEF Next

----------------------------------------------------------------------------
(* The machines the edits may meet.                                        *)

\* Part of a machine: nothing is there without what it is part of, and no
\* security setting is on.
Rooted(m) ==
  \A t \in DOMAIN m :
    /\ t \in Things /\ t[1] # "file" /\ m[t] \in Values
    /\ t \in SecurityThings => m[t] = "off"
    /\ m[t] # Absent => \A u \in Ancestors[t] : u \in DOMAIN m /\ m[u] # Absent

LEMMA FreshRooted == \A gen : Rooted(Fresh(gen)) /\ VM \in DOMAIN Fresh(gen) /\ Fresh(gen)[VM] = "present"
<1> SUFFICES ASSUME NEW gen
             PROVE  Rooted(Fresh(gen)) /\ VM \in DOMAIN Fresh(gen) /\ Fresh(gen)[VM] = "present"
  OBVIOUS
<1> DEFINE f == Fresh(gen)
<1>1. /\ DOMAIN f = {VM, BootFirst} \cup CoreThings \cup SecurityThings
                      \cup (IF gen = 1 THEN {Ctrl(c) : c \in Ide} ELSE {})
      /\ DOMAIN f \subseteq Things
      /\ f[VM] = "present" /\ \A c \in Ide : gen = 1 => f[Ctrl(c)] = "present"
      /\ \A t \in SecurityThings : f[t] = "off"
      /\ \A t \in {BootFirst} \cup CoreThings : f[t] = "default"
  BY FreshIs
<1> HIDE DEF f
<1>2. \A t \in DOMAIN f : f[t] \in {"present", "off", "default"}
  BY <1>1
<1>3. \A t \in DOMAIN f : Ancestors[t] = {VM} /\ t[1] # "file"
  <2>1. \A t \in CoreThings \cup SecurityThings : t[1] # "file"
    BY Parts DEF CoreThings, SecurityThings
  <2>2. \A t \in {VM, BootFirst} : t[1] # "file"
    BY Parts, NotFiles
  <2> QED
    BY <1>1, <2>1, <2>2, TopAncestors, NotFiles DEF Ctrls
<1> QED
  BY <1>1, <1>2, <1>3, ValuesAre DEF Rooted, f, Absent

\* Parts on a machine.
LEMMA TogetherRooted ==
  ASSUME NEW m, NEW g, NEW h, Rooted(g), VM \in DOMAIN g, g[VM] = "present",
         DOMAIN h = DOMAIN m \cup DOMAIN g,
         \A t \in DOMAIN h : (t \in DOMAIN m /\ h[t] = m[t]) \/ (t \in DOMAIN g /\ h[t] = g[t]),
         \A t \in DOMAIN m \cap DOMAIN g : m[t] # Absent /\ g[t] # Absent,
         \A t \in DOMAIN m :
           /\ t \in Things \ SecurityThings /\ t[1] # "file" /\ m[t] \in Values
           /\ m[t] # Absent => \A u \in Ancestors[t] : u = VM \/ (u \in DOMAIN m /\ m[u] # Absent)
  PROVE  Rooted(h)
<1>1. \A t \in DOMAIN m : m[t] # Absent => h[t] # Absent
  OBVIOUS
<1>2. \A t \in DOMAIN g : g[t] # Absent => h[t] # Absent
  OBVIOUS
<1>3. VM \in DOMAIN h /\ h[VM] # Absent
  BY <1>2 DEF Absent
<1> SUFFICES ASSUME NEW t \in DOMAIN h
             PROVE  /\ t \in Things /\ t[1] # "file" /\ h[t] \in Values
                    /\ t \in SecurityThings => h[t] = "off"
                    /\ h[t] # Absent => \A u \in Ancestors[t] : u \in DOMAIN h /\ h[u] # Absent
  BY DEF Rooted
<1>4. CASE t \in DOMAIN m /\ h[t] = m[t]
  BY <1>1, <1>3, <1>4
<1>5. CASE t \in DOMAIN g /\ h[t] = g[t]
  BY <1>2, <1>5 DEF Rooted
<1> QED
  BY <1>4, <1>5

\* A controller with its drives.
LEMMA StoredRooted ==
  ASSUME NEW c \in Ctrls, NEW fill \in [Slots(c) -> Contents], NEW gen
  PROVE  Rooted(Both(Stored(c, fill), Fresh(gen)))
<1> DEFINE D == {Ctrl(c)} \cup {Drive(<<c, s>>) : s \in Slots(c)} \cup {Medium(<<c, s>>) : s \in Slots(c)}
           m == Stored(c, fill)
<1>1. DOMAIN m = D
  BY DEF Stored
<1>2. ASSUME NEW t \in D
      PROVE  m[t] = (CASE t[1] = "ctrl"  -> "present"
                       [] t[1] = "drive" -> DriveFor(fill[t[3]])
                       [] OTHER -> IF fill[t[3]] \in Vhds \cup Isos THEN fill[t[3]] ELSE Absent)
  BY DEF Stored
<1> HIDE DEF m
<1>3. \A s \in Slots(c) : <<c, s>> \in Addrs
  BY DEF Addrs
<1>4. Ctrl(c) \in D /\ Ctrl(c)[1] = "ctrl"
  BY DEF Ctrl
<1>5. m[Ctrl(c)] = "present"
  BY <1>2, <1>4, Zenon
<1>6. ASSUME NEW s \in Slots(c)
      PROVE  m[Drive(<<c, s>>)] = DriveFor(fill[s])
  <2> DEFINE t == Drive(<<c, s>>)
  <2>1. t \in D /\ t[1] = "drive" /\ t[1] # "ctrl" /\ t[3] = s
    BY DEF Drive
  <2> HIDE DEF t, D
  <2>2. m[t] = DriveFor(fill[t[3]])
    BY <1>2, <2>1, Zenon
  <2> QED
    BY <2>1, <2>2 DEF t
<1>7. ASSUME NEW s \in Slots(c)
      PROVE  m[Medium(<<c, s>>)] = (IF fill[s] \in Vhds \cup Isos THEN fill[s] ELSE Absent)
  <2> DEFINE t == Medium(<<c, s>>)
  <2>1. t \in D /\ t[1] # "drive" /\ t[1] # "ctrl" /\ t[3] = s
    BY DEF Medium
  <2> HIDE DEF t, D
  <2>2. m[t] = (IF fill[t[3]] \in Vhds \cup Isos THEN fill[t[3]] ELSE Absent)
    BY <1>2, <2>1, Zenon
  <2> QED
    BY <2>1, <2>2 DEF t
<1>8. \A s \in Slots(c) : fill[s] \in {Absent, "disk", "dvd"} \cup Raw \cup Vhds \cup Isos
  BY DEF Contents, Some
<1>9. ASSUME NEW s \in Slots(c)
      PROVE  /\ m[Drive(<<c, s>>)] \in Values /\ m[Medium(<<c, s>>)] \in Values
             /\ m[Medium(<<c, s>>)] # Absent => m[Drive(<<c, s>>)] # Absent
  <2>1. fill[s] \in Vhds \cup Isos => DriveFor(fill[s]) \in {"disk", "dvd"}
    BY DEF DriveFor
  <2>2. DriveFor(fill[s]) \in Values
    BY <1>8, ValuesAre DEF DriveFor
  <2>3. fill[s] \in Vhds \cup Isos => fill[s] \in Values
    BY ValuesAre
  <2>4. Absent \in Values /\ "disk" # Absent /\ "dvd" # Absent
    BY ValuesAre DEF Absent
  <2> HIDE DEF D
  <2> QED
    BY <1>6, <1>7, <2>1, <2>2, <2>3, <2>4
<1>10. ASSUME NEW t \in D
       PROVE  /\ t \in Things \ SecurityThings /\ t[1] # "file" /\ m[t] \in Values
              /\ m[t] # Absent => \A u \in Ancestors[t] : u = VM \/ (u \in D /\ m[u] # Absent)
  <2>1. CASE t = Ctrl(c)
    <3>1. t \in Things /\ t[1] = "ctrl" /\ Ancestors[t] = {VM} /\ m[t] \in Values
      BY <1>4, <1>5, <2>1, ThingsAre, TopAncestors, ValuesAre
    <3> QED
      BY <3>1, Parts DEF SecurityThings
  <2>2. ASSUME NEW s \in Slots(c), t = Drive(<<c, s>>) \/ t = Medium(<<c, s>>)
        PROVE  /\ t \in Things \ SecurityThings /\ t[1] # "file" /\ m[t] \in Values
               /\ m[t] # Absent => \A u \in Ancestors[t] : u = VM \/ (u \in D /\ m[u] # Absent)
    <3> DEFINE at == <<c, s>>
    <3>1. at \in Addrs /\ at[1] = c
      BY <1>3
    <3>2. Drive(at) \in D
      OBVIOUS
    <3> HIDE DEF D, at
    <3>3. Ancestors[Drive(at)] = {Ctrl(c), VM} /\ Ancestors[Medium(at)] = {Drive(at), Ctrl(c), VM}
      BY <3>1, MediumAncestors
    <3>4. t \in Things /\ t[1] \in {"drive", "medium"}
      BY <2>2, <3>1, ThingsAre, Parts DEF at
    <3>5. t \notin SecurityThings
      BY <3>4, Parts DEF SecurityThings
    <3>6. /\ m[Drive(at)] \in Values /\ m[Medium(at)] \in Values
          /\ m[Medium(at)] # Absent => m[Drive(at)] # Absent
      BY <1>9 DEF at
    <3>7. m[Ctrl(c)] # Absent
      BY <1>5 DEF Absent
    <3>8. t = Drive(at) \/ t = Medium(at)
      BY <2>2 DEF at
    <3> QED
      BY <1>4, <3>2, <3>3, <3>4, <3>5, <3>6, <3>7, <3>8
  <2> QED
    BY <2>1, <2>2
<1> DEFINE g == Fresh(gen)
           h == Both(m, g)
<1>11. /\ DOMAIN h = DOMAIN m \cup DOMAIN g
       /\ \A t \in DOMAIN h : (t \in DOMAIN m /\ h[t] = m[t]) \/ (t \in DOMAIN g /\ h[t] = g[t])
  BY DEF Both
<1>12. Rooted(g) /\ VM \in DOMAIN g /\ g[VM] = "present"
  BY FreshRooted
<1>13. \A t \in DOMAIN m \cap DOMAIN g : m[t] # Absent /\ g[t] # Absent
  <2> SUFFICES ASSUME NEW t \in D, t \in DOMAIN g PROVE m[t] # Absent /\ g[t] # Absent
    BY <1>1
  <2>1. \A x \in {VM, BootFirst} \cup CoreThings \cup SecurityThings : x[1] \notin {"ctrl", "drive", "medium"}
    BY Parts DEF VM, CoreThings, SecurityThings
  <2>2. t[1] \in {"ctrl", "drive", "medium"} /\ (t = Ctrl(c) \/ t[1] # "ctrl")
    BY <1>4, Parts
  <2>3. \A x : Ctrl(x)[1] = "ctrl" /\ Ctrl(x)[2] = x
    BY DEF Ctrl
  <2> HIDE DEF D
  <2>4. gen = 1 /\ \E x \in Ide : t = Ctrl(x)
    <3> DEFINE top == {VM, BootFirst} \cup CoreThings \cup SecurityThings
    <3>1. \A x \in top : x[1] \notin {"ctrl", "drive", "medium"}
      BY <2>1
    <3>2. DOMAIN g = top \cup (IF gen = 1 THEN {Ctrl(x) : x \in Ide} ELSE {})
      BY FreshIs
    <3> HIDE DEF top, g
    <3> QED
      BY <2>2, <3>1, <3>2
  <2>5. t = Ctrl(c) /\ g[t] = "present"
    <3>1. PICK x \in Ide : t = Ctrl(x)
      BY <2>4
    <3>2. x = c
      BY <2>2, <2>3, <3>1
    <3> QED
      BY <2>4, <3>1, <3>2, FreshIs
  <2> QED
    BY <1>5, <2>5 DEF Absent
<1> HIDE DEF g, h, D
<1>14. \A t \in DOMAIN m :
         /\ t \in Things \ SecurityThings /\ t[1] # "file" /\ m[t] \in Values
         /\ m[t] # Absent => \A u \in Ancestors[t] : u = VM \/ (u \in DOMAIN m /\ m[u] # Absent)
  BY <1>1, <1>10
<1>15. Rooted(h)
  BY <1>11, <1>12, <1>13, <1>14, TogetherRooted
<1> QED
  BY <1>15 DEF h, g, m

\* A machine with an adapter.
LEMMA WiredRooted ==
  ASSUME NEW n \in Nics, NEW wire \in Wiring(n)
  PROVE  Rooted(Both(Fresh(2), wire))
<1> DEFINE g == Fresh(2)
           h == Both(g, wire)
           F == {Feature(n, f) : f \in Features}
<1>1. /\ DOMAIN wire \subseteq {Port(n), Connection(n)} \cup F
      /\ \A t \in DOMAIN wire : wire[t] \in {"present", "off", "on"}
      /\ Port(n) \in DOMAIN wire
      /\ DOMAIN wire \cap F # {} => Connection(n) \in DOMAIN wire
  <2> DEFINE P == One(Port(n), "present")
             C == Both(P, One(Connection(n), "off"))
  <2>1. Port(n) \notin F /\ Connection(n) \notin F
    BY DEF Port, Connection, Feature
  <2>2. DOMAIN P = {Port(n)} /\ \A t \in DOMAIN P : P[t] = "present"
    BY DEF One
  <2>3. DOMAIN C = {Port(n), Connection(n)} /\ \A t \in DOMAIN C : C[t] \in {"present", "off"}
    <3> HIDE DEF P
    <3> QED
      BY <2>2 DEF One, Both
  <2>4. ASSUME NEW f \in Features
        PROVE  /\ DOMAIN Both(C, One(Feature(n, f), "on")) = {Port(n), Connection(n), Feature(n, f)}
               /\ \A t \in DOMAIN Both(C, One(Feature(n, f), "on")) :
                    Both(C, One(Feature(n, f), "on"))[t] \in {"present", "off", "on"}
    <3> HIDE DEF C
    <3> QED
      BY <2>3 DEF One, Both
  <2>5. wire = P \/ wire = C \/ \E f \in Features : wire = Both(C, One(Feature(n, f), "on"))
    BY DEF Wiring
  <2> HIDE DEF P, C
  <2>6. CASE wire = P
    BY <2>1, <2>2, <2>6
  <2>7. CASE wire = C
    BY <2>1, <2>3, <2>7
  <2>8. ASSUME NEW f \in Features, wire = Both(C, One(Feature(n, f), "on"))
        PROVE  /\ DOMAIN wire \subseteq {Port(n), Connection(n)} \cup F
               /\ \A t \in DOMAIN wire : wire[t] \in {"present", "off", "on"}
               /\ Port(n) \in DOMAIN wire /\ Connection(n) \in DOMAIN wire
    <3>1. Feature(n, f) \in F
      OBVIOUS
    <3> HIDE DEF F
    <3> QED
      BY <2>4, <2>8, <3>1
  <2> HIDE DEF F
  <2> QED
    BY <2>5, <2>6, <2>7, <2>8
<1>2. /\ DOMAIN h = DOMAIN wire \cup DOMAIN g
      /\ \A t \in DOMAIN h : (t \in DOMAIN wire /\ h[t] = wire[t]) \/ (t \in DOMAIN g /\ h[t] = g[t])
  BY DEF Both
<1>3. Rooted(g) /\ VM \in DOMAIN g /\ g[VM] = "present"
  BY FreshRooted
<1>4. \A t \in DOMAIN wire : t[1] \in {"port", "connection", "feature"}
  BY <1>1, Parts DEF Feature
<1>5. \A t \in {VM, BootFirst} \cup CoreThings \cup SecurityThings :
        t[1] \in {"vm", "boot", "core", "security"}
  BY Parts DEF VM, CoreThings, SecurityThings
<1>6. DOMAIN g = {VM, BootFirst} \cup CoreThings \cup SecurityThings
  BY SMTT(60), FreshIs
<1>7. DOMAIN wire \cap DOMAIN g = {}
  BY <1>4, <1>5, <1>6
<1>8. /\ Port(n) \in Things /\ Ancestors[Port(n)] = {VM}
      /\ Connection(n) \in Things /\ Ancestors[Connection(n)] = {Port(n), VM}
      /\ \A t \in F : t \in Things /\ Ancestors[t] = {Connection(n), Port(n), VM}
  BY ThingsAre, NicAncestors
<1> HIDE DEF g, h, F
<1>9. \A t \in DOMAIN wire : wire[t] # Absent /\ wire[t] \in Values
  BY <1>1, ValuesAre DEF Absent
<1>10. \A t \in DOMAIN wire :
         /\ t \in Things \ SecurityThings /\ t[1] # "file" /\ wire[t] \in Values
         /\ wire[t] # Absent => \A u \in Ancestors[t] : u = VM \/ (u \in DOMAIN wire /\ wire[u] # Absent)
  BY <1>1, <1>4, <1>5, <1>8, <1>9
<1>11. Rooted(h)
  BY <1>2, <1>3, <1>7, <1>10, TogetherRooted
<1> QED
  BY <1>11 DEF h, g

\* A machine with a key protector.
LEMMA ProtectedRooted == Rooted(Both(Fresh(2), One(Protector, "present")))
<1> DEFINE g == Fresh(2)
           m == One(Protector, "present")
           h == Both(g, m)
<1>1. DOMAIN m = {Protector} /\ m[Protector] = "present"
  BY DEF One
<1>2. /\ DOMAIN h = DOMAIN m \cup DOMAIN g
      /\ \A t \in DOMAIN h : (t \in DOMAIN m /\ h[t] = m[t]) \/ (t \in DOMAIN g /\ h[t] = g[t])
  BY DEF Both
<1>3. Rooted(g) /\ VM \in DOMAIN g /\ g[VM] = "present" /\ Protector \notin DOMAIN g
  BY FreshRooted, FreshIs
<1>4. Protector \in Things \ SecurityThings /\ Protector[1] # "file" /\ Ancestors[Protector] = {VM}
  BY ThingsAre, TopAncestors, Parts DEF SecurityThings
<1> HIDE DEF g, h, m
<1>5. Rooted(h)
  BY <1>1, <1>2, <1>3, <1>4, ValuesAre, TogetherRooted
<1> QED
  BY <1>5 DEF h, g, m

LEMMA MachinesRooted == \A made \in Machines : Rooted(made)
<1> SUFFICES ASSUME NEW made \in Machines PROVE Rooted(made)
  OBVIOUS
<1>1. \/ made = <<>> \/ made = Fresh(2) \/ made = Both(Fresh(2), One(Protector, "present"))
      \/ \E c \in Ctrls : \E fill \in [Slots(c) -> Contents] :
           made = Both(Stored(c, fill), Fresh(IF c \in Ide THEN 1 ELSE 2))
      \/ \E n \in Nics : \E wire \in Wiring(n) : made = Both(Fresh(2), wire)
  BY Zenon DEF Machines
<1>2. CASE made = <<>>
  BY <1>2 DEF Rooted
<1>3. CASE made = Fresh(2)
  BY <1>3, FreshRooted
<1>4. CASE \E c \in Ctrls : \E fill \in [Slots(c) -> Contents] :
             made = Both(Stored(c, fill), Fresh(IF c \in Ide THEN 1 ELSE 2))
  BY <1>4, StoredRooted
<1>5. CASE \E n \in Nics : \E wire \in Wiring(n) : made = Both(Fresh(2), wire)
  BY <1>5, WiredRooted
<1> QED
  BY <1>1, <1>2, <1>3, <1>4, <1>5, ProtectedRooted

LEMMA TypedInit == Init => Typed
<1> SUFFICES ASSUME Init PROVE Typed
  OBVIOUS
<1>1. /\ jobs = {} /\ call = NoCall /\ op = NoOp /\ plan = <<>> /\ hit = {}
      /\ watch = [state |-> "none", files |-> {}]
      /\ budget = [edits |-> MaxEdits, faults |-> MaxFaults]
  BY Zenon DEF Init
<1>2. PICK onDisk \in SUBSET Vhds, made \in Machines :
        /\ \A t \in DOMAIN made : made[t] \in Vhds => made[t] \in onDisk
        /\ host = [t \in Things |-> IF t \in {File(f) : f \in onDisk} THEN "present"
                                    ELSE IF t \in DOMAIN made THEN made[t] ELSE Absent]
  BY Zenon DEF Init
<1>3. Rooted(made)
  BY MachinesRooted
<1>4. host \in [Things -> Values]
  <2>1. \A t \in DOMAIN made : made[t] \in Values
    BY <1>3 DEF Rooted
  <2> QED
    BY <1>2, <2>1, ValuesAre
<1>5. \A t \in Things : t \notin {File(f) : f \in onDisk} =>
        host[t] = (IF t \in DOMAIN made THEN made[t] ELSE Absent)
  BY <1>2
<1>6. \A t \in Things : t[1] # "file" => host[t] = (IF t \in DOMAIN made THEN made[t] ELSE Absent)
  BY <1>5, NotFiles
<1>7. Tree(host)
  <2> SUFFICES ASSUME NEW t \in Things, NEW u \in Ancestors[t], host[u] = Absent
               PROVE  host[t] = Absent
    BY DEF Tree
  <2>1. CASE t \in {File(f) : f \in Vhds}
    BY <2>1, FileAlone
  <2>2. CASE t \notin {File(f) : f \in Vhds}
    <3>1. host[t] = (IF t \in DOMAIN made THEN made[t] ELSE Absent)
      BY <1>5, <2>2
    <3>2. u \in Things
      BY AncestorsAre
    <3>3. ASSUME t \in DOMAIN made, made[t] # Absent PROVE FALSE
      <4>1. u \in DOMAIN made /\ made[u] # Absent /\ u[1] # "file"
        BY <1>3, <3>3 DEF Rooted
      <4> QED
        BY <1>6, <3>2, <4>1
    <3> QED
      BY <3>1, <3>3
  <2> QED
    BY <2>1, <2>2
<1>8. Bare(host)
  <2> SUFFICES ASSUME NEW s \in Secrets PROVE host[Security(s)] \in {Absent, "off"}
    BY DEF Bare
  <2>1. Security(s) \in Things /\ Security(s) \in SecurityThings /\ Security(s)[1] # "file"
    BY SecretsAre, Parts
  <2> QED
    BY <1>3, <1>6, <2>1 DEF Rooted
<1>9. NoOp.step = "idle" /\ NoOp \in Ops
  BY OpIsTyped, ThingsAre, ValuesAre DEF NoOp, Steps, Op
<1>10. NoOp \in TypedOps
  BY <1>9 DEF TypedOps, StepNames, NicSteps
<1>11. NoCall.kind = "none" /\ NoCall.gen = 1 /\ NoCall.rest = <<>>
  BY DEF NoCall
<1>12. /\ watch \in [state : {"none", "running", "clean"}, files : SUBSET Vhds]
       /\ budget \in [edits : 0 .. MaxEdits, faults : 0 .. MaxFaults]
  BY <1>1, BoundsAssumption
<1>13. Types
  BY <1>1, <1>4, <1>10, <1>11, <1>12, NoRest DEF Types
<1>14. Names("none", NoOp) /\ (\A goal : Aims("none", NoOp, goal)) /\ Fits("none", "idle")
  BY DEF Names, Aims, Fits, Attaches, Secrets
<1>15. KindInv
  BY <1>1, <1>9, <1>11, <1>14 DEF KindInv
<1>16. Alone
  BY <1>1, <1>11 DEF Alone
<1> QED
  BY <1>7, <1>8, <1>13, <1>15, <1>16, EditInvInit DEF Typed

\* Every variable stays of its type: in particular every edit names things and
\* values that exist, and the plan of a creation is made of steps.
THEOREM EditTypeCorrect == Spec => []TypeOK
<1>1. CreateOps \subseteq Ops
  BY DEF CreateOps, TypedOps
<1>2. Typed => TypeOK
  <2>1. \A s \in Seq(CreateOps) : s \in Seq(Ops)
    BY <1>1
  <2> QED
    BY <2>1 DEF Typed, Types, TypeOK, TypedOps
<1> QED
  BY <1>2, TypedInit, TypedStep, PTL DEF Spec

----------------------------------------------------------------------------
(* Where the edits but the creation go from a call.                        *)

To(step, ok) ==
  /\ op'.step = step /\ op'.ok = ok
  /\ op'.at = op.at /\ op'.thing = op.thing /\ op'.what = op.what

LEMMA Goes ==
  ASSUME Typed, call.kind # "create"
  PROVE  /\ \A step : Goto(step) => To(step, op.ok)
         /\ \A step, ok : Afterwards(step, ok) => To(step, ok)
         /\ Finish(TRUE) => To("returned", TRUE)
         /\ Finish(FALSE) => To("returned", FALSE)
         /\ Finish(op.ok) => To("returned", op.ok)
<1>1. op \in Ops /\ op.ok \in BOOLEAN /\ plan = <<>> /\ Types /\ KindInv
  BY OpTypes DEF Typed, KindInv
<1>2. ASSUME NEW ok \in BOOLEAN, Finish(ok) PROVE To("returned", ok)
  BY <1>1, <1>2, FinishIs DEF To
<1>3. ASSUME NEW step, Goto(step) PROVE To(step, op.ok)
  BY <1>1, <1>3 DEF Goto, To, Ops
<1>4. ASSUME NEW step, NEW ok, Afterwards(step, ok) PROVE To(step, ok)
  BY <1>1, <1>4 DEF Afterwards, To, Ops
<1> QED
  BY <1>1, <1>2, <1>3, <1>4

\* A call that goes to a step where it is taken, and to another where it is not.
Asked(r, next, good, other, bad) ==
  /\ \/ Accepts(host, r) /\ host' = Applied(host, r) /\ UNCHANGED <<jobs, hit>> /\ To(next, good)
     \/ /\ Accepts(host, r) /\ host' = host /\ jobs' = jobs \cup {r}
        /\ hit' = hit \cup {<<op.step, "started">>} /\ To(next, good)
     \/ /\ ~Accepts(host, r) /\ UNCHANGED <<host, jobs>>
        /\ hit' = hit \cup {<<op.step, "refused">>} /\ To(other, bad)
     \/ UNCHANGED <<host, jobs>> /\ hit' = hit \cup {<<op.step, "failed">>} /\ To(other, bad)
     \/ UNCHANGED <<host, jobs>> /\ hit' = hit \cup {<<op.step, "threw">>} /\ To("returned", FALSE)
  /\ UNCHANGED <<call, watch>>

Looked(next, ok) == To(next, ok) /\ UNCHANGED <<host, jobs, call, watch, hit>>

LEMMA DiskAsks ==
  ASSUME Typed, call.kind # "create"
  PROVE  /\ AddDiskDrive => /\ op.step = "addDrive" /\ op.what \in Vhds
                            /\ Asked(Add(Drive(op.at), "disk"), "findDrive", op.ok, "returned", FALSE)
         /\ AddVhd => /\ op.step = "addVhd"
                      /\ Asked(Add(Medium(op.at), op.what), "pollLink", op.ok, "rollback", op.ok)
         /\ Rollback => /\ op.step = "rollback"
                        /\ Asked(Remove(Drive(op.at)), "returned", FALSE, "returned", FALSE)
         /\ CreateFile => /\ op.step = "createFile"
                          /\ Asked(Add(File(op.what), "present"), "resolve", op.ok, "returned", FALSE)
<1>1. Note("started") => hit' = hit \cup {<<op.step, "started">>}
  BY DEF Note
<1>2. Note("refused") => hit' = hit \cup {<<op.step, "refused">>}
  BY DEF Note
<1>3. Note("failed") => hit' = hit \cup {<<op.step, "failed">>}
  BY DEF Note
<1>4. Note("threw") => hit' = hit \cup {<<op.step, "threw">>}
  BY DEF Note
<1> USE <1>1, <1>2, <1>3, <1>4, Goes DEF Invoke, WaitForJob, Asked, At
<1>5. AddDiskDrive => /\ op.step = "addDrive" /\ op.what \in Vhds
                      /\ Asked(Add(Drive(op.at), "disk"), "findDrive", op.ok, "returned", FALSE)
  BY DEF AddDiskDrive
<1>6. AddVhd => /\ op.step = "addVhd"
                /\ Asked(Add(Medium(op.at), op.what), "pollLink", op.ok, "rollback", op.ok)
  BY DEF AddVhd
<1>7. Rollback => /\ op.step = "rollback"
                  /\ Asked(Remove(Drive(op.at)), "returned", FALSE, "returned", FALSE)
  BY DEF Rollback
<1>8. CreateFile => /\ op.step = "createFile"
                    /\ Asked(Add(File(op.what), "present"), "resolve", op.ok, "returned", FALSE)
  BY DEF CreateFile
<1> QED
  BY <1>5, <1>6, <1>7, <1>8

\* The step each action is taken at.
LEMMA StepAt ==
  /\ Resolve => op.step = "resolve"
  /\ AddDiskDrive => op.step = "addDrive"
  /\ AddDvdDrive => op.step = "addDrive"
  /\ AttachPhysicalDisk => op.step = "addDrive"
  /\ FindDrive => op.step = "findDrive"
  /\ AddVhd => op.step = "addVhd"
  /\ PollLink => op.step = "pollLink"
  /\ Rollback => op.step = "rollback"
  /\ CreateFile => op.step = "createFile"
  /\ SetDvdMedia => op.step = "media"
  /\ RemoveMedium => op.step = "removeMedium"
  /\ RemoveDrive => op.step = "removeDrive"
  /\ AddScsiController => op.step = "addCtrl"
  /\ RemoveScsiController => op.step = "removeCtrl"
  /\ AddPort => op.step = "addPort"
  /\ FindPort => op.step = "findPort"
  /\ AddConnection => op.step = "addConnection"
  /\ RemoveConnection => op.step = "removeConnection"
  /\ RemovePort => op.step = "removePort"
  /\ SetNetworkAdapterSwitch => op.step = "modify"
  /\ SetNetworkAdapterPort => op.step = "modify"
  /\ SetMemoryConfig => op.step = "modify"
  /\ SetProcessorConfig => op.step = "modify"
  /\ SetNetworkAdapterAdvanced => op.step = "feature"
  /\ SetNetworkAdapterBandwidth => op.step = "feature"
  /\ SetNetworkAdapterOffload => op.step = "feature"
  /\ SetNetworkAdapterVlan => op.step = "feature"
  /\ EnsureKeyProtector => op.step = "protect"
  /\ SetVmTpm => op.step = "secure"
  /\ SetVmStateEncryption => op.step = "secure"
  /\ SetVmShielded => op.step = "secure"
  /\ DefineSystem => op.step = "define"
  /\ MountFirst => op.step = "mountFirst"
  /\ PromoteDvdToBootFront => op.step = "promote"
  /\ DestroyVM => op.step = "destroy"
  /\ Return => op.step = "returned"
<1>1. Resolve => op.step = "resolve"
  BY DEF Resolve, At
<1>2. AddDiskDrive => op.step = "addDrive"
  BY DEF AddDiskDrive, At
<1>3. AddDvdDrive => op.step = "addDrive"
  BY DEF AddDvdDrive, At
<1>4. AttachPhysicalDisk => op.step = "addDrive"
  BY DEF AttachPhysicalDisk, At
<1>5. FindDrive => op.step = "findDrive"
  BY DEF FindDrive, At
<1>6. AddVhd => op.step = "addVhd"
  BY DEF AddVhd, At
<1>7. PollLink => op.step = "pollLink"
  BY DEF PollLink, At
<1>8. Rollback => op.step = "rollback"
  BY DEF Rollback, At
<1>9. CreateFile => op.step = "createFile"
  BY DEF CreateFile, At
<1>10. SetDvdMedia => op.step = "media"
  BY DEF SetDvdMedia, At
<1>11. RemoveMedium => op.step = "removeMedium"
  BY DEF RemoveMedium, At
<1>12. RemoveDrive => op.step = "removeDrive"
  BY DEF RemoveDrive, At
<1>13. AddScsiController => op.step = "addCtrl"
  BY DEF AddScsiController, At
<1>14. RemoveScsiController => op.step = "removeCtrl"
  BY DEF RemoveScsiController, At
<1>15. AddPort => op.step = "addPort"
  BY DEF AddPort, At
<1>16. FindPort => op.step = "findPort"
  BY DEF FindPort, At
<1>17. AddConnection => op.step = "addConnection"
  BY DEF AddConnection, At
<1>18. RemoveConnection => op.step = "removeConnection"
  BY DEF RemoveConnection, At
<1>19. RemovePort => op.step = "removePort"
  BY DEF RemovePort, At
<1>20. SetNetworkAdapterSwitch => op.step = "modify"
  BY DEF SetNetworkAdapterSwitch, At, ModifyOne
<1>21. SetNetworkAdapterPort => op.step = "modify"
  BY DEF SetNetworkAdapterPort, At, ModifyOne
<1>22. SetMemoryConfig => op.step = "modify"
  BY DEF SetMemoryConfig, At, ModifyOne
<1>23. SetProcessorConfig => op.step = "modify"
  BY DEF SetProcessorConfig, At, ModifyOne
<1>24. SetNetworkAdapterAdvanced => op.step = "feature"
  BY DEF SetNetworkAdapterAdvanced, At, ModifyOrAdd
<1>25. SetNetworkAdapterBandwidth => op.step = "feature"
  BY DEF SetNetworkAdapterBandwidth, At, ModifyOrAdd
<1>26. SetNetworkAdapterOffload => op.step = "feature"
  BY DEF SetNetworkAdapterOffload, At, ModifyOrAdd
<1>27. SetNetworkAdapterVlan => op.step = "feature"
  BY DEF SetNetworkAdapterVlan, At, ModifyOrAdd
<1>28. EnsureKeyProtector => op.step = "protect"
  BY DEF EnsureKeyProtector, At
<1>29. SetVmTpm => op.step = "secure"
  BY DEF SetVmTpm, At, ModifySecuritySettings
<1>30. SetVmStateEncryption => op.step = "secure"
  BY DEF SetVmStateEncryption, At, ModifySecuritySettings
<1>31. SetVmShielded => op.step = "secure"
  BY DEF SetVmShielded, At, ModifySecuritySettings
<1>32. DefineSystem => op.step = "define"
  BY DEF DefineSystem, At
<1>33. MountFirst => op.step = "mountFirst"
  BY DEF MountFirst, At
<1>34. PromoteDvdToBootFront => op.step = "promote"
  BY DEF PromoteDvdToBootFront, At
<1>35. DestroyVM => op.step = "destroy"
  BY DEF DestroyVM, At
<1>36. Return => op.step = "returned"
  BY DEF Return, At
<1> QED
  BY <1>1, <1>2, <1>3, <1>4, <1>5, <1>6, <1>7, <1>8, <1>9, <1>10, <1>11, <1>12, <1>13, <1>14, <1>15, <1>16, <1>17, <1>18, <1>19, <1>20, <1>21, <1>22, <1>23, <1>24, <1>25, <1>26, <1>27, <1>28, <1>29, <1>30, <1>31, <1>32, <1>33, <1>34, <1>35, <1>36

FirstSteps ==
  {"resolve", "createFile", "media", "removeMedium", "addCtrl", "removeCtrl", "addPort",
   "removeConnection", "modify", "feature", "protect", "define", "destroy"}

Callers == BeginStorage \/ BeginScsi \/ BeginNetwork \/ BeginSecurity \/ BeginCreate \/ BeginDestroy

LEMMA CallersBegin ==
  ASSUME Callers
  PROVE  /\ op.step = "idle" /\ UNCHANGED <<host, jobs, plan, watch>>
         /\ op'.step \in FirstSteps /\ (call'.kind = "create" => op'.step = "define")
         /\ hit' = (IF jobs = {} /\ watch.state = "none" THEN {} ELSE {<<"idle", "foreign">>})
         /\ call'.drives = {at \in Addrs : host[Drive(at)] # Absent}
<1> DEFINE Called(kind, step) == \E at, thing, what, goal, gen, rest :
             BeginAs(kind, Op(step, at, thing, what), goal, gen, rest)
           Firsts == \E kind, step : Called(kind, step) /\ step \in FirstSteps
                                     /\ (kind = "create" => step = "define")
<1> HIDE DEF Called
<1>1. ASSUME BeginStorage PROVE Firsts
  <2>1. \/ \E at, f, goal : Begin("attach", Op("resolve", at, VM, f), goal)
        \/ \E at, f, goal : Begin("createDisk", Op("createFile", at, VM, f), goal)
        \/ \E at, d, goal : Begin("physical", Op("resolve", at, VM, d), goal)
        \/ \E at, goal : Begin("addDvd", Op("resolve", at, VM, "dvd"), goal)
        \/ \E at, seen, iso, goal : Begin("media", Op("media", at, seen, iso), goal)
        \/ \E at, seen, goal : \E kind \in {"detach", "removeDvd"} :
             Begin(kind, Op("removeMedium", at, seen, Absent), goal)
    BY <1>1, Zenon DEF BeginStorage
  <2>2. \/ Called("attach", "resolve") \/ Called("createDisk", "createFile") \/ Called("physical", "resolve")
        \/ Called("addDvd", "resolve") \/ Called("media", "media")
        \/ \E kind \in {"detach", "removeDvd"} : Called(kind, "removeMedium")
    BY <2>1, Zenon DEF Begin, Called
  <2> QED
    BY <2>2 DEF FirstSteps
<1>2. ASSUME BeginScsi PROVE Firsts
  <2>1. Called("addScsi", "addCtrl") \/ Called("removeScsi", "removeCtrl")
    BY <1>2, Zenon DEF BeginScsi, Begin, Called
  <2> QED
    BY <2>1 DEF FirstSteps
<1>3. ASSUME BeginNetwork PROVE Firsts
  <2>1. \/ Called("addNic", "addPort") \/ Called("removeNic", "removeConnection")
        \/ Called("switch", "modify") \/ Called("port", "modify") \/ Called("feature", "feature")
    BY <1>3, Zenon DEF BeginNetwork, Begin, Called
  <2> QED
    BY <2>1 DEF FirstSteps
<1>4. ASSUME BeginSecurity PROVE Firsts
  <2>1. \E s \in Secrets : Called(s, "protect")
    BY <1>4, Zenon DEF BeginSecurity, Begin, Called
  <2> QED
    BY <2>1 DEF FirstSteps, Secrets
<1>5. ASSUME BeginCreate PROVE Firsts
  <2>1. Called("create", "define")
    BY <1>5, Zenon DEF BeginCreate, Called
  <2> QED
    BY <2>1 DEF FirstSteps
<1>6. ASSUME BeginDestroy PROVE Firsts
  <2>1. Called("destroy", "destroy")
    BY <1>6, Zenon DEF BeginDestroy, Begin, Called
  <2> QED
    BY <2>1 DEF FirstSteps
<1>7. Firsts
  BY <1>1, <1>2, <1>3, <1>4, <1>5, <1>6 DEF Callers
<1>8. PICK kind, step : /\ Called(kind, step) /\ step \in FirstSteps
                        /\ (kind = "create" => step = "define")
  BY <1>7
<1>9. PICK at, thing, what, goal, gen, rest :
        BeginAs(kind, Op(step, at, thing, what), goal, gen, rest)
  BY <1>8 DEF Called
<1>10. Op(step, at, thing, what).step = step
  BY DEF Op
<1> QED
  BY <1>8, <1>9, <1>10 DEF BeginAs

----------------------------------------------------------------------------
(* Attaching a disk.                                                       *)

\* What a refusal, or a disk that does not come up, leaves in hit.
Undoable ==
  {<<"addDrive", "refused">>, <<"addDrive", "failed">>, <<"addVhd", "refused">>,
   <<"addVhd", "failed">>, <<"addVhd", "started">>}

FileJob   == Add(File(op.what), "present")
DriveJob  == Add(Drive(op.at), "disk")
MediumJob == Add(Medium(op.at), op.what)
UndoJob   == Remove(Drive(op.at))

Before == {"createFile", "resolve", "addDrive"}
Within == {"findDrive", "addVhd", "pollLink", "rollback"}

Taken == {at \in Addrs : host[Drive(at)] # Absent}

\* The jobs are the edit's own, and only they put anything in its drive.
Linking ==
  /\ jobs \subseteq {FileJob, DriveJob, MediumJob, UndoJob}
  /\ op.step \in Before => jobs \subseteq {FileJob}
  /\ UndoJob \in jobs => Returned /\ ~op.ok
  /\ op.step \in Within => host[Medium(op.at)] \in {Absent, op.what}
  /\ Returned /\ op.ok => host[Medium(op.at)] = op.what

\* The edit's own drive is there until it is taken away again.
Undoing ==
  /\ jobs \subseteq {MediumJob}
  /\ op.step \in Before \/ (Returned /\ ~op.ok) => Taken \subseteq call.drives
  /\ op.step \in Within => Taken \subseteq call.drives \cup {op.at} /\ host[Drive(op.at)] = "disk"

AttachInv ==
  call.kind \in Attaches => (Clean => Linking) /\ (hit \subseteq Undoable => Undoing)

\* What the edit is about.
LEMMA AttachIs ==
  ASSUME Typed, call.kind \in Attaches
  PROVE  /\ op.at \in Addrs /\ op.what \in Vhds /\ op.what # Absent
         /\ op.step \in DiskSteps \cup {"returned"} /\ call.kind # "create"
         /\ call.goal = One(Medium(op.at), op.what)
         /\ hit \subseteq Undoable => Clean
         /\ Clean => watch.state = "none"
<1>1. Names(call.kind, op) /\ Aims(call.kind, op, call.goal)
  BY DEF Typed, KindInv
<1>2. op.at \in Addrs /\ op.what \in Vhds
  BY <1>1 DEF Names
<1>3. op.step \in DiskSteps \cup {"returned"}
  BY DEF Typed, KindInv, Fits
<1>4. call.kind \notin {"create", "none", "destroy"}
  BY DEF Attaches
<1>5. hit \subseteq Undoable => Clean
  BY DEF Undoable, Clean, Marks
<1>6. Clean => watch.state = "none"
  BY <1>4 DEF Typed, Alone
<1>7. call.goal = One(Medium(op.at), op.what)
  BY <1>1 DEF Aims
<1> QED
  BY <1>2, <1>3, <1>4, <1>5, <1>6, <1>7, BoundsAssumption

\* The things it names are different things.
LEMMA AttachThings ==
  ASSUME NEW at \in Addrs, NEW what \in Vhds
  PROVE  /\ Drive(at) \in Things /\ Medium(at) \in Things /\ File(what) \in Things
         /\ Drive(at) # Medium(at) /\ Drive(at) # File(what) /\ Medium(at) # File(what)
         /\ \A x \in Addrs : Drive(x) # Medium(at) /\ Drive(x) # File(what) /\ (Drive(x) = Drive(at) => x = at)
         /\ {Drive(at), Medium(at), File(what)} \cap SecurityThings = {}
<1>1. Drive(at)[1] = "drive" /\ Medium(at)[1] = "medium" /\ File(what)[1] = "file"
  BY Parts, NotFiles
<1>2. \A x \in Addrs : Drive(x)[1] = "drive" /\ (Drive(x) = Drive(at) => x = at)
  BY AddrsArePairs DEF Drive
<1>3. \A t \in SecurityThings : t[1] = "security"
  BY Parts DEF SecurityThings
<1> QED
  BY <1>1, <1>2, <1>3, ThingsAre

\* What the edit's requests do to its drive and to the others.
LEMMA AttachApplied ==
  ASSUME Typed, NEW at \in Addrs, NEW what \in Vhds
  PROVE  /\ Accepts(host, Add(Drive(at), "disk")) =>
              LET h == Applied(host, Add(Drive(at), "disk"))
              IN  /\ h[Drive(at)] = "disk" /\ h[Medium(at)] \in {Absent, host[Medium(at)]}
                  /\ \A x \in Addrs : x # at => h[Drive(x)] = host[Drive(x)]
                  /\ h[Medium(at)] = host[Medium(at)]
         /\ Accepts(host, Add(Medium(at), what)) =>
              LET h == Applied(host, Add(Medium(at), what))
              IN  h[Medium(at)] = what /\ \A x \in Addrs : h[Drive(x)] = host[Drive(x)]
         /\ Accepts(host, Add(File(what), "present")) =>
              LET h == Applied(host, Add(File(what), "present"))
              IN  h[Medium(at)] = host[Medium(at)] /\ \A x \in Addrs : h[Drive(x)] = host[Drive(x)]
         /\ Accepts(host, Remove(Drive(at))) =>
              LET h == Applied(host, Remove(Drive(at)))
              IN  /\ h[Drive(at)] = Absent
                  /\ \A x \in Addrs : x # at => h[Drive(x)] \in {Absent, host[Drive(x)]}
         /\ host[Drive(at)] = "disk" => Accepts(host, Remove(Drive(at)))
         /\ Accepts(host, Add(Drive(at), "disk")) => host[Medium(at)] = Absent /\ host[Drive(at)] = Absent
<1>t. /\ Drive(at) \in Things /\ Medium(at) \in Things /\ File(what) \in Things
      /\ Drive(at) # Medium(at) /\ Drive(at) # File(what) /\ Medium(at) # File(what)
      /\ \A x \in Addrs : Drive(x) \in Things /\ Drive(x) # Medium(at) /\ Drive(x) # File(what) /\ (Drive(x) = Drive(at) => x = at)
      /\ {Drive(at), Medium(at), File(what)} \cap SecurityThings = {}
  BY AttachThings
<1>h. Tree(host) /\ what # Absent /\ "present" # Absent /\ "disk" # Absent
  BY BoundsAssumption DEF Typed, Absent
<1>a. \A t, v : Add(t, v).set = One(t, v) /\ DOMAIN One(t, v) = {t} /\ One(t, v)[t] = v /\ Add(t, v).verb = "add"
  BY DEF Add, Request, One
<1>n. \A t, v : DOMAIN One(t, v) = {t} /\ One(t, v)[t] = v
  BY DEF One
<1>r. \A t : Remove(t).set = One(t, Absent) /\ Remove(t).verb = "remove"
  BY DEF Remove, Request
<1>o. ASSUME NEW t \in {Drive(at), Medium(at), File(what)}, NEW v, v # Absent, Accepts(host, Add(t, v))
      PROVE  /\ Applied(host, Add(t, v))[t] = v
             /\ \A x \in Things : x # t => Applied(host, Add(t, v))[x] = host[x]
  <2> DEFINE r == Add(t, v)
  <2>a. r.set = One(t, v) /\ DOMAIN r.set = {t} /\ r.set[t] # Absent /\ Accepts(host, r)
    BY <1>o, <1>a
  <2>b. t \in Things /\ t \notin SecurityThings
    BY <1>t
  <2> HIDE DEF r
  <2>1. Applied(host, r)[t] = v
    BY <2>a, <2>b, <1>h, OneApplied
  <2>2. ASSUME NEW x \in Things, x # t PROVE Applied(host, r)[x] = host[x]
    <3>1. x \notin DOMAIN r.set /\ \A u \in DOMAIN r.set : r.set[u] # Absent
      BY <2>a, <2>2
    <3> QED
      BY <3>1, <1>h, OthersApplied
  <2> QED
    BY <2>1, <2>2 DEF r
<1>1. Accepts(host, Add(Drive(at), "disk")) => host[Medium(at)] = Absent /\ host[Drive(at)] = Absent
  <2> SUFFICES ASSUME Accepts(host, Add(Drive(at), "disk")) PROVE host[Medium(at)] = Absent /\ host[Drive(at)] = Absent
    OBVIOUS
  <2> DEFINE r == Add(Drive(at), "disk")
  <2>1. DOMAIN r.set = {Drive(at)} /\ r.verb = "add" /\ Accepts(host, r)
    BY <1>a
  <2> HIDE DEF r
  <2>2. host[Drive(at)] = Absent
    BY <2>1 DEF Accepts
  <2>3. Drive(at) \in Ancestors[Medium(at)] /\ Medium(at) \in Things
    BY <1>t, MediumAncestors
  <2> QED
    BY <2>2, <2>3, <1>h DEF Tree
<1>2. host[Drive(at)] = "disk" => Accepts(host, Remove(Drive(at)))
  <2> SUFFICES ASSUME host[Drive(at)] = "disk" PROVE Accepts(host, Remove(Drive(at)))
    OBVIOUS
  <2> DEFINE r == Remove(Drive(at))
  <2>1. DOMAIN r.set = {Drive(at)} /\ r.set[Drive(at)] = Absent /\ r.verb = "remove"
    BY <1>r, <1>n
  <2>2. Parent(Drive(at)) = Ctrl(at[1]) /\ Ctrl(at[1]) \in Ancestors[Drive(at)]
    BY ParentOfStorage, MediumAncestors
  <2>3. host[Ctrl(at[1])] # Absent
    BY <1>h, <1>t, <2>2 DEF Tree
  <2>4. Drive(at)[1] # "ctrl" /\ Absent \notin Vhds
    BY Parts, BoundsAssumption
  <2> QED
    <3> HIDE DEF r
    <3>1. host[Drive(at)] # Absent
      BY <1>h
    <3>2. Accepts(host, r)
      BY <3>1, <2>1, <2>2, <2>3, <2>4 DEF Accepts
    <3> QED
      BY <3>2 DEF r
<1>3. Accepts(host, Remove(Drive(at))) =>
        /\ Applied(host, Remove(Drive(at)))[Drive(at)] = Absent
        /\ \A x \in Addrs : x # at => Applied(host, Remove(Drive(at)))[Drive(x)] \in {Absent, host[Drive(x)]}
  <2>1. Accepts(host, Remove(Drive(at))) => Applied(host, Remove(Drive(at)))[Drive(at)] = Absent
    <3>1. Remove(Drive(at)).set = One(Drive(at), Absent) /\ Drive(at) \in Things /\ Drive(at) \notin SecurityThings
      BY <1>r, <1>t
    <3> QED
      BY <3>1, <1>h, OneApplied
  <2>2. ASSUME NEW x \in Addrs, x # at
        PROVE Applied(host, Remove(Drive(at)))[Drive(x)] \in {Absent, host[Drive(x)]}
    <3>0. Drive(x) \in Things /\ Drive(x) # Drive(at)
      BY <1>t, <2>2
    <3>1. Drive(x) \notin DOMAIN Remove(Drive(at)).set
      BY <1>r, <1>n, <3>0
    <3> QED
      BY <3>0, <3>1, OthersApplied
  <2> QED
    BY <2>1, <2>2
<1>4. Accepts(host, Add(Drive(at), "disk")) =>
        /\ Applied(host, Add(Drive(at), "disk"))[Drive(at)] = "disk"
        /\ Applied(host, Add(Drive(at), "disk"))[Medium(at)] = host[Medium(at)]
        /\ \A x \in Addrs : x # at => Applied(host, Add(Drive(at), "disk"))[Drive(x)] = host[Drive(x)]
  BY <1>o, <1>t, <1>h
<1>5. Accepts(host, Add(Medium(at), what)) =>
        /\ Applied(host, Add(Medium(at), what))[Medium(at)] = what
        /\ \A x \in Addrs : Applied(host, Add(Medium(at), what))[Drive(x)] = host[Drive(x)]
  BY <1>o, <1>t, <1>h
<1>6. Accepts(host, Add(File(what), "present")) =>
        /\ Applied(host, Add(File(what), "present"))[Medium(at)] = host[Medium(at)]
        /\ \A x \in Addrs : Applied(host, Add(File(what), "present"))[Drive(x)] = host[Drive(x)]
  BY <1>o, <1>t, <1>h
<1> QED
  BY <1>1, <1>2, <1>3, <1>4, <1>5, <1>6

LEMMA UndoableAre ==
  /\ \A x : <<"createFile", x>> \notin Undoable /\ <<"rollback", x>> \notin Undoable
  /\ <<"addDrive", "started">> \notin Undoable /\ <<"addDrive", "threw">> \notin Undoable
  /\ <<"addVhd", "threw">> \notin Undoable /\ \A x : <<"idle", x>> \notin Undoable
BY DEF Undoable

LEMMA JobsDiffer == \A t, u, v : Remove(t) # Add(u, v)
<1>1. \A t, u, v : Remove(t).verb # Add(u, v).verb
  BY DEF Remove, Add, Request
<1> QED
  BY <1>1

\* A step of the edit keeps what it is about; its marks only grow.
LEMMA AttachForth ==
  ASSUME Typed, call.kind \in Attaches, UNCHANGED call, op'.at = op.at, op'.what = op.what, hit \subseteq hit'
  PROVE  /\ FileJob' = FileJob /\ DriveJob' = DriveJob /\ MediumJob' = MediumJob /\ UndoJob' = UndoJob
         /\ Clean' => Clean
         /\ hit' \subseteq Undoable => hit \subseteq Undoable
BY DEF FileJob, DriveJob, MediumJob, UndoJob, Clean, Marks

\* The two halves of the invariant after a step, in terms of the state before.
LEMMA AttachGoes ==
  ASSUME Typed, call.kind \in Attaches, UNCHANGED call, op'.at = op.at, op'.what = op.what, hit \subseteq hit',
         Clean' => /\ jobs' \subseteq {FileJob, DriveJob, MediumJob, UndoJob}
                   /\ op'.step \in Before => jobs' \subseteq {FileJob}
                   /\ UndoJob \in jobs' => op'.step = "returned" /\ ~op'.ok
                   /\ op'.step \in Within => host'[Medium(op.at)] \in {Absent, op.what}
                   /\ op'.step = "returned" /\ op'.ok => host'[Medium(op.at)] = op.what,
         hit' \subseteq Undoable =>
                   /\ jobs' \subseteq {MediumJob}
                   /\ op'.step \in Before \/ (op'.step = "returned" /\ ~op'.ok) => Taken' \subseteq call.drives
                   /\ op'.step \in Within => Taken' \subseteq call.drives \cup {op.at} /\ host'[Drive(op.at)] = "disk"
  PROVE  AttachInv'
<1>1. FileJob' = FileJob /\ DriveJob' = DriveJob /\ MediumJob' = MediumJob /\ UndoJob' = UndoJob
  BY AttachForth
<1>2. Clean' => Linking'
  BY <1>1 DEF Linking, Returned
<1>3. hit' \subseteq Undoable => Undoing'
  BY <1>1 DEF Undoing, Returned
<1>4. Undoable' = Undoable
  BY DEF Undoable
<1> QED
  BY <1>2, <1>3, <1>4 DEF AttachInv

LEMMA CreateFileAttach ==
  ASSUME Typed, AttachInv, call.kind \in Attaches, CreateFile
  PROVE  AttachInv'
<1>1. /\ op.step = "createFile" /\ call.kind # "create" /\ op.at \in Addrs /\ op.what \in Vhds
      /\ Asked(FileJob, "resolve", op.ok, "returned", FALSE)
  BY AttachIs, DiskAsks DEF FileJob
<1>2. op'.at = op.at /\ op'.what = op.what /\ hit \subseteq hit' /\ UNCHANGED call
  BY <1>1 DEF Asked, To
<1>3. (Clean' => Clean) /\ (hit' \subseteq Undoable => hit \subseteq Undoable)
  BY <1>2, AttachForth
<1>4. jobs' \subseteq jobs \cup {FileJob} /\ (op'.step = "resolve" \/ (op'.step = "returned" /\ ~op'.ok))
  BY <1>1 DEF Asked, To
<1>5. UndoJob # FileJob
  BY JobsDiffer DEF UndoJob, FileJob
<1>6. ASSUME Clean'
      PROVE  jobs' \subseteq {FileJob}
  BY <1>1, <1>3, <1>4, <1>6 DEF AttachInv, Linking, Before
<1>7. ASSUME hit' \subseteq Undoable
      PROVE  jobs' \subseteq {MediumJob} /\ Taken' \subseteq call.drives
  <2>1. \A x : hit' # hit \cup {<<op.step, x>>}
    BY <1>1, <1>7, UndoableAre
  <2>2. Accepts(host, FileJob) /\ host' = Applied(host, FileJob) /\ jobs' = jobs
    BY <1>1, <2>1 DEF Asked
  <2>3. \A x \in Addrs : host'[Drive(x)] = host[Drive(x)]
    BY <1>1, <2>2, AttachApplied DEF FileJob
  <2> QED
    BY <1>1, <1>3, <1>7, <2>2, <2>3 DEF AttachInv, Undoing, Before, Taken
<1>8. op'.step \notin Within
  BY <1>4 DEF Within
<1> QED
  BY <1>2, <1>4, <1>5, <1>6, <1>7, <1>8, AttachGoes

LEMMA AddDriveAttach ==
  ASSUME Typed, AttachInv, call.kind \in Attaches, AddDiskDrive
  PROVE  AttachInv'
<1>1. /\ op.step = "addDrive" /\ call.kind # "create" /\ op.at \in Addrs /\ op.what \in Vhds
      /\ Asked(DriveJob, "findDrive", op.ok, "returned", FALSE)
  BY AttachIs, DiskAsks DEF DriveJob
<1>2. op'.at = op.at /\ op'.what = op.what /\ hit \subseteq hit' /\ UNCHANGED call
  BY <1>1 DEF Asked, To
<1>3. (Clean' => Clean) /\ (hit' \subseteq Undoable => hit \subseteq Undoable)
  BY <1>2, AttachForth
<1>4. jobs' \subseteq jobs \cup {DriveJob} /\ (op'.step = "findDrive" \/ (op'.step = "returned" /\ ~op'.ok))
  BY <1>1 DEF Asked, To
<1>5. UndoJob # FileJob /\ UndoJob # DriveJob
  BY JobsDiffer DEF UndoJob, FileJob, DriveJob
<1>6. ASSUME Clean'
      PROVE  jobs' \subseteq {FileJob, DriveJob}
  BY <1>1, <1>3, <1>4, <1>6 DEF AttachInv, Linking, Before
<1>7. op'.step = "findDrive" => host'[Medium(op.at)] = Absent
  <2> SUFFICES ASSUME op'.step = "findDrive" PROVE host'[Medium(op.at)] = Absent
    OBVIOUS
  <2>1. Accepts(host, DriveJob) /\ (host' = host \/ host' = Applied(host, DriveJob))
    BY <1>1 DEF Asked, To
  <2> QED
    BY <1>1, <2>1, AttachApplied DEF DriveJob
<1>8. ASSUME hit' \subseteq Undoable
      PROVE  /\ jobs' \subseteq {MediumJob}
             /\ op'.step = "returned" => Taken' \subseteq call.drives
             /\ op'.step = "findDrive" => Taken' \subseteq call.drives \cup {op.at} /\ host'[Drive(op.at)] = "disk"
  <2>0. hit' # hit \cup {<<op.step, "started">>} /\ hit' # hit \cup {<<op.step, "threw">>}
    BY <1>1, <1>8, UndoableAre
  <2>1. jobs \subseteq {MediumJob} /\ Taken \subseteq call.drives
    BY <1>1, <1>3, <1>8 DEF AttachInv, Undoing, Before
  <2>2. \/ Accepts(host, DriveJob) /\ host' = Applied(host, DriveJob) /\ jobs' = jobs /\ op'.step = "findDrive"
        \/ host' = host /\ jobs' = jobs /\ op'.step = "returned"
    BY <1>1, <2>0 DEF Asked, To
  <2>3. CASE Accepts(host, DriveJob) /\ host' = Applied(host, DriveJob) /\ jobs' = jobs /\ op'.step = "findDrive"
    <3>1. host'[Drive(op.at)] = "disk" /\ \A x \in Addrs : x # op.at => host'[Drive(x)] = host[Drive(x)]
      BY <1>1, <2>3, AttachApplied DEF DriveJob
    <3> QED
      BY <2>1, <2>3, <3>1 DEF Taken
  <2>4. CASE host' = host /\ jobs' = jobs /\ op'.step = "returned"
    BY <2>1, <2>4 DEF Taken
  <2> QED
    BY <2>2, <2>3, <2>4
<1>9. "findDrive" \notin Before /\ "returned" \notin Before \cup Within
  BY DEF Before, Within
<1> QED
  BY <1>2, <1>4, <1>5, <1>6, <1>7, <1>8, <1>9, AttachGoes

LEMMA AddVhdAttach ==
  ASSUME Typed, AttachInv, call.kind \in Attaches, AddVhd
  PROVE  AttachInv'
<1>1. /\ op.step = "addVhd" /\ call.kind # "create" /\ op.at \in Addrs /\ op.what \in Vhds
      /\ Asked(MediumJob, "pollLink", op.ok, "rollback", op.ok)
  BY AttachIs, DiskAsks DEF MediumJob
<1>2. op'.at = op.at /\ op'.what = op.what /\ hit \subseteq hit' /\ UNCHANGED call
  BY <1>1 DEF Asked, To
<1>3. (Clean' => Clean) /\ (hit' \subseteq Undoable => hit \subseteq Undoable)
  BY <1>2, AttachForth
<1>4. /\ jobs' \subseteq jobs \cup {MediumJob}
      /\ op'.step \in {"pollLink", "rollback"} \/ (op'.step = "returned" /\ ~op'.ok)
      /\ host' = host \/ (Accepts(host, MediumJob) /\ host' = Applied(host, MediumJob))
  BY <1>1 DEF Asked, To
<1>5. UndoJob # MediumJob
  BY JobsDiffer DEF UndoJob, MediumJob
<1>6. /\ Accepts(host, MediumJob) /\ host' = Applied(host, MediumJob) => host'[Medium(op.at)] = op.what
      /\ \A x \in Addrs : host'[Drive(x)] = host[Drive(x)]
  BY <1>1, <1>4, AttachApplied DEF MediumJob
<1>7. ASSUME Clean'
      PROVE  /\ jobs' \subseteq {FileJob, DriveJob, MediumJob, UndoJob} /\ UndoJob \notin jobs'
             /\ host'[Medium(op.at)] \in {Absent, op.what}
  <2>1. Linking /\ op.step \in Within /\ op.step # "returned"
    BY <1>1, <1>3, <1>7 DEF AttachInv, Within
  <2> QED
    BY <1>4, <1>5, <1>6, <2>1 DEF Linking, Returned
<1>8. ASSUME hit' \subseteq Undoable
      PROVE  /\ jobs' \subseteq {MediumJob} /\ op'.step # "returned"
             /\ Taken' \subseteq call.drives \cup {op.at} /\ host'[Drive(op.at)] = "disk"
  <2>0. hit' # hit \cup {<<op.step, "threw">>}
    BY <1>1, <1>8, UndoableAre
  <2>1. Undoing /\ op.step \in Within
    BY <1>1, <1>3, <1>8 DEF AttachInv, Within
  <2>2. op'.step # "returned"
    BY <1>1, <2>0 DEF Asked, To
  <2> QED
    BY <1>1, <1>4, <1>6, <2>1, <2>2 DEF Undoing, Taken
<1>9. {"pollLink", "rollback"} \cap Before = {} /\ "returned" \notin Before \cup Within
  BY DEF Before, Within
<1> QED
  BY <1>2, <1>4, <1>7, <1>8, <1>9, AttachGoes

LEMMA RollbackAttach ==
  ASSUME Typed, AttachInv, call.kind \in Attaches, Rollback
  PROVE  AttachInv'
<1>1. /\ op.step = "rollback" /\ call.kind # "create" /\ op.at \in Addrs /\ op.what \in Vhds
      /\ Asked(UndoJob, "returned", FALSE, "returned", FALSE)
  BY AttachIs, DiskAsks DEF UndoJob
<1>2. op'.at = op.at /\ op'.what = op.what /\ hit \subseteq hit' /\ UNCHANGED call
  BY <1>1 DEF Asked, To
<1>3. (Clean' => Clean) /\ (hit' \subseteq Undoable => hit \subseteq Undoable)
  BY <1>2, AttachForth
<1>4. jobs' \subseteq jobs \cup {UndoJob} /\ op'.step = "returned" /\ ~op'.ok
  BY <1>1 DEF Asked, To
<1>5. ASSUME Clean'
      PROVE  jobs' \subseteq {FileJob, DriveJob, MediumJob, UndoJob}
  BY <1>3, <1>4, <1>5 DEF AttachInv, Linking
<1>6. ASSUME hit' \subseteq Undoable
      PROVE  jobs' \subseteq {MediumJob} /\ Taken' \subseteq call.drives
  <2>0. \A x : hit' # hit \cup {<<op.step, x>>}
    BY <1>1, <1>6, UndoableAre
  <2>1. Undoing /\ op.step \in Within
    BY <1>1, <1>3, <1>6 DEF AttachInv, Within
  <2>2. Accepts(host, UndoJob) /\ host' = Applied(host, UndoJob) /\ jobs' = jobs
    BY <1>1, <2>0 DEF Asked
  <2>3. /\ host'[Drive(op.at)] = Absent
        /\ \A x \in Addrs : x # op.at => host'[Drive(x)] \in {Absent, host[Drive(x)]}
    BY <1>1, <2>2, AttachApplied DEF UndoJob
  <2> QED
    BY <2>1, <2>2, <2>3 DEF Undoing, Taken
<1>7. "returned" \notin Before \cup Within
  BY DEF Before, Within
<1> QED
  BY <1>2, <1>4, <1>5, <1>6, <1>7, AttachGoes

LEMMA DiskLooks ==
  ASSUME Typed, call.kind # "create"
  PROVE  /\ Resolve /\ op.at \in Addrs =>
              op.step = "resolve" /\ (Looked("addDrive", op.ok) \/ Looked("returned", FALSE))
         /\ FindDrive => /\ op.step = "findDrive"
                         /\ \/ host[Drive(op.at)] = "disk" /\ Looked("addVhd", op.ok)
                            \/ host[Drive(op.at)] # "disk" /\ Looked("returned", FALSE)
         /\ PollLink => /\ op.step = "pollLink"
                        /\ \/ host[Medium(op.at)] # Absent /\ Looked("returned", TRUE)
                           \/ host[Medium(op.at)] = Absent /\ Looked("rollback", op.ok)
<1>1. ASSUME Resolve, op.at \in Addrs
      PROVE  op.step = "resolve" /\ (Looked("addDrive", op.ok) \/ Looked("returned", FALSE))
  <2>1. op \in Ops /\ Types
    BY OpTypes DEF Typed
  <2>2. ASSUME NEW at \in ResolveStorageTarget, op' = [op EXCEPT !.step = "addDrive", !.at = at]
        PROVE  To("addDrive", op.ok)
    <3>1. at = op.at
      BY <1>1, <2>1, TargetIs
    <3> QED
      BY <2>1, <2>2, <3>1 DEF To, Ops
  <2> QED
    BY <1>1, <2>2, Goes DEF Resolve, Quiet, Looked, At
<1>2. FindDrive => /\ op.step = "findDrive"
                   /\ \/ host[Drive(op.at)] = "disk" /\ Looked("addVhd", op.ok)
                      \/ host[Drive(op.at)] # "disk" /\ Looked("returned", FALSE)
  BY Goes DEF FindDrive, Quiet, Looked, At
<1>3. PollLink => /\ op.step = "pollLink"
                  /\ \/ host[Medium(op.at)] # Absent /\ Looked("returned", TRUE)
                     \/ host[Medium(op.at)] = Absent /\ Looked("rollback", op.ok)
  BY Goes DEF PollLink, Quiet, Looked, At
<1> QED
  BY <1>1, <1>2, <1>3

LEMMA LooksAttach ==
  ASSUME Typed, AttachInv, call.kind \in Attaches, Resolve \/ FindDrive \/ PollLink
  PROVE  AttachInv'
<1>0. op.at \in Addrs /\ op.what \in Vhds /\ call.kind # "create"
  BY AttachIs
<1>1. /\ op'.at = op.at /\ op'.what = op.what /\ UNCHANGED <<host, jobs, call, watch, hit>>
      /\ \/ op.step = "resolve" /\ (op'.step = "addDrive" \/ (op'.step = "returned" /\ ~op'.ok))
         \/ op.step = "findDrive" /\ (op'.step = "addVhd" \/ (op'.step = "returned" /\ ~op'.ok))
         \/ op.step = "pollLink" /\ (op'.step = "rollback" \/ (op'.step = "returned" /\ op'.ok))
      /\ op.step = "findDrive" /\ op'.step = "returned" => host[Drive(op.at)] # "disk"
      /\ op'.step = "returned" /\ op'.ok => host[Medium(op.at)] # Absent
  BY <1>0, DiskLooks DEF Looked, To
<1>2. (Clean' => Clean) /\ (hit' \subseteq Undoable => hit \subseteq Undoable)
  BY <1>1, AttachForth
<1>3. ASSUME Clean'
      PROVE  /\ jobs' \subseteq {FileJob, DriveJob, MediumJob, UndoJob}
             /\ op'.step \in Before => jobs' \subseteq {FileJob}
             /\ UndoJob \in jobs' => op'.step = "returned" /\ ~op'.ok
             /\ op'.step \in Within => host'[Medium(op.at)] \in {Absent, op.what}
             /\ op'.step = "returned" /\ op'.ok => host'[Medium(op.at)] = op.what
  BY <1>1, <1>2, <1>3 DEF AttachInv, Linking, Before, Within, Returned
<1>4. ASSUME hit' \subseteq Undoable
      PROVE  /\ jobs' \subseteq {MediumJob}
             /\ op'.step \in Before \/ (op'.step = "returned" /\ ~op'.ok) => Taken' \subseteq call.drives
             /\ op'.step \in Within => Taken' \subseteq call.drives \cup {op.at} /\ host'[Drive(op.at)] = "disk"
  <2>1. Undoing /\ Taken' = Taken
    BY <1>1, <1>2, <1>4 DEF AttachInv, Taken
  <2> QED
    BY <1>1, <2>1 DEF Undoing, Before, Within, Returned
<1> QED
  BY <1>1, <1>3, <1>4, AttachGoes

LEMMA JobEndAttach ==
  ASSUME Typed, AttachInv, call.kind \in Attaches, JobEnds
  PROVE  AttachInv'
<1>0. op.at \in Addrs /\ op.what \in Vhds /\ op.what # Absent
  BY AttachIs
<1>1. PICK j \in jobs :
        /\ jobs' = jobs \ {j} /\ UNCHANGED <<call, op, plan, watch, hit>>
        /\ host' = host \/ (Accepts(host, j) /\ host' = Applied(host, j))
  BY DEF JobEnds
<1>2. (Clean' => Clean) /\ (hit' \subseteq Undoable => hit \subseteq Undoable)
  BY <1>1, AttachForth
<1>3. ASSUME Clean'
      PROVE  /\ jobs' \subseteq {FileJob, DriveJob, MediumJob, UndoJob}
             /\ op.step \in Before => jobs' \subseteq {FileJob}
             /\ UndoJob \in jobs' => op.step = "returned" /\ ~op.ok
             /\ op.step \in Within => host'[Medium(op.at)] \in {Absent, op.what}
             /\ op.step = "returned" /\ op.ok => host'[Medium(op.at)] = op.what
  <2>1. Linking
    BY <1>2, <1>3 DEF AttachInv
  <2>2. j = UndoJob => op.step = "returned" /\ ~op.ok
    BY <2>1 DEF Linking, Returned
  <2>3. j \in {FileJob, DriveJob, MediumJob} => host'[Medium(op.at)] \in {host[Medium(op.at)], op.what}
    BY <1>0, <1>1, AttachApplied DEF FileJob, DriveJob, MediumJob
  <2>4. "returned" \notin Within
    BY DEF Within
  <2> QED
    BY <1>1, <2>1, <2>2, <2>3, <2>4 DEF Linking, Returned
<1>4. ASSUME hit' \subseteq Undoable
      PROVE  /\ jobs' \subseteq {MediumJob}
             /\ op.step \in Before \/ (op.step = "returned" /\ ~op.ok) => Taken' \subseteq call.drives
             /\ op.step \in Within => Taken' \subseteq call.drives \cup {op.at} /\ host'[Drive(op.at)] = "disk"
  <2>1. Undoing /\ j = MediumJob
    BY <1>2, <1>4 DEF AttachInv, Undoing
  <2>2. \A x \in Addrs : host'[Drive(x)] = host[Drive(x)]
    BY <1>0, <1>1, <2>1, AttachApplied DEF MediumJob
  <2> QED
    BY <1>0, <1>1, <2>1, <2>2 DEF Undoing, Taken, Returned
<1> QED
  BY <1>1, <1>3, <1>4, AttachGoes

LEMMA CallersAttach ==
  ASSUME Typed, Typed', Callers, call'.kind \in Attaches
  PROVE  AttachInv'
<1>1. /\ UNCHANGED <<host, jobs>> /\ op'.step \in FirstSteps
      /\ hit' = (IF jobs = {} /\ watch.state = "none" THEN {} ELSE {<<"idle", "foreign">>})
      /\ call'.drives = {at \in Addrs : host[Drive(at)] # Absent}
  BY CallersBegin
<1>2. op'.step \in DiskSteps \cup {"returned"}
  BY DEF Typed, KindInv, Fits
<1>3. op'.step \in Before /\ op'.step \notin Within \cup {"returned"}
  BY <1>1, <1>2 DEF FirstSteps, DiskSteps, Before, Within
<1>4. hit' \subseteq Undoable => hit' = {}
  BY <1>1, UndoableAre
<1>5. Clean' => hit' = {}
  BY <1>1 DEF Clean, Marks
<1>6. hit' = {} => jobs' = {}
  BY <1>1
<1>7. Taken' = call'.drives
  BY <1>1 DEF Taken
<1>8. Clean' => Linking'
  BY <1>3, <1>5, <1>6 DEF Linking, Returned
<1>9. hit' \subseteq Undoable => Undoing'
  BY <1>3, <1>4, <1>6, <1>7 DEF Undoing, Returned
<1> QED
  BY <1>8, <1>9 DEF AttachInv, Undoable

\* Only returning forgets the edit and its marks.
LEMMA CallKept == Step => (UNCHANGED call /\ hit \subseteq hit') \/ Return
<1>0. \A r, good, bad : Invoke(r, good, bad) => UNCHANGED call /\ hit \subseteq hit'
  BY DEF Invoke, WaitForJob, Note
<1>1. Resolve => UNCHANGED call /\ hit \subseteq hit'
  BY <1>0 DEF Resolve, Quiet
<1>2. AddDiskDrive => UNCHANGED call /\ hit \subseteq hit'
  BY <1>0 DEF AddDiskDrive, Quiet
<1>3. AddDvdDrive => UNCHANGED call /\ hit \subseteq hit'
  BY <1>0 DEF AddDvdDrive, Quiet
<1>4. AttachPhysicalDisk => UNCHANGED call /\ hit \subseteq hit'
  BY <1>0 DEF AttachPhysicalDisk, Quiet
<1>5. FindDrive => UNCHANGED call /\ hit \subseteq hit'
  BY <1>0 DEF FindDrive, Quiet
<1>6. AddVhd => UNCHANGED call /\ hit \subseteq hit'
  BY <1>0 DEF AddVhd, Quiet
<1>7. PollLink => UNCHANGED call /\ hit \subseteq hit'
  BY <1>0 DEF PollLink, Quiet
<1>8. Rollback => UNCHANGED call /\ hit \subseteq hit'
  BY <1>0 DEF Rollback, Quiet
<1>9. CreateFile => UNCHANGED call /\ hit \subseteq hit'
  BY <1>0 DEF CreateFile, Quiet
<1>10. SetDvdMedia => UNCHANGED call /\ hit \subseteq hit'
  BY <1>0 DEF SetDvdMedia, Quiet
<1>11. RemoveMedium => UNCHANGED call /\ hit \subseteq hit'
  BY <1>0 DEF RemoveMedium, Quiet
<1>12. RemoveDrive => UNCHANGED call /\ hit \subseteq hit'
  BY <1>0 DEF RemoveDrive, Quiet
<1>13. AddScsiController => UNCHANGED call /\ hit \subseteq hit'
  BY <1>0 DEF AddScsiController, Quiet
<1>14. RemoveScsiController => UNCHANGED call /\ hit \subseteq hit'
  BY <1>0 DEF RemoveScsiController, Quiet
<1>15. AddPort => UNCHANGED call /\ hit \subseteq hit'
  BY <1>0 DEF AddPort, Quiet
<1>16. FindPort => UNCHANGED call /\ hit \subseteq hit'
  BY <1>0 DEF FindPort, Quiet
<1>17. AddConnection => UNCHANGED call /\ hit \subseteq hit'
  BY <1>0 DEF AddConnection, Quiet
<1>18. RemoveConnection => UNCHANGED call /\ hit \subseteq hit'
  BY <1>0 DEF RemoveConnection, Quiet
<1>19. RemovePort => UNCHANGED call /\ hit \subseteq hit'
  BY <1>0 DEF RemovePort, Quiet
<1>20. SetNetworkAdapterSwitch => UNCHANGED call /\ hit \subseteq hit'
  BY <1>0 DEF SetNetworkAdapterSwitch, Quiet, ModifyOne
<1>21. SetNetworkAdapterPort => UNCHANGED call /\ hit \subseteq hit'
  BY <1>0 DEF SetNetworkAdapterPort, Quiet, ModifyOne
<1>22. SetMemoryConfig => UNCHANGED call /\ hit \subseteq hit'
  BY <1>0 DEF SetMemoryConfig, Quiet, ModifyOne
<1>23. SetProcessorConfig => UNCHANGED call /\ hit \subseteq hit'
  BY <1>0 DEF SetProcessorConfig, Quiet, ModifyOne
<1>24. SetNetworkAdapterAdvanced => UNCHANGED call /\ hit \subseteq hit'
  BY <1>0 DEF SetNetworkAdapterAdvanced, Quiet, ModifyOrAdd
<1>25. SetNetworkAdapterBandwidth => UNCHANGED call /\ hit \subseteq hit'
  BY <1>0 DEF SetNetworkAdapterBandwidth, Quiet, ModifyOrAdd
<1>26. SetNetworkAdapterOffload => UNCHANGED call /\ hit \subseteq hit'
  BY <1>0 DEF SetNetworkAdapterOffload, Quiet, ModifyOrAdd
<1>27. SetNetworkAdapterVlan => UNCHANGED call /\ hit \subseteq hit'
  BY <1>0 DEF SetNetworkAdapterVlan, Quiet, ModifyOrAdd
<1>28. EnsureKeyProtector => UNCHANGED call /\ hit \subseteq hit'
  BY <1>0 DEF EnsureKeyProtector, Quiet
<1>29. SetVmTpm => UNCHANGED call /\ hit \subseteq hit'
  BY <1>0 DEF SetVmTpm, Quiet, ModifySecuritySettings
<1>30. SetVmStateEncryption => UNCHANGED call /\ hit \subseteq hit'
  BY <1>0 DEF SetVmStateEncryption, Quiet, ModifySecuritySettings
<1>31. SetVmShielded => UNCHANGED call /\ hit \subseteq hit'
  BY <1>0 DEF SetVmShielded, Quiet, ModifySecuritySettings
<1>32. DefineSystem => UNCHANGED call /\ hit \subseteq hit'
  BY <1>0 DEF DefineSystem, Quiet
<1>33. MountFirst => UNCHANGED call /\ hit \subseteq hit'
  BY <1>0 DEF MountFirst, Quiet
<1>34. PromoteDvdToBootFront => UNCHANGED call /\ hit \subseteq hit'
  BY <1>0 DEF PromoteDvdToBootFront, Quiet
<1>35. DestroyVM => UNCHANGED call /\ hit \subseteq hit'
  BY <1>0 DEF DestroyVM, Quiet, Note
<1> QED
  BY <1>1, <1>2, <1>3, <1>4, <1>5, <1>6, <1>7, <1>8, <1>9, <1>10, <1>11, <1>12, <1>13, <1>14, <1>15, <1>16, <1>17, <1>18, <1>19, <1>20, <1>21, <1>22, <1>23, <1>24, <1>25, <1>26, <1>27, <1>28, <1>29, <1>30, <1>31, <1>32, <1>33, <1>34, <1>35 DEF Step

\* What an edit of another kind, or no edit at all, does not do.
LEMMA AttachStep == Typed /\ Typed' /\ AttachInv /\ [Next]_vars => AttachInv'
<1> SUFFICES ASSUME Typed, Typed', AttachInv, [Next]_vars, call'.kind \in Attaches
             PROVE  AttachInv'
  BY DEF AttachInv
<1>1. CASE Callers
  BY <1>1, CallersAttach
<1>2. CASE UNCHANGED vars
  BY <1>2 DEF vars, AttachInv, Clean, Marks, Undoable, Linking, Undoing, Returned, Taken, FileJob, DriveJob,
              MediumJob, UndoJob
<1>3. CASE Step
  <2>1. call'.kind = call.kind
    <3>1. ~Return
      BY DEF Return, NoCall, Attaches
    <3> QED
      BY <1>3, <3>1, CallKept
  <2>2. op.step \in DiskSteps \cup {"returned"} /\ op.what \in Vhds
    BY <2>1, AttachIs
  <2>3. CreateFile \/ AddDiskDrive \/ AddVhd \/ Rollback \/ Resolve \/ FindDrive \/ PollLink
    <3>1. ~Return
      BY DEF Return, NoCall, Attaches
    <3>2. ~AddDvdDrive /\ ~AttachPhysicalDisk
      BY <2>2, BoundsAssumption DEF AddDvdDrive, AttachPhysicalDisk
    <3> QED
      BY <1>3, <2>2, <3>1, <3>2, StepAt DEF Step, DiskSteps
  <2> QED
    BY <2>1, <2>3, CreateFileAttach, AddDriveAttach, AddVhdAttach, RollbackAttach, LooksAttach
<1>4. CASE JobEnds
  <2>1. call' = call
    BY <1>4 DEF JobEnds
  <2> QED
    BY <1>4, <2>1, JobEndAttach
<1>5. CASE DestroyEnds \/ DeleteVhdFilesBestEffort
  <2>1. UNCHANGED <<jobs, call, op, hit>> /\ watch.state # "none"
    BY <1>5 DEF DestroyEnds, DeleteVhdFilesBestEffort
  <2>2. ~Clean /\ ~(hit \subseteq Undoable)
    BY <2>1, AttachIs
  <2> QED
    BY <2>1, <2>2 DEF AttachInv, Clean, Marks, Undoable
<1>6. CASE Foreign
  <2>1. UNCHANGED call /\ Note("foreign")
    BY <1>6 DEF Foreign
  <2>2. ~Clean'
    BY <2>1, MarksOf DEF Clean
  <2>3. ~(hit' \subseteq Undoable')
    BY <2>2 DEF Undoable, Clean, Marks
  <2> QED
    BY <2>2, <2>3 DEF AttachInv
<1> QED
  BY <1>1, <1>2, <1>3, <1>4, <1>5, <1>6 DEF Next, Callers

LEMMA AttachInit == Init => AttachInv
<1> SUFFICES ASSUME Init PROVE AttachInv
  OBVIOUS
<1>1. call = NoCall
  BY Zenon DEF Init
<1> QED
  BY <1>1 DEF AttachInv, NoCall, Attaches

LEMMA AttachKept == Typed /\ AttachInv => AttachIsAllOrNothing
<1> SUFFICES ASSUME Typed, AttachInv, Returned, call.kind \in Attaches
             PROVE  /\ op.ok /\ "foreign" \notin Marks => Holds
                    /\ ~op.ok /\ hit \subseteq Undoable => Taken \subseteq call.drives
  BY DEF AttachIsAllOrNothing, Attaches, Undoable, Taken
<1>1. ASSUME op.ok, "foreign" \notin Marks
      PROVE  Holds
  <2>1. host[Medium(op.at)] = op.what
    BY <1>1 DEF AttachInv, Clean, Linking
  <2>2. call.goal = One(Medium(op.at), op.what)
    BY AttachIs
  <2> QED
    BY <2>1, <2>2 DEF Holds, One
<1>2. ASSUME ~op.ok, hit \subseteq Undoable
      PROVE  Taken \subseteq call.drives
  BY <1>2 DEF AttachInv, Undoing
<1> QED
  BY <1>1, <1>2

\* Attaching a disk reports success only with the disk in its drive, and takes
\* back the drive it made when Hyper-V refuses the disk or it does not come up:
\* for every edit of any number, whatever jobs earlier ones left, and any fault
\* between the steps.
THEOREM AttachesAllOrNothing == Spec => []AttachIsAllOrNothing
<1>1. Init => Typed /\ AttachInv
  BY TypedInit, AttachInit
<1>2. Typed /\ AttachInv /\ [Next]_vars => (Typed /\ AttachInv)'
  BY TypedStep, AttachStep
<1> QED
  BY <1>1, <1>2, AttachKept, PTL DEF Spec

----------------------------------------------------------------------------
(* Edits that report success have been applied.                            *)

\* A machine being made is there from the first step after its definition; a
\* security setting is turned on with a key protector there.
Making ==
  /\ call.kind = "create" /\ Prompt /\ op.step # "define" /\ ~(Returned /\ ~op.ok) =>
       host[VM] = "present"
  /\ call.kind \in Secrets /\ Prompt /\ op.step = "secure" /\ op.what = "on" =>
       host[Protector] # Absent

\* What the edits of a single call, or the last call of others, come to.
LEMMA CallsAsk ==
  ASSUME Typed, call.kind # "create"
  PROVE  /\ AddDvdDrive => /\ op.what = "dvd"
                           /\ Asked(Add(Drive(op.at), "dvd"), "returned", TRUE, "returned", FALSE)
         /\ AttachPhysicalDisk => /\ op.what \in Raw
                                  /\ Asked(Add(Drive(op.at), op.what), "returned", TRUE, "returned", FALSE)
         /\ RemoveDrive => Asked(Remove(Drive(op.at)), "returned", op.ok, "returned", FALSE)
         /\ AddScsiController => Asked(Add(op.thing, "present"), "returned", TRUE, "returned", FALSE)
         /\ RemoveScsiController => Asked(Remove(op.thing), "returned", TRUE, "returned", FALSE)
         /\ AddConnection => Asked(Add(Connection(Nic), op.what), "returned", TRUE, "returned", FALSE)
         /\ RemovePort => Asked(Remove(Port(Nic)), "returned", op.ok, "returned", FALSE)
         /\ \A t : ModifyOne(t) => /\ op.thing = t
                                   /\ Asked(Modify(t, op.what), "returned", TRUE, "returned", FALSE)
         /\ \A s : ModifySecuritySettings(s) =>
              /\ op.thing = Security(s)
              /\ Asked(Request("modify", SecuritySet(op.thing, op.what)), "returned", TRUE, "returned", FALSE)
<1>1. Note("started") => hit' = hit \cup {<<op.step, "started">>}
  BY DEF Note
<1>2. Note("refused") => hit' = hit \cup {<<op.step, "refused">>}
  BY DEF Note
<1>3. Note("failed") => hit' = hit \cup {<<op.step, "failed">>}
  BY DEF Note
<1>4. Note("threw") => hit' = hit \cup {<<op.step, "threw">>}
  BY DEF Note
<1> USE <1>1, <1>2, <1>3, <1>4, Goes DEF Invoke, WaitForJob, Asked
<1>5. AddDvdDrive => /\ op.what = "dvd"
                     /\ Asked(Add(Drive(op.at), "dvd"), "returned", TRUE, "returned", FALSE)
  BY DEF AddDvdDrive
<1>6. AttachPhysicalDisk => /\ op.what \in Raw
                            /\ Asked(Add(Drive(op.at), op.what), "returned", TRUE, "returned", FALSE)
  BY DEF AttachPhysicalDisk
<1>7. RemoveDrive => Asked(Remove(Drive(op.at)), "returned", op.ok, "returned", FALSE)
  BY DEF RemoveDrive
<1>8. AddScsiController => Asked(Add(op.thing, "present"), "returned", TRUE, "returned", FALSE)
  BY DEF AddScsiController
<1>9. RemoveScsiController => Asked(Remove(op.thing), "returned", TRUE, "returned", FALSE)
  BY DEF RemoveScsiController
<1>10. AddConnection => Asked(Add(Connection(Nic), op.what), "returned", TRUE, "returned", FALSE)
  BY DEF AddConnection
<1>11. RemovePort => Asked(Remove(Port(Nic)), "returned", op.ok, "returned", FALSE)
  BY DEF RemovePort
<1>12. ASSUME NEW t, ModifyOne(t)
       PROVE  op.thing = t /\ Asked(Modify(t, op.what), "returned", TRUE, "returned", FALSE)
  BY <1>12 DEF ModifyOne
<1>13. ASSUME NEW s, ModifySecuritySettings(s)
       PROVE  /\ op.thing = Security(s)
              /\ Asked(Request("modify", SecuritySet(op.thing, op.what)), "returned", TRUE, "returned", FALSE)
  BY <1>13 DEF ModifySecuritySettings
<1> QED
  BY <1>5, <1>6, <1>7, <1>8, <1>9, <1>10, <1>11, <1>12, <1>13

\* The media of a DVD drive, and the features of an adapter.
LEMMA ThingsAsk ==
  ASSUME Typed, call.kind # "create"
  PROVE  /\ SetDvdMedia =>
              \/ \E verb : Asked(Request(verb, One(Medium(op.at), op.what)), "returned", TRUE, "returned", FALSE)
              \/ op.thing # Medium(op.at) /\ op.what = Absent
         /\ \A f : ModifyOrAdd(f) =>
              \E verb : Asked(Request(verb, One(op.thing, op.what)), "returned", TRUE, "returned", FALSE)
         /\ SetNetworkAdapterVlan =>
              \/ \E verb : Asked(Request(verb, One(op.thing, op.what)), "returned", TRUE, "returned", FALSE)
              \/ op.what = Absent /\ host[op.thing] = Absent /\ Looked("returned", TRUE)
<1>1. Note("started") => hit' = hit \cup {<<op.step, "started">>}
  BY DEF Note
<1>2. Note("refused") => hit' = hit \cup {<<op.step, "refused">>}
  BY DEF Note
<1>3. Note("failed") => hit' = hit \cup {<<op.step, "failed">>}
  BY DEF Note
<1>4. Note("threw") => hit' = hit \cup {<<op.step, "threw">>}
  BY DEF Note
<1>5. ASSUME NEW r, Invoke(r, Finish(TRUE), Finish(FALSE))
      PROVE  Asked(r, "returned", TRUE, "returned", FALSE)
  BY <1>1, <1>2, <1>3, <1>4, <1>5, Goes DEF Invoke, WaitForJob, Asked
<1>6. ASSUME SetDvdMedia, ~(op.thing # Medium(op.at) /\ op.what = Absent)
      PROVE  \E verb : Asked(Request(verb, One(Medium(op.at), op.what)), "returned", TRUE, "returned", FALSE)
  <2>1. \/ op.what = Absent /\ Invoke(Remove(Medium(op.at)), Finish(TRUE), Finish(FALSE))
        \/ Invoke(Modify(Medium(op.at), op.what), Finish(TRUE), Finish(FALSE))
        \/ Invoke(Add(Medium(op.at), op.what), Finish(TRUE), Finish(FALSE))
    BY <1>6 DEF SetDvdMedia
  <2>2. \/ op.what = Absent /\ Asked(Remove(Medium(op.at)), "returned", TRUE, "returned", FALSE)
        \/ Asked(Modify(Medium(op.at), op.what), "returned", TRUE, "returned", FALSE)
        \/ Asked(Add(Medium(op.at), op.what), "returned", TRUE, "returned", FALSE)
    BY <1>5, <2>1
  <2> QED
    BY <2>2 DEF Remove, Modify, Add
<1>7. ASSUME NEW f, ModifyOrAdd(f)
      PROVE  \E verb : Asked(Request(verb, One(op.thing, op.what)), "returned", TRUE, "returned", FALSE)
  <2>1. \E verb : Invoke(Request(verb, One(op.thing, op.what)), Finish(TRUE), Finish(FALSE))
    BY <1>7 DEF ModifyOrAdd
  <2> QED
    BY <1>5, <2>1
<1>8. ASSUME SetNetworkAdapterVlan
      PROVE  \/ \E verb : Asked(Request(verb, One(op.thing, op.what)), "returned", TRUE, "returned", FALSE)
             \/ op.what = Absent /\ host[op.thing] = Absent /\ Looked("returned", TRUE)
  <2>1. \/ ModifyOrAdd("vlan")
        \/ op.what = Absent /\ host[op.thing] = Absent /\ Quiet /\ Finish(TRUE)
        \/ op.what = Absent /\ Invoke(Remove(op.thing), Finish(TRUE), Finish(FALSE))
    BY <1>8 DEF SetNetworkAdapterVlan
  <2>2. CASE op.what = Absent /\ host[op.thing] = Absent /\ Quiet /\ Finish(TRUE)
    BY <2>2, Goes DEF Quiet, Looked
  <2>3. CASE op.what = Absent /\ Invoke(Remove(op.thing), Finish(TRUE), Finish(FALSE))
    <3>1. Asked(Remove(op.thing), "returned", TRUE, "returned", FALSE)
      BY <1>5, <2>3
    <3> QED
      BY <2>3, <3>1 DEF Remove
  <2> QED
    BY <1>7, <2>1, <2>2, <2>3
<1> QED
  BY <1>6, <1>7, <1>8

\* Steps that end the edit only to give it up.
LEMMA GivenUp ==
  ASSUME Typed, call.kind # "create", op.at \in Addrs \/ ~Resolve,
         Resolve \/ RemoveMedium \/ AddPort \/ FindPort \/ RemoveConnection \/ EnsureKeyProtector,
         op'.step = "returned"
  PROVE  ~op'.ok
<1>1. CASE Resolve
  BY <1>1, DiskLooks DEF Looked, To
<1>2. CASE RemoveMedium
  <2>1. To("removeDrive", op.ok) \/ To("removeDrive", FALSE) \/ To("returned", FALSE)
    BY <1>2, Goes DEF RemoveMedium, Invoke, WaitForJob
  <2> QED
    BY <2>1 DEF To
<1>3. CASE AddPort
  <2>1. To("findPort", op.ok) \/ To("returned", FALSE)
    BY <1>3, Goes DEF AddPort, Invoke, WaitForJob
  <2> QED
    BY <2>1 DEF To
<1>4. CASE FindPort
  <2>1. To("addConnection", op.ok) \/ To("returned", FALSE)
    BY <1>4, Goes DEF FindPort
  <2> QED
    BY <2>1 DEF To
<1>5. CASE RemoveConnection
  <2>1. To("removePort", op.ok) \/ To("removePort", FALSE) \/ To("returned", FALSE)
    BY <1>5, Goes DEF RemoveConnection, Invoke, WaitForJob
  <2> QED
    BY <2>1 DEF To
<1>6. CASE EnsureKeyProtector
  <2>1. To("secure", op.ok) \/ To("returned", FALSE)
    BY <1>6, Goes DEF EnsureKeyProtector, Invoke, WaitForJob
  <2> QED
    BY <2>1 DEF To
<1> QED
  BY <1>1, <1>2, <1>3, <1>4, <1>5, <1>6

\* A last call that was answered at once did what it was to do.
LEMMA AskedAtOnce ==
  ASSUME NEW r, NEW good, Asked(r, "returned", good, "returned", FALSE), op'.ok, Prompt'
  PROVE  Accepts(host, r) /\ host' = Applied(host, r)
<1>1. "started" \notin Marks'
  BY DEF Prompt
<1>2. hit' # hit \cup {<<op.step, "started">>}
  <2> SUFFICES ASSUME hit' = hit \cup {<<op.step, "started">>} PROVE "started" \in Marks'
    BY <1>1
  <2> DEFINE m == <<op.step, "started">>
  <2>1. m \in hit' /\ m[2] = "started"
    OBVIOUS
  <2> HIDE DEF m
  <2> QED
    BY <2>1 DEF Marks
<1> QED
  BY <1>2 DEF Asked, To

LEMMA AskedApplied ==
  ASSUME Typed, NEW r, NEW good, Asked(r, "returned", good, "returned", FALSE), op'.ok, Prompt',
         NEW t \in Things, NEW v, t[1] # "security", r.set = One(t, v), call.goal = One(t, v), UNCHANGED call
  PROVE  Holds'
<1>1. Accepts(host, r) /\ host' = Applied(host, r)
  BY AskedAtOnce
<1>2. t \notin SecurityThings
  BY Parts DEF SecurityThings
<1>3. host'[t] = v
  BY <1>1, <1>2, OneApplied DEF Typed
<1> QED
  BY <1>3 DEF Holds, One

\* The same of a change of security settings.
LEMMA SecurityApplied ==
  ASSUME Typed, Making, call.kind \in Secrets, NEW s, ModifySecuritySettings(s), op'.ok, Prompt', Prompt, UNCHANGED call
  PROVE  Holds'
<1> DEFINE r == Request("modify", SecuritySet(op.thing, op.what))
           set == SecuritySet(op.thing, op.what)
<1>1. op.step = "secure" /\ op.thing \in SecurityThings /\ op.what \in {"on", "off"} /\ call.goal = set
  <2>1. op.step = "secure"
    BY DEF ModifySecuritySettings, At
  <2>2. StepNames(op) /\ Aims(call.kind, op, call.goal)
    BY OpTypes DEF Typed, KindInv
  <2> QED
    BY <2>1, <2>2 DEF StepNames, Aims
<1>2. call.kind # "create"
  BY DEF Secrets
<1>3. Accepts(host, r) /\ host' = Applied(host, r)
  BY <1>2, CallsAsk, AskedAtOnce
<1>4. r.set = set /\ r.verb = "modify"
  BY DEF Request
<1>5. DOMAIN set \subseteq SecurityThings /\ op.thing \in DOMAIN set /\ \A u \in DOMAIN set : set[u] = op.what
  BY <1>1, SecuritySetIs
<1> HIDE DEF r, set
<1>6. \A u \in DOMAIN set : host[u] # Absent
  BY <1>3, <1>4 DEF Accepts
<1>7. SecurityThings \subseteq Things
  BY ThingsAre
<1>8. CASE host[Protector] = Absent
  <2>1. host' = host
    BY <1>3, <1>4, <1>5, <1>8, AppliedIs DEF Ignored
  <2>2. op.what = "off"
    BY <1>1, <1>8 DEF Making
  <2>3. \A u \in SecurityThings : host[u] \in {Absent, "off"}
    BY <1>8 DEF Typed, Bare, SecurityThings
  <2>4. \A u \in DOMAIN set : host'[u] = set[u]
    BY <1>5, <1>6, <2>1, <2>2, <2>3
  <2> QED
    BY <1>1, <2>4 DEF Holds
<1>9. CASE host[Protector] # Absent
  <2>1. host' = Pruned(Laid(host, r))
    BY <1>3, <1>9, AppliedIs DEF Ignored
  <2>2. ASSUME NEW u \in DOMAIN set PROVE host'[u] = set[u]
    <3>1. u \in Things /\ Ancestors[u] = {VM} /\ VM \in Things
      BY <1>5, <1>7, TopAncestors, ThingsAre
    <3>2. VM \notin DOMAIN set
      <4>1. \A x \in SecurityThings : x[1] = "security"
        BY Parts DEF SecurityThings
      <4> QED
        BY <1>5, <4>1 DEF VM
    <3>3. host[VM] # Absent
      BY <1>6, <3>1 DEF Typed, Tree
    <3>4. Laid(host, r)[VM] = host[VM] /\ Laid(host, r)[u] = set[u]
      BY <1>4, <3>1, <3>2 DEF Laid
    <3> QED
      BY <2>1, <3>1, <3>3, <3>4, PrunedKeeps
  <2> QED
    BY <1>1, <2>2 DEF Holds
<1> QED
  BY <1>8, <1>9

Applies == Returned /\ op.ok /\ Prompt /\ call.kind \notin Attaches => Holds

LEMMA ReturnsApplied ==
  ASSUME Typed, Making, Step, UNCHANGED call, call.kind \notin Attaches \cup {"create", "none"},
         op'.step = "returned", op'.ok, Prompt', Prompt
  PROVE  Holds'
<1>1. /\ Fits(call.kind, op.step) /\ Names(call.kind, op) /\ Aims(call.kind, op, call.goal)
      /\ call.kind \in AllKinds /\ StepNames(op) /\ op.thing \in Things /\ ~Return
  <2>1. ~Return
    BY DEF Return, NoOp, Op
  <2>2. op.step # "returned"
    BY <2>1, StepAt DEF Step, At
  <2> QED
    BY <2>1, <2>2, OpTypes DEF Typed, KindInv, Types
<1>k. call.kind # "create" /\ call.kind # "none" /\ call.kind \notin Attaches
  OBVIOUS
<1>2. CASE call.kind \in {"physical", "addDvd"}
  <2>1. /\ op.at \in Addrs /\ op.what \in Raw \cup {"dvd"} /\ op.step \in {"resolve", "addDrive"}
        /\ call.goal = One(Drive(op.at), op.what)
    BY <1>1, <1>2 DEF Names, Aims, Fits
  <2>2. ~Resolve /\ ~AddDiskDrive
    BY <1>k, <2>1, GivenUp, BoundsAssumption DEF AddDiskDrive
  <2>3. AddDvdDrive \/ AttachPhysicalDisk
    BY <1>1, <2>1, <2>2, StepAt DEF Step
  <2>4. Asked(Add(Drive(op.at), op.what), "returned", TRUE, "returned", FALSE)
    BY <1>k, <2>3, CallsAsk
  <2>5. Drive(op.at) \in Things /\ Drive(op.at)[1] # "security"
    BY <2>1, ThingsAre, Parts
  <2>6. Add(Drive(op.at), op.what).set = One(Drive(op.at), op.what)
    BY DEF Add, Request
  <2> QED
    BY <2>1, <2>4, <2>5, <2>6, AskedApplied
<1>3. CASE call.kind = "media"
  <2>1. /\ op.at \in Addrs /\ op.step = "media" /\ call.goal = One(Medium(op.at), op.what)
        /\ op.what = Absent => op.thing = Medium(op.at)
    BY <1>1, <1>3 DEF Names, Aims, Fits
  <2>2. SetDvdMedia
    BY <1>1, <2>1, StepAt DEF Step
  <2>3. PICK verb : Asked(Request(verb, One(Medium(op.at), op.what)), "returned", TRUE, "returned", FALSE)
    BY <1>k, <2>1, <2>2, ThingsAsk
  <2>4. Medium(op.at) \in Things /\ Medium(op.at)[1] # "security"
    BY <2>1, ThingsAre, Parts
  <2>5. Request(verb, One(Medium(op.at), op.what)).set = One(Medium(op.at), op.what)
    BY DEF Request
  <2> QED
    BY <2>1, <2>3, <2>4, <2>5, AskedApplied
<1>4. CASE call.kind \in {"detach", "removeDvd"}
  <2>1. /\ op.at \in Addrs /\ op.what = Absent /\ op.step \in {"removeMedium", "removeDrive"}
        /\ call.goal = One(Drive(op.at), op.what)
    BY <1>1, <1>4 DEF Names, Aims, Fits
  <2>2. ~RemoveMedium
    BY <1>k, <2>1, GivenUp
  <2>3. RemoveDrive
    BY <1>1, <2>1, <2>2, StepAt DEF Step
  <2>4. Asked(Remove(Drive(op.at)), "returned", op.ok, "returned", FALSE)
    BY <1>k, <2>3, CallsAsk
  <2>5. Drive(op.at) \in Things /\ Drive(op.at)[1] # "security"
    BY <2>1, ThingsAre, Parts
  <2>6. Remove(Drive(op.at)).set = One(Drive(op.at), op.what)
    BY <2>1 DEF Remove, Request
  <2> QED
    BY <2>1, <2>4, <2>5, <2>6, AskedApplied
<1>5. CASE call.kind \in {"addScsi", "removeScsi"}
  <2>1. PICK c \in Scsi : op.thing = Ctrl(c)
    BY <1>1, <1>5 DEF Names
  <2>2. op.thing[1] # "security"
    BY <2>1 DEF Ctrl
  <2>3. call.goal = One(op.thing, op.what)
    BY <1>1, <1>5 DEF Aims
  <2>4. PICK r : Asked(r, "returned", TRUE, "returned", FALSE) /\ r.set = One(op.thing, op.what)
    <3>1. CASE call.kind = "addScsi"
      <4>1. op.step = "addCtrl" /\ op.what = "present"
        BY <1>1, <3>1 DEF Fits, Names
      <4>2. AddScsiController
        BY <1>1, <4>1, StepAt DEF Step
      <4> QED
        <5>1. Asked(Add(op.thing, "present"), "returned", TRUE, "returned", FALSE)
          BY <1>k, <4>2, CallsAsk
        <5>2. Add(op.thing, "present").set = One(op.thing, op.what)
          BY <4>1 DEF Add, Request
        <5> QED
          BY <5>1, <5>2
    <3>2. CASE call.kind = "removeScsi"
      <4>1. op.step = "removeCtrl" /\ op.what = Absent
        BY <1>1, <3>2 DEF Fits, Names
      <4>2. RemoveScsiController
        BY <1>1, <4>1, StepAt DEF Step
      <4> QED
        <5>1. Asked(Remove(op.thing), "returned", TRUE, "returned", FALSE)
          BY <1>k, <4>2, CallsAsk
        <5>2. Remove(op.thing).set = One(op.thing, op.what)
          BY <4>1 DEF Remove, Request
        <5> QED
          BY <5>1, <5>2
    <3> QED
      BY <1>5, <3>1, <3>2
  <2> QED
    BY <1>1, <2>2, <2>3, <2>4, AskedApplied
<1>6. CASE call.kind = "addNic"
  <2>1. op.step \in NicSteps /\ call.goal = One(Connection(Nic), op.what)
    BY <1>1, <1>6 DEF Fits, Aims, Nic
  <2>2. Connection(Nic) \in Things /\ Connection(Nic)[1] # "security"
    BY <1>1, <2>1, NicIs
  <2>3. ~AddPort /\ ~FindPort /\ ~Resolve
    BY <1>k, <2>1, GivenUp, StepAt DEF NicSteps
  <2>4. AddConnection
    BY <1>1, <2>1, <2>3, StepAt DEF Step, NicSteps
  <2>5. Asked(Add(Connection(Nic), op.what), "returned", TRUE, "returned", FALSE)
    BY <1>k, <2>4, CallsAsk
  <2>6. Add(Connection(Nic), op.what).set = One(Connection(Nic), op.what)
    BY DEF Add, Request
  <2> QED
    BY <2>1, <2>2, <2>5, <2>6, AskedApplied
<1>7. CASE call.kind = "removeNic"
  <2>1. /\ op.step \in {"removeConnection", "removePort"} /\ op.what = Absent
        /\ call.goal = One(op.thing, op.what)
    BY <1>1, <1>7 DEF Fits, Aims, Names
  <2>2. op.thing = Port(Nic) /\ Port(Nic) \in Things /\ Port(Nic)[1] # "security"
    BY <1>1, <2>1, NicIs
  <2>3. ~RemoveConnection
    BY <1>k, <2>1, GivenUp, StepAt
  <2>4. RemovePort
    BY <1>1, <2>1, <2>3, StepAt DEF Step
  <2>5. Asked(Remove(Port(Nic)), "returned", op.ok, "returned", FALSE)
    BY <1>k, <2>4, CallsAsk
  <2>6. Remove(Port(Nic)).set = One(Port(Nic), Absent)
    BY DEF Remove, Request
  <2> QED
    BY <2>1, <2>2, <2>5, <2>6, AskedApplied
<1>8. CASE call.kind \in {"switch", "port"}
  <2>1. op.step = "modify" /\ call.goal = One(op.thing, op.what)
    BY <1>1, <1>8 DEF Fits, Aims
  <2>2. op.thing[1] # "security"
    BY <1>1, <1>8, Parts DEF Names
  <2>3. SetNetworkAdapterSwitch \/ SetNetworkAdapterPort \/ SetMemoryConfig \/ SetProcessorConfig
    BY <1>1, <2>1, StepAt DEF Step
  <2>4. PICK t : ModifyOne(t)
    BY <2>3 DEF SetNetworkAdapterSwitch, SetNetworkAdapterPort, SetMemoryConfig, SetProcessorConfig
  <2>5. op.thing = t /\ Asked(Modify(t, op.what), "returned", TRUE, "returned", FALSE)
    BY <1>k, <2>4, CallsAsk
  <2>6. Modify(t, op.what).set = One(t, op.what)
    BY DEF Modify, Request
  <2> QED
    BY <1>1, <2>1, <2>2, <2>5, <2>6, AskedApplied
<1>9. CASE call.kind = "feature"
  <2>1. op.step = "feature" /\ call.goal = One(op.thing, op.what)
    BY <1>1, <1>9 DEF Fits, Aims
  <2>2. op.thing[1] # "security"
    BY <1>1, <1>9 DEF Names, Feature
  <2>3. \/ SetNetworkAdapterAdvanced \/ SetNetworkAdapterBandwidth \/ SetNetworkAdapterOffload
        \/ SetNetworkAdapterVlan
    BY <1>1, <2>1, StepAt DEF Step
  <2>4. \/ \E verb : Asked(Request(verb, One(op.thing, op.what)), "returned", TRUE, "returned", FALSE)
        \/ op.what = Absent /\ host[op.thing] = Absent /\ Looked("returned", TRUE)
    BY <1>k, <2>3, ThingsAsk
       DEF SetNetworkAdapterAdvanced, SetNetworkAdapterBandwidth, SetNetworkAdapterOffload
  <2>5. CASE op.what = Absent /\ host[op.thing] = Absent /\ Looked("returned", TRUE)
    BY <2>1, <2>5 DEF Holds, Looked, One
  <2>6. ASSUME NEW verb, Asked(Request(verb, One(op.thing, op.what)), "returned", TRUE, "returned", FALSE)
        PROVE  Holds'
    <3>1. Request(verb, One(op.thing, op.what)).set = One(op.thing, op.what)
      BY DEF Request
    <3> QED
      BY <1>1, <2>1, <2>2, <2>6, <3>1, AskedApplied
  <2> QED
    BY <2>4, <2>5, <2>6
<1>10. CASE call.kind \in Secrets
  <2>1. op.step \in {"protect", "secure"}
    BY <1>1, <1>10 DEF Fits
  <2>2. ~EnsureKeyProtector
    BY <1>k, <2>1, GivenUp, StepAt
  <2>3. SetVmTpm \/ SetVmStateEncryption \/ SetVmShielded
    BY <1>1, <2>1, <2>2, StepAt DEF Step
  <2>4. PICK s : ModifySecuritySettings(s)
    BY <2>3 DEF SetVmTpm, SetVmStateEncryption, SetVmShielded
  <2> QED
    BY <1>10, <2>4, SecurityApplied
<1>11. CASE call.kind = "destroy"
  BY <1>1, <1>11 DEF Aims, Holds
<1> QED
  BY <1>1, <1>k, <1>2, <1>3, <1>4, <1>5, <1>6, <1>7, <1>8, <1>9, <1>10, <1>11 DEF AllKinds, Attaches, Secrets

\* A request for anything but the machine leaves the machine.
LEMMA MachineKept ==
  ASSUME NEW h, NEW r, VM \notin DOMAIN r.set
  PROVE  Applied(h, r)[VM] = h[VM]
<1>1. VM \in Things /\ Ancestors[VM] = {VM}
  BY ThingsAre, TopAncestors
<1>2. Laid(h, r)[VM] = h[VM]
  BY <1>1 DEF Laid
<1>3. Pruned(Laid(h, r))[VM] = h[VM]
  BY <1>1, <1>2, PrunedKeeps
<1> QED
  BY <1>3, AppliedIs

\* What a call asks for that is not the machine.
Parted(r) == VM \notin DOMAIN r.set

LEMMA PartedAre ==
  /\ \A t, v : t[1] # "vm" => Parted(Add(t, v)) /\ Parted(Modify(t, v)) /\ Parted(Remove(t))
  /\ \A t, v, verb : t[1] # "vm" => Parted(Request(verb, One(t, v)))
BY DEF Parted, Add, Modify, Remove, Request, One, VM

\* Once it is defined, no step of a creation touches the machine itself.
LEMMA CreationKeepsMachine ==
  ASSUME Typed, Step, call.kind = "create", op.step \notin {"define", "returned"}
  PROVE  host'[VM] = host[VM]
<1> DEFINE Kept == host' = host \/ \E r : Parted(r) /\ host' = Applied(host, r)
<1>1. /\ \A at : Drive(at)[1] # "vm" /\ Medium(at)[1] # "vm"
      /\ \A n : Port(n)[1] # "vm" /\ Connection(n)[1] # "vm"
      /\ \A s : Core(s)[1] # "vm" /\ BootFirst[1] # "vm"
      /\ \A f : File(f)[1] # "vm"
  BY Parts, NotFiles
<1>2. ASSUME NEW r, NEW good, NEW bad, Parted(r), Invoke(r, good, bad)
      PROVE  Kept
  BY <1>2 DEF Invoke, WaitForJob
<1>3. op.step \in CreateSteps
  BY DEF Typed, KindInv, Fits
<1>4. op.step = "addCtrl" => op.thing[1] # "vm"
  BY ThingIs
<1> HIDE DEF Kept
<1>5. Resolve \/ FindDrive \/ PollLink \/ FindPort => Kept
  BY DEF Resolve, FindDrive, PollLink, FindPort, Quiet, Kept
<1>6. AddDiskDrive => Kept
  BY <1>1, <1>2, PartedAre DEF AddDiskDrive
<1>7. AddDvdDrive => Kept
  BY <1>1, <1>2, PartedAre DEF AddDvdDrive
<1>8. AttachPhysicalDisk => Kept
  BY <1>1, <1>2, PartedAre DEF AttachPhysicalDisk
<1>9. AddVhd => Kept
  BY <1>1, <1>2, PartedAre DEF AddVhd
<1>10. Rollback => Kept
  BY <1>1, <1>2, PartedAre DEF Rollback
<1>11. CreateFile => Kept
  BY <1>1, <1>2, PartedAre DEF CreateFile
<1>12. AddScsiController => Kept
  BY <1>2, <1>4, PartedAre DEF AddScsiController, At
<1>13. AddPort => Kept
  BY <1>1, <1>2, PartedAre DEF AddPort
<1>14. AddConnection => Kept
  BY <1>1, <1>2, PartedAre DEF AddConnection
<1>15. ASSUME NEW t, t[1] # "vm", ModifyOne(t) PROVE Kept
  BY <1>2, <1>15, PartedAre DEF ModifyOne
<1>16. SetNetworkAdapterSwitch \/ SetNetworkAdapterPort \/ SetMemoryConfig \/ SetProcessorConfig => Kept
  BY <1>1, <1>15 DEF SetNetworkAdapterSwitch, SetNetworkAdapterPort, SetMemoryConfig, SetProcessorConfig
<1>17. ASSUME MountFirst PROVE Kept
  <2>1. \/ host' = host
        \/ \E at \in Addrs : \E verb, good, bad : Invoke(Request(verb, One(Medium(at), op.what)), good, bad)
    <3>1. CASE Quiet
      BY <3>1 DEF Quiet
    <3>2. CASE ~Quiet
      BY <1>17, <3>2 DEF MountFirst
    <3> QED
      BY <3>1, <3>2
  <2> QED
    BY <1>1, <1>2, <2>1, PartedAre DEF Kept
<1>18. PromoteDvdToBootFront => Kept
  BY <1>1, <1>2, PartedAre DEF PromoteDvdToBootFront, Quiet, Kept
<1>19. Kept
  BY <1>3, <1>5, <1>6, <1>7, <1>8, <1>9, <1>10, <1>11, <1>12, <1>13, <1>14, <1>16, <1>17, <1>18, StepAt
     DEF Step, CreateSteps, DiskSteps, NicSteps
<1> QED
  BY <1>19, MachineKept DEF Kept, Parted

\* The definition makes the machine, or ends the creation.
LEMMA DefinitionMakes ==
  ASSUME Typed, DefineSystem, Prompt', op'.step # "define", ~(op'.step = "returned" /\ ~op'.ok)
  PROVE  host'[VM] = "present"
<1>1. op.step = "define" /\ plan = <<>> /\ Types /\ KindInv
  BY DEF DefineSystem, At, Typed, KindInv
<1>2. ~Finish(FALSE)
  BY <1>1, FinishIs
<1>3. ~Note("started")
  BY MarksOf DEF Prompt
<1> DEFINE r == Request("add", Fresh(call.gen))
<1>4. Accepts(host, r) /\ host' = Applied(host, r)
  BY <1>2, <1>3 DEF DefineSystem, Invoke, WaitForJob
<1>5. r.set = Fresh(call.gen)
  BY DEF Request
<1>6. VM \in DOMAIN r.set /\ r.set[VM] = "present"
  <2> DEFINE f == Fresh(call.gen)
  <2>1. VM \in DOMAIN f /\ f[VM] = "present"
    <3>1. /\ DOMAIN f = {VM, BootFirst} \cup CoreThings \cup SecurityThings
                           \cup (IF call.gen = 1 THEN {Ctrl(c) : c \in Ide} ELSE {})
          /\ f[VM] = "present"
      BY FreshIs
    <3> HIDE DEF f
    <3> QED
      BY <3>1
  <2> HIDE DEF f
  <2>2. r.set = f
    BY <1>5 DEF f
  <2> QED
    BY <2>1, <2>2
<1> HIDE DEF r
<1>7. VM \in Things /\ Ancestors[VM] = {VM} /\ VM \notin SecurityThings
  BY ThingsAre, TopAncestors, Parts DEF SecurityThings, VM
<1>8. host' = Pruned(Laid(host, r))
  BY <1>4, <1>6, <1>7, AppliedIs DEF Ignored
<1>9. Laid(host, r)[VM] = "present"
  BY <1>6, <1>7 DEF Laid
<1> QED
  BY <1>7, <1>8, <1>9, PrunedKeeps DEF Absent

\* A key protector is there before the setting is turned on.
LEMMA ProtectorMade ==
  ASSUME Typed, EnsureKeyProtector, Prompt', op.what = "on", op'.step = "secure", call.kind # "create"
  PROVE  host'[Protector] # Absent
<1>1. CASE host[Protector] # Absent
  BY <1>1 DEF EnsureKeyProtector, Quiet
<1>2. CASE host[Protector] = Absent
  <2>1. Invoke(Add(Protector, "present"), Goto("secure"), Finish(FALSE))
    BY <1>2 DEF EnsureKeyProtector
  <2>2. ~Finish(FALSE)
    BY Goes DEF To
  <2>3. ~Note("started")
    BY MarksOf DEF Prompt
  <2> DEFINE r == Add(Protector, "present")
  <2>4. Accepts(host, r) /\ host' = Applied(host, r)
    BY <2>1, <2>2, <2>3 DEF Invoke, WaitForJob
  <2>5. r.set = One(Protector, "present")
    BY DEF Add, Request
  <2>6. Protector \in Things /\ Protector \notin SecurityThings
    BY ThingsAre, Parts DEF SecurityThings
  <2> HIDE DEF r
  <2>7. host'[Protector] = "present"
    BY <2>4, <2>5, <2>6, OneApplied DEF Typed
  <2> QED
    BY <2>7 DEF Absent
<1> QED
  BY <1>1, <1>2

\* The marks of a call only grow: what was answered at once before was so then.
LEMMA PromptBack == hit \subseteq hit' /\ Prompt' => Prompt
BY DEF Prompt, Clean, Marks

LEMMA MakingStep ==
  ASSUME Typed, Making, Step, ~Return
  PROVE  Making'
<1>1. UNCHANGED call /\ (Prompt' => Prompt)
  BY CallKept, PromptBack
<1>2. ASSUME call.kind = "create", Prompt', op'.step # "define", ~(op'.step = "returned" /\ ~op'.ok)
      PROVE  host'[VM] = "present"
  <2>1. op.step # "returned"
    BY StepAt DEF Step, At
  <2>2. CASE op.step = "define"
    <3>1. DefineSystem
      BY <2>2, StepAt DEF Step
    <3> QED
      BY <1>2, <3>1, DefinitionMakes
  <2>3. CASE op.step # "define"
    <3>1. host[VM] = "present"
      BY <1>1, <1>2, <2>1, <2>3 DEF Making, Returned
    <3> QED
      BY <1>2, <2>1, <2>3, <3>1, CreationKeepsMachine
  <2> QED
    BY <2>2, <2>3
<1>3. ASSUME call.kind \in Secrets, Prompt', op'.step = "secure", op'.what = "on"
      PROVE  host'[Protector] # Absent
  <2>1. op.step \in {"protect", "secure"} /\ call.kind # "create"
    <3>1. op.step # "returned"
      BY StepAt DEF Step, At
    <3> QED
      BY <1>3, <3>1 DEF Typed, KindInv, Fits, Secrets
  <2>2. ~(SetVmTpm \/ SetVmStateEncryption \/ SetVmShielded)
    <3>1. ASSUME NEW s, ModifySecuritySettings(s) PROVE FALSE
      <4>1. To("returned", TRUE) \/ To("returned", FALSE)
        BY <2>1, <3>1, CallsAsk DEF Asked
      <4> QED
        BY <1>3, <4>1 DEF To
    <3> QED
      BY <3>1 DEF SetVmTpm, SetVmStateEncryption, SetVmShielded
  <2>3. EnsureKeyProtector
    BY <2>1, <2>2, StepAt DEF Step
  <2>4. To("secure", op.ok) \/ To("returned", FALSE)
    BY <2>1, <2>3, Goes DEF EnsureKeyProtector, Invoke, WaitForJob
  <2>5. op.what = "on"
    BY <1>3, <2>4 DEF To
  <2> QED
    BY <1>3, <2>1, <2>3, <2>5, ProtectorMade
<1> QED
  BY <1>1, <1>2, <1>3 DEF Making, Returned

LEMMA AppliesStep ==
  ASSUME Typed, Typed', Making, Making', Applies, Step, ~Return
  PROVE  Applies'
<1>1. UNCHANGED call /\ (Prompt' => Prompt)
  BY CallKept, PromptBack
<1> SUFFICES ASSUME op'.step = "returned", op'.ok, Prompt', call.kind \notin Attaches
             PROVE  Holds'
  BY <1>1 DEF Applies, Returned
<1>2. CASE call.kind = "create"
  <2>1. host'[VM] = "present"
    BY <1>1, <1>2 DEF Making, Returned
  <2>2. call'.goal = One(VM, "present")
    BY <1>1, <1>2 DEF Typed, KindInv, Aims
  <2> QED
    BY <2>1, <2>2 DEF Holds, One
<1>3. call.kind # "none"
  BY <1>1 DEF Typed, KindInv
<1> QED
  BY <1>1, <1>2, <1>3, ReturnsApplied

\* Nothing but its own calls changes the machine of an edit answered at once.
LEMMA PromptAlone ==
  ASSUME Typed, call.kind # "none",
         JobEnds \/ DestroyEnds \/ DeleteVhdFilesBestEffort \/ Foreign
  PROVE  /\ UNCHANGED <<call, op>>
         /\ call.kind # "destroy" => ~Prompt'
<1>1. CASE JobEnds
  <2>1. UNCHANGED <<call, op, hit>> /\ jobs # {}
    BY <1>1 DEF JobEnds
  <2> QED
    BY <2>1 DEF Typed, Alone, Prompt, Clean, Marks
<1>2. CASE DestroyEnds \/ DeleteVhdFilesBestEffort
  <2>1. UNCHANGED <<call, op, hit>> /\ watch.state # "none"
    BY <1>2 DEF DestroyEnds, DeleteVhdFilesBestEffort
  <2> QED
    BY <2>1 DEF Typed, Alone, Prompt, Clean, Marks
<1>3. CASE Foreign
  <2>1. UNCHANGED <<call, op>> /\ Note("foreign")
    BY <1>3 DEF Foreign
  <2> QED
    BY <2>1, MarksOf DEF Prompt, Clean
<1> QED
  BY <1>1, <1>2, <1>3

LEMMA OthersApply ==
  ASSUME Typed, Making, Applies, JobEnds \/ DestroyEnds \/ DeleteVhdFilesBestEffort \/ Foreign
  PROVE  Making' /\ Applies'
<1>1. CASE call.kind = "none"
  <2>1. UNCHANGED <<call, op>>
    BY DEF JobEnds, DestroyEnds, DeleteVhdFilesBestEffort, Foreign
  <2>2. op.step = "idle"
    BY <1>1 DEF Typed, KindInv
  <2> QED
    BY <1>1, <2>1, <2>2 DEF Making, Applies, Returned, Secrets
<1>2. CASE call.kind = "destroy"
  <2>1. UNCHANGED <<call, op>>
    BY <1>2, PromptAlone
  <2>2. DOMAIN call.goal = {}
    BY <1>2 DEF Typed, KindInv, Aims
  <2> QED
    BY <1>2, <2>1, <2>2 DEF Making, Applies, Holds, Secrets
<1>3. CASE call.kind \notin {"none", "destroy"}
  BY <1>3, PromptAlone DEF Making, Applies
<1> QED
  BY <1>1, <1>2, <1>3

LEMMA AppliesKept ==
  Typed /\ Typed' /\ Making /\ Applies /\ [Next]_vars => Making' /\ Applies'
<1> SUFFICES ASSUME Typed, Typed', Making, Applies, [Next]_vars PROVE Making' /\ Applies'
  OBVIOUS
<1>1. CASE Callers
  <2>1. op'.step \in FirstSteps /\ (call'.kind = "create" => op'.step = "define")
    BY <1>1, CallersBegin
  <2>2. op'.step \notin {"returned", "secure"}
    BY <2>1 DEF FirstSteps
  <2> QED
    BY <2>1, <2>2 DEF Making, Applies, Returned
<1>2. CASE UNCHANGED vars
  BY <1>2 DEF vars, Making, Applies, Prompt, Clean, Marks, Returned, Holds
<1>3. CASE Return
  <2>1. op' = NoOp /\ call' = NoCall
    BY <1>3 DEF Return
  <2> QED
    BY <2>1 DEF Making, Applies, Returned, NoOp, NoCall, Op, Secrets
<1>4. CASE Step /\ ~Return
  BY <1>4, MakingStep, AppliesStep
<1>5. CASE JobEnds \/ DestroyEnds \/ DeleteVhdFilesBestEffort \/ Foreign
  BY <1>5, OthersApply
<1> QED
  BY <1>1, <1>2, <1>3, <1>4, <1>5 DEF Next, Callers

LEMMA AppliesInit == Init => Making /\ Applies
<1> SUFFICES ASSUME Init PROVE Making /\ Applies
  OBVIOUS
<1>1. call = NoCall /\ op = NoOp
  BY Zenon DEF Init
<1> QED
  BY <1>1 DEF Making, Applies, Returned, NoOp, NoCall, Op, Secrets

LEMMA PromptIsApplied == Typed /\ AttachInv /\ Applies => PromptTrueIsApplied
<1> SUFFICES ASSUME Typed, AttachInv, Applies, Returned, op.ok, Marks \cap {"started", "foreign"} = {}
             PROVE  Holds
  BY DEF PromptTrueIsApplied
<1>1. Prompt
  BY DEF Prompt, Clean
<1>2. CASE call.kind \in Attaches
  <2>1. AttachIsAllOrNothing
    BY AttachKept
  <2> QED
    BY <1>1, <1>2, <2>1 DEF AttachIsAllOrNothing, Attaches, Prompt, Clean
<1>3. CASE call.kind \notin Attaches
  BY <1>1, <1>3 DEF Applies
<1> QED
  BY <1>2, <1>3

\* An edit of any kind whose calls were all answered at once, and that nobody
\* interfered with, reports success only when the machine is as it was to be:
\* no refusal between its first call and its last is lost, and none of its
\* steps undoes what an earlier one did.
THEOREM PromptSuccessIsApplied == Spec => []PromptTrueIsApplied
<1>1. Init => Typed /\ AttachInv /\ Making /\ Applies
  BY TypedInit, AttachInit, AppliesInit
<1>2. Typed /\ AttachInv /\ Making /\ Applies /\ [Next]_vars
        => (Typed /\ AttachInv /\ Making /\ Applies)'
  BY TypedStep, AttachStep, AppliesKept
<1> QED
  BY <1>1, <1>2, PromptIsApplied, PTL DEF Spec

----------------------------------------------------------------------------
(* A creation answered at once makes all of the machine.                    *)

\* The calls of a creation were all answered at once, or refused.
Quietly == Marks \cap {"started", "foreign", "failed", "threw"} = {}

TheScsi == CHOOSE x \in Scsi : TRUE
TheNic  == CHOOSE n \in Nics : TRUE

\* The plan from its network adapter, its disk, its controller on.
FromNetwork(c)    == NetworkOps(c) \o MediaOps(c)
FromDisk(c)       == DiskOps(c) \o FromNetwork(c)
FromController(c) == ControllerOps(c) \o FromDisk(c)
Mount(c)          == Op("mountFirst", AnyPlace, VM, c.iso)

\* The calls of a creation, one by one.
MemoryOp      == Op("modify", AnyPlace, Core("memory"), "set")
ProcessorOp   == Op("modify", AnyPlace, Core("processor"), "set")
ControllerOp  == Op("addCtrl", AnyPlace, Ctrl(TheScsi), "present")
DiskOp(c)     == Op(IF c.isNew THEN "createFile" ELSE "resolve", AnyPlace, VM, c.file)
AdapterOp(c)  == Op("addPort", AnyPlace, Port(TheNic), c.switch)
DvdOp         == Op("resolve", AnyPlace, VM, "dvd")

\* What the creation has made of the machine after its first k calls, those it
\* does not need counted as made: memory, processor, controller, file, drive,
\* disk, port, connection, DVD drive, image, boot order.
Frame(k) ==
  /\ host[VM] = "present" /\ host[BootFirst] # Absent /\ \A t \in CoreThings : host[t] # Absent
  /\ k >= 1 => host[Core("memory")] = "set"
  /\ k >= 2 => host[Core("processor")] = "set"

Controllers(c, k) ==
  \A x \in Ctrls :
    host[Ctrl(x)] = IF (IF c.gen = 1 THEN x \in Ide ELSE k >= 3 /\ x = TheScsi)
                    THEN "present" ELSE Absent

Disks(c, k) ==
  /\ c.file # Absent => (host[File(c.file)] = Absent <=> c.isNew /\ k < 4)
  /\ k <= 4 => \A at \in Addrs : host[Drive(at)] = Absent
  /\ k <= 5 => \A at \in Addrs : host[Medium(at)] = Absent
  /\ k <= 8 => \A at \in Addrs : host[Drive(at)] # Absent => at[2] = 0 /\ host[Drive(at)] = "disk"
  /\ k >= 6 /\ c.file # Absent =>
       \E at \in Addrs : host[Drive(at)] = "disk" /\ host[Medium(at)] = c.file

Adapter(c, k) ==
  /\ k <= 6 => host[Port(TheNic)] = Absent
  /\ k <= 7 => host[Connection(TheNic)] = Absent
  /\ k = 7 => host[Port(TheNic)] # Absent
  /\ k >= 8 /\ c.switch # Absent => host[Connection(TheNic)] = c.switch

Image(c, k) ==
  c.iso # Absent =>
    /\ k >= 9 => \E at \in Addrs : host[Drive(at)] = "dvd"
    /\ k >= 10 => \E at \in Addrs : host[Medium(at)] = c.iso
    /\ k >= 11 => IsGen1 \/ Cardinality(Bootable) < 2 \/ host[BootFirst] = "on"

Made(c, k) ==
  Frame(k) /\ Controllers(c, k) /\ Disks(c, k) /\ Adapter(c, k) /\ Image(c, k)

\* A place for the next drive, the first one where there is none yet.
Placed(k) ==
  \/ op.step = "resolve" /\ op.at = AnyPlace
  \/ /\ op.step = "addDrive" /\ op.at \in Addrs
     /\ host[Ctrl(op.at[1])] # Absent /\ host[Drive(op.at)] = Absent /\ (k = 4 => op.at[2] = 0)

\* Where the creation is after them, and what it is to do then.
Core1(c, k)  == /\ k = 0 /\ op.step = "modify" /\ op.thing = Core("memory") /\ op.what = "set"
                /\ plan = <<ProcessorOp>> \o FromController(c)
Core2(c, k)  == /\ k = 1 /\ op.step = "modify" /\ op.thing = Core("processor") /\ op.what = "set"
                /\ plan = FromController(c)
CtrlAt(c, k) == /\ k = 2 /\ c.gen = 2 /\ op.step = "addCtrl" /\ op.thing = Ctrl(TheScsi)
                /\ plan = FromDisk(c)
DiskAt(c, k) ==
  /\ c.file # Absent /\ op.what = c.file /\ plan = FromNetwork(c)
  /\ \/ k = 3 /\ c.isNew /\ op.step = "createFile" /\ op.at = AnyPlace
     \/ k = 4 /\ Placed(k)
     \/ k = 5 /\ op.step \in {"findDrive", "addVhd"} /\ host[Drive(op.at)] = "disk"
     \/ k = 6 /\ op.step = "pollLink" /\ host[Medium(op.at)] # Absent
NetworkAt(c, k) ==
  /\ c.switch # Absent /\ op.thing = Port(TheNic) /\ op.what = c.switch /\ plan = MediaOps(c)
  /\ \/ k = 6 /\ op.step = "addPort"
     \/ k = 7 /\ op.step \in {"findPort", "addConnection"}
MediaAt(c, k) ==
  /\ c.iso # Absent
  /\ \/ k = 8 /\ op.what = "dvd" /\ Placed(k) /\ plan = <<Mount(c)>>
     \/ k = 9 /\ op.step = "mountFirst" /\ op.what = c.iso /\ plan = <<>>
     \/ k = 10 /\ op.step = "promote" /\ plan = <<>>

Stage(c, k) ==
  \/ Core1(c, k) \/ Core2(c, k) \/ CtrlAt(c, k) \/ DiskAt(c, k) \/ NetworkAt(c, k) \/ MediaAt(c, k)
  \/ k = 11 /\ op.step = "returned" /\ op.ok /\ plan = <<>>

\* Before the machine is defined.
Awaited(c) ==
  /\ op.step = "define" /\ host[VM] = Absent /\ plan = <<>>
  /\ c.file # Absent => (host[File(c.file)] = Absent <=> c.isNew)

Building ==
  call.kind = "create" /\ Quietly =>
    \E c \in Choices :
      /\ call.rest = CreatePlan(c) /\ call.gen = c.gen
      /\ Awaited(c) \/ \E k \in 0 .. 11 : Stage(c, k) /\ Made(c, k)

\* Different places, controllers, files and core settings are different things.
LEMMA ThingsApart ==
  /\ \A at, bt \in Addrs : /\ Drive(at) = Drive(bt) => at = bt
                           /\ Medium(at) = Medium(bt) => at = bt
  /\ \A x, y : Ctrl(x) = Ctrl(y) => x = y
  /\ \A f, g : File(f) = File(g) => f = g
  /\ Core("memory") # Core("processor")
<1>1. \A at, bt \in Addrs : /\ Drive(at) = Drive(bt) => at = bt
                            /\ Medium(at) = Medium(bt) => at = bt
  BY AddrsArePairs DEF Drive, Medium
<1> QED
  BY <1>1 DEF Ctrl, File, Core

\* What kind of thing each is.
LEMMA Tags ==
  /\ VM[1] = "vm" /\ BootFirst[1] = "boot" /\ Protector[1] = "protector"
  /\ \A t \in CoreThings : t[1] = "core"
  /\ \A s : Core(s)[1] = "core"
  /\ \A t \in SecurityThings : t[1] = "security"
  /\ \A x : Ctrl(x)[1] = "ctrl"
  /\ \A at : Drive(at)[1] = "drive" /\ Medium(at)[1] = "medium"
  /\ \A n : Port(n)[1] = "port" /\ Connection(n)[1] = "connection"
  /\ \A f : File(f)[1] = "file"
BY Parts, NotFiles DEF VM, CoreThings, SecurityThings, Ctrl

\* What the wizard names.
LEMMA ChoiceIs ==
  ASSUME NEW c \in Choices
  PROVE  /\ c.gen \in {1, 2} /\ c.isNew \in BOOLEAN
         /\ c.file # Absent => c.file \in Vhds /\ c.file # "dvd" /\ c.file \notin Raw
         /\ c.switch # Absent => c.switch \in Switches
         /\ c.iso # Absent => c.iso \in Isos
         /\ TheScsi \in Scsi /\ TheScsi \in Ctrls /\ TheScsi \notin Ide /\ TheNic \in Nics
<1>1. TheScsi \in Scsi /\ TheNic \in Nics
  BY BoundsAssumption DEF TheScsi, TheNic
<1>2. /\ c.gen \in {1, 2} /\ c.isNew \in BOOLEAN /\ c.file \in Vhds \cup {Absent}
      /\ c.switch \in Switches \cup {Absent} /\ c.iso \in Isos \cup {Absent}
  BY DEF Choices, Some
<1> QED
  BY <1>1, <1>2, BoundsAssumption DEF Ctrls

\* A call that gives one thing a value gives no other thing another.
Gives(t, v) == \A x \in Things : host'[x] = IF x = t THEN v ELSE host[x]

\* An accepted addition or change of one thing gives it its value, and leaves the rest.
LEMMA CallGives ==
  ASSUME Tree(host), NEW STATE r, NEW STATE t, t \in Things, NEW STATE v, r.set = One(t, v), v # Absent,
         t[1] # "security", Accepts(host, r), host' = Applied(host, r)
  PROVE  Gives(t, v)
<1>1. t \notin SecurityThings
  BY Tags
<1>2. host'[t] = v
  BY <1>1, OneApplied
<1>3. ASSUME NEW x \in Things, x # t PROVE host'[x] = host[x]
  <2>1. x \notin DOMAIN r.set /\ \A u \in DOMAIN r.set : r.set[u] # Absent
    BY <1>3 DEF One
  <2> QED
    BY <2>1, OthersApplied
<1> QED
  BY <1>2, <1>3 DEF Gives

\* Hyper-V takes an addition, or a change, of a thing whose place is there.
LEMMA CallTaken ==
  ASSUME NEW r, NEW t, NEW v, r.set = One(t, v), v \in Vhds => host[File(v)] # Absent,
         host[Parent(t)] # Absent \/ Parent(t) = t, r.verb \in {"add", "modify"},
         host[t] = Absent <=> r.verb = "add"
  PROVE  Accepts(host, r)
BY DEF Accepts, One

\* What did not happen in a creation that met no fault.
LEMMA Unmarked ==
  ASSUME Quietly'
  PROVE  ~Note("started") /\ ~Note("failed") /\ ~Note("threw") /\ ~Note("foreign")
BY MarksOf DEF Quietly

\* What is made stays made.
LEMMA FrameKept ==
  ASSUME NEW k \in 0 .. 11, Frame(k), \A x \in {VM, BootFirst} \cup CoreThings : host'[x] = host[x], k >= 2
  PROVE  Frame(k + 1)'
BY DEF Frame, CoreThings

LEMMA ControllersKept ==
  ASSUME NEW c, NEW k \in 0 .. 11, Controllers(c, k), \A x \in Ctrls : host'[Ctrl(x)] = host[Ctrl(x)], k # 2
  PROVE  Controllers(c, k + 1)'
<1>1. k >= 3 <=> k + 1 >= 3
  OBVIOUS
<1> QED
  BY <1>1 DEF Controllers

LEMMA DisksKept ==
  ASSUME NEW c \in Choices, NEW k \in 0 .. 11, Disks(c, k), k \notin {3, 4, 5, 8},
         \A at \in Addrs :
           /\ host'[Drive(at)] = host[Drive(at)]
           /\ host[Drive(at)] = "disk" \/ k <= 8 => host'[Medium(at)] = host[Medium(at)],
         \A f \in Vhds : host'[File(f)] = host[File(f)]
  PROVE  Disks(c, k + 1)'
<1>1. c.file # Absent => c.file \in Vhds
  BY ChoiceIs
<1> QED
  BY <1>1 DEF Disks

LEMMA AdapterKept ==
  ASSUME NEW c, NEW k \in 0 .. 11, Adapter(c, k), k \notin {6, 7},
         host'[Port(TheNic)] = host[Port(TheNic)] /\ host'[Connection(TheNic)] = host[Connection(TheNic)]
  PROVE  Adapter(c, k + 1)'
BY DEF Adapter

LEMMA ImageKept == \A c : \A k \in 0 .. 7 : Image(c, k + 1)'
BY DEF Image

\* A call changes nothing of another kind.
LEMMA OthersKept ==
  ASSUME NEW t, NEW v, Gives(t, v)
  PROVE  /\ t[1] \notin {"vm", "boot", "core"} => \A x \in {VM, BootFirst} \cup CoreThings : host'[x] = host[x]
         /\ t[1] # "ctrl" => \A x \in Ctrls : host'[Ctrl(x)] = host[Ctrl(x)]
         /\ t[1] # "drive" => \A at \in Addrs : host'[Drive(at)] = host[Drive(at)]
         /\ t[1] # "medium" => \A at \in Addrs : host'[Medium(at)] = host[Medium(at)]
         /\ t[1] # "file" => \A f \in Vhds : host'[File(f)] = host[File(f)]
         /\ t[1] # "port" => host'[Port(TheNic)] = host[Port(TheNic)]
         /\ t[1] # "connection" => host'[Connection(TheNic)] = host[Connection(TheNic)]
<1>1. \A x \in Things : x[1] # t[1] => host'[x] = host[x]
  BY DEF Gives
<1>2. TheNic \in Nics
  BY BoundsAssumption DEF TheNic
<1>3. t[1] \notin {"vm", "boot", "core"} => \A x \in {VM, BootFirst} \cup CoreThings : host'[x] = host[x]
  BY <1>1, ThingsAre, Tags
<1>4. t[1] # "ctrl" => \A x \in Ctrls : host'[Ctrl(x)] = host[Ctrl(x)]
  BY <1>1, ThingsAre, Tags
<1>5. t[1] # "drive" => \A at \in Addrs : host'[Drive(at)] = host[Drive(at)]
  BY <1>1, ThingsAre, Tags
<1>6. t[1] # "medium" => \A at \in Addrs : host'[Medium(at)] = host[Medium(at)]
  BY <1>1, ThingsAre, Tags
<1>7. t[1] # "file" => \A f \in Vhds : host'[File(f)] = host[File(f)]
  BY <1>1, ThingsAre, Tags
<1>8. t[1] # "port" => host'[Port(TheNic)] = host[Port(TheNic)]
  BY <1>1, <1>2, ThingsAre, Tags
<1>9. t[1] # "connection" => host'[Connection(TheNic)] = host[Connection(TheNic)]
  BY <1>1, <1>2, ThingsAre, Tags
<1> QED
  BY <1>3, <1>4, <1>5, <1>6, <1>7, <1>8, <1>9

\* What each call makes: with its thing given its value, one more call is made.
LEMMA CoreMade ==
  ASSUME NEW c \in Choices, NEW k \in {0, 1}, Made(c, k),
         Gives(IF k = 0 THEN Core("memory") ELSE Core("processor"), "set")
  PROVE  Made(c, k + 1)'
<1> DEFINE t == IF k = 0 THEN Core("memory") ELSE Core("processor")
<1>1. t \in CoreThings /\ t[1] = "core" /\ Gives(t, "set")
  BY Tags DEF CoreThings
<1>2. t = Core("memory") <=> k = 0
  BY ThingsApart
<1>3. t = Core("processor") <=> k = 1
  BY ThingsApart
<1>4. host'[t] = "set" /\ \A x \in Things : x # t => host'[x] = host[x]
  BY <1>1, ThingsAre DEF Gives
<1> HIDE DEF t
<1>5. Frame(k + 1)'
  <2>1. \A x \in {VM, BootFirst} : x # t /\ x \in Things
    BY <1>1, Tags, ThingsAre
  <2>2. host'[VM] = host[VM] /\ host'[BootFirst] = host[BootFirst]
    BY <1>4, <2>1
  <2>3. \A x \in CoreThings : host'[x] # Absent
    BY <1>4, ThingsAre DEF Made, Frame, Absent
  <2>4. CASE k = 0
    BY <1>2, <1>4, <2>2, <2>3, <2>4 DEF Made, Frame
  <2>5. CASE k = 1
    <3>1. host'[Core("memory")] = "set"
      BY <1>2, <1>4, <2>5, ThingsAre DEF Made, Frame, CoreThings
    <3> QED
      BY <1>3, <1>4, <2>2, <2>3, <2>5, <3>1 DEF Made, Frame
  <2> QED
    BY <2>4, <2>5
<1>6. Controllers(c, k + 1)' /\ Adapter(c, k + 1)' /\ Image(c, k + 1)'
  BY <1>1, OthersKept, ControllersKept, AdapterKept, ImageKept DEF Made
<1>7. Disks(c, k + 1)'
  BY <1>1, OthersKept, DisksKept DEF Made
<1> QED
  BY <1>5, <1>6, <1>7 DEF Made

LEMMA ControllerMade ==
  ASSUME NEW c \in Choices, Made(c, 2), c.gen = 2, Gives(Ctrl(TheScsi), "present")
  PROVE  Made(c, 3)'
<1> DEFINE t == Ctrl(TheScsi)
<1>1. t[1] = "ctrl" /\ Gives(t, "present") /\ t \in Things
  BY Tags, ChoiceIs, ThingsAre
<1>2. Controllers(c, 3)'
  <2> SUFFICES ASSUME NEW x \in Ctrls
               PROVE  host'[Ctrl(x)] = IF x = TheScsi THEN "present" ELSE Absent
    BY DEF Controllers
  <2>1. Ctrl(x) \in Things
    BY ThingsAre
  <2>2. CASE x = TheScsi
    BY <1>1, <2>2 DEF Gives
  <2>3. CASE x # TheScsi
    <3>1. Ctrl(x) # t
      BY <2>3, ThingsApart
    <3>2. host[Ctrl(x)] = Absent
      BY <2>3 DEF Made, Controllers
    <3> QED
      BY <1>1, <2>1, <2>3, <3>1, <3>2 DEF Gives
  <2> QED
    BY <2>2, <2>3
<1> HIDE DEF t
<1>3. Frame(2 + 1)' /\ Adapter(c, 2 + 1)' /\ Image(c, 2 + 1)'
  BY <1>1, OthersKept, FrameKept, AdapterKept, ImageKept DEF Made
<1>4. Disks(c, 2 + 1)'
  BY <1>1, OthersKept, DisksKept DEF Made
<1> QED
  BY <1>2, <1>3, <1>4 DEF Made

LEMMA FileMade ==
  ASSUME NEW c \in Choices, Made(c, 3), c.file # Absent, Gives(File(c.file), "present")
  PROVE  Made(c, 4)'
<1> DEFINE t == File(c.file)
<1>1. t[1] = "file" /\ Gives(t, "present") /\ t \in Things
  BY Tags, ChoiceIs, ThingsAre
<1>2. host'[t] # Absent
  BY <1>1 DEF Gives, Absent
<1>3. \A at \in Addrs : host'[Drive(at)] = host[Drive(at)] /\ host'[Medium(at)] = host[Medium(at)]
  BY <1>1, OthersKept
<1>4. Disks(c, 4)'
  BY <1>2, <1>3 DEF Made, Disks
<1> HIDE DEF t
<1>5. Frame(3 + 1)' /\ Controllers(c, 3 + 1)' /\ Adapter(c, 3 + 1)' /\ Image(c, 3 + 1)'
  BY <1>1, OthersKept, FrameKept, ControllersKept, AdapterKept, ImageKept DEF Made
<1> QED
  BY <1>4, <1>5 DEF Made

LEMMA DriveMade ==
  ASSUME NEW c \in Choices, Made(c, 4), NEW at \in Addrs, at[2] = 0, Gives(Drive(at), "disk")
  PROVE  Made(c, 5)' /\ host'[Drive(at)] = "disk"
<1> DEFINE t == Drive(at)
<1>1. t[1] = "drive" /\ Gives(t, "disk") /\ t \in Things
  BY Tags, ThingsAre
<1>2. host'[t] = "disk" /\ \A x \in Things : x # t => host'[x] = host[x]
  BY <1>1 DEF Gives
<1>3. \A bt \in Addrs : bt # at => host'[Drive(bt)] = host[Drive(bt)]
  BY <1>2, ThingsApart, ThingsAre
<1> HIDE DEF t
<1>4. Disks(c, 5)'
  <2>1. \A bt \in Addrs : host'[Medium(bt)] = Absent
    BY <1>1, OthersKept DEF Made, Disks
  <2>2. \A bt \in Addrs : host'[Drive(bt)] # Absent => bt[2] = 0 /\ host'[Drive(bt)] = "disk"
    BY <1>2, <1>3 DEF Made, Disks, t
  <2>3. c.file # Absent => c.file \in Vhds
    BY ChoiceIs
  <2>4. c.file # Absent => host'[File(c.file)] # Absent
    BY <1>1, <2>3, OthersKept DEF Made, Disks
  <2> QED
    BY <2>1, <2>2, <2>4 DEF Disks
<1>5. Frame(4 + 1)' /\ Controllers(c, 4 + 1)' /\ Adapter(c, 4 + 1)' /\ Image(c, 4 + 1)'
  BY <1>1, OthersKept, FrameKept, ControllersKept, AdapterKept, ImageKept DEF Made
<1> QED
  BY <1>2, <1>4, <1>5 DEF Made, t

LEMMA DiskMade ==
  ASSUME NEW c \in Choices, Made(c, 5), NEW at \in Addrs, host[Drive(at)] = "disk",
         c.file # Absent, Gives(Medium(at), c.file)
  PROVE  Made(c, 6)' /\ host'[Medium(at)] = c.file
<1> DEFINE t == Medium(at)
<1>1. t[1] = "medium" /\ Gives(t, c.file) /\ t \in Things
  BY Tags, ThingsAre
<1>2. host'[t] = c.file
  BY <1>1 DEF Gives
<1>3. \A bt \in Addrs : host'[Drive(bt)] = host[Drive(bt)]
  BY <1>1, OthersKept
<1>4. host'[File(c.file)] = host[File(c.file)]
  BY <1>1, OthersKept, ChoiceIs
<1>5. Disks(c, 6)'
  BY <1>2, <1>3, <1>4 DEF Made, Disks
<1> HIDE DEF t
<1>6. Frame(5 + 1)' /\ Controllers(c, 5 + 1)' /\ Adapter(c, 5 + 1)' /\ Image(c, 5 + 1)'
  BY <1>1, OthersKept, FrameKept, ControllersKept, AdapterKept, ImageKept DEF Made
<1> QED
  BY <1>2, <1>5, <1>6 DEF Made, t

LEMMA PortMade ==
  ASSUME NEW c \in Choices, Made(c, 6), Gives(Port(TheNic), "present")
  PROVE  Made(c, 7)'
<1> DEFINE t == Port(TheNic)
<1>1. t[1] = "port" /\ Gives(t, "present") /\ t \in Things
  BY Tags, ThingsAre, ChoiceIs
<1>2. host'[t] # Absent
  BY <1>1 DEF Gives, Absent
<1>3. host'[Connection(TheNic)] = host[Connection(TheNic)]
  BY <1>1, OthersKept
<1>4. Adapter(c, 7)'
  BY <1>2, <1>3 DEF Made, Adapter
<1> HIDE DEF t
<1>5. Frame(6 + 1)' /\ Controllers(c, 6 + 1)' /\ Image(c, 6 + 1)'
  BY <1>1, OthersKept, FrameKept, ControllersKept, ImageKept DEF Made
<1>6. Disks(c, 6 + 1)'
  BY <1>1, OthersKept, DisksKept DEF Made
<1> QED
  BY <1>4, <1>5, <1>6 DEF Made

LEMMA ConnectionMade ==
  ASSUME NEW c \in Choices, Made(c, 7), c.switch # Absent, Gives(Connection(TheNic), c.switch)
  PROVE  Made(c, 8)'
<1> DEFINE t == Connection(TheNic)
<1>1. t[1] = "connection" /\ Gives(t, c.switch) /\ t \in Things
  BY Tags, ThingsAre, ChoiceIs
<1>2. host'[t] = c.switch
  BY <1>1 DEF Gives
<1>3. Adapter(c, 8)'
  BY <1>2 DEF Made, Adapter
<1> HIDE DEF t
<1>4. Frame(7 + 1)' /\ Controllers(c, 7 + 1)' /\ Image(c, 7 + 1)'
  BY <1>1, OthersKept, FrameKept, ControllersKept, ImageKept DEF Made
<1>5. Disks(c, 7 + 1)'
  BY <1>1, OthersKept, DisksKept DEF Made
<1> QED
  BY <1>3, <1>4, <1>5 DEF Made

LEMMA DvdMade ==
  ASSUME NEW c \in Choices, Made(c, 8), NEW at \in Addrs, host[Drive(at)] = Absent, Gives(Drive(at), "dvd")
  PROVE  Made(c, 9)'
<1> DEFINE t == Drive(at)
<1>1. t[1] = "drive" /\ Gives(t, "dvd") /\ t \in Things
  BY Tags, ThingsAre
<1>2. host'[t] = "dvd" /\ \A x \in Things : x # t => host'[x] = host[x]
  BY <1>1 DEF Gives
<1>3. \A bt \in Addrs : bt # at => host'[Drive(bt)] = host[Drive(bt)]
  BY <1>2, ThingsApart, ThingsAre
<1>4. Image(c, 9)'
  BY <1>2 DEF Image
<1> HIDE DEF t
<1>5. Disks(c, 9)'
  <2>1. \A bt \in Addrs : host'[Medium(bt)] = host[Medium(bt)]
    BY <1>1, OthersKept
  <2>2. c.file # Absent => c.file \in Vhds
    BY ChoiceIs
  <2>3. c.file # Absent => host'[File(c.file)] # Absent
    BY <1>1, <2>2, OthersKept DEF Made, Disks
  <2>4. c.file # Absent => \E bt \in Addrs : host'[Drive(bt)] = "disk" /\ host'[Medium(bt)] = c.file
    <3> SUFFICES ASSUME c.file # Absent
                 PROVE  \E bt \in Addrs : host'[Drive(bt)] = "disk" /\ host'[Medium(bt)] = c.file
      OBVIOUS
    <3>1. PICK bt \in Addrs : host[Drive(bt)] = "disk" /\ host[Medium(bt)] = c.file
      BY DEF Made, Disks
    <3>2. bt # at
      BY <3>1 DEF Absent
    <3> QED
      BY <1>3, <2>1, <3>1, <3>2
  <2> QED
    BY <2>3, <2>4 DEF Disks
<1>6. Frame(8 + 1)' /\ Controllers(c, 8 + 1)' /\ Adapter(c, 8 + 1)'
  BY <1>1, OthersKept, FrameKept, ControllersKept, AdapterKept DEF Made
<1> QED
  BY <1>4, <1>5, <1>6 DEF Made

LEMMA ImageMade ==
  ASSUME NEW c \in Choices, Made(c, 9), NEW at \in Addrs, host[Drive(at)] = "dvd",
         c.iso # Absent, Gives(Medium(at), c.iso)
  PROVE  Made(c, 10)'
<1> DEFINE t == Medium(at)
<1>1. t[1] = "medium" /\ Gives(t, c.iso) /\ t \in Things
  BY Tags, ThingsAre
<1>2. host'[t] = c.iso /\ \A x \in Things : x # t => host'[x] = host[x]
  BY <1>1 DEF Gives
<1>3. \A bt \in Addrs : bt # at => host'[Medium(bt)] = host[Medium(bt)]
  BY <1>2, ThingsApart, ThingsAre
<1>4. \A bt \in Addrs : host'[Drive(bt)] = host[Drive(bt)]
  BY <1>1, OthersKept
<1>5. Image(c, 10)'
  <2>1. \E bt \in Addrs : host'[Drive(bt)] = "dvd"
    BY <1>4
  <2>2. \E bt \in Addrs : host'[Medium(bt)] = c.iso
    BY <1>2
  <2> QED
    BY <2>1, <2>2 DEF Image
<1> HIDE DEF t
<1>6. \A bt \in Addrs : host[Drive(bt)] = "disk" => host'[Medium(bt)] = host[Medium(bt)]
  BY <1>3
<1>7. \A f \in Vhds : host'[File(f)] = host[File(f)]
  BY <1>1, OthersKept
<1>8. Disks(c, 9 + 1)'
  BY <1>4, <1>6, <1>7, DisksKept DEF Made
<1>9. Frame(9 + 1)' /\ Controllers(c, 9 + 1)' /\ Adapter(c, 9 + 1)'
  BY <1>1, OthersKept, FrameKept, ControllersKept, AdapterKept DEF Made
<1> QED
  BY <1>5, <1>8, <1>9 DEF Made

LEMMA BootMade ==
  ASSUME NEW c \in Choices, Made(c, 10),
         \/ UNCHANGED host /\ (IsGen1 \/ Cardinality(Bootable) < 2)
         \/ Gives(BootFirst, "on")
  PROVE  Made(c, 11)'
<1> DEFINE t == BootFirst
<1>1. t[1] = "boot" /\ t \in Things
  BY Tags, ThingsAre
<1>2. IsGen1' \/ Cardinality(Bootable') < 2 \/ host'[t] = "on"
  BY <1>1 DEF Gives, IsGen1, Bootable
<1> HIDE DEF t
<1>3. \A x \in Things : x # t => host'[x] = host[x]
  BY DEF Gives, t
<1>4. /\ \A x \in {VM} \cup CoreThings : host'[x] = host[x]
      /\ \A x \in Ctrls : host'[Ctrl(x)] = host[Ctrl(x)]
      /\ \A at \in Addrs : host'[Drive(at)] = host[Drive(at)] /\ host'[Medium(at)] = host[Medium(at)]
      /\ \A f \in Vhds : host'[File(f)] = host[File(f)]
      /\ host'[Port(TheNic)] = host[Port(TheNic)] /\ host'[Connection(TheNic)] = host[Connection(TheNic)]
  <2>1. \A x \in Things : x[1] # t[1] => host'[x] = host[x]
    BY <1>3
  <2> QED
    BY <1>1, <2>1, Tags, ThingsAre, ChoiceIs
<1>5. Frame(11)'
  <2>1. host'[BootFirst] # Absent
    <3>1. CASE UNCHANGED host
      BY <3>1 DEF Made, Frame
    <3>2. CASE Gives(BootFirst, "on")
      <4>1. host'[BootFirst] = "on"
        BY <3>2, ThingsAre DEF Gives
      <4> QED
        BY <4>1 DEF Absent
    <3> QED
      BY <3>1, <3>2
  <2> QED
    BY <1>4, <2>1 DEF Made, Frame, CoreThings
<1>6. Image(c, 11)'
  BY <1>2, <1>4 DEF Made, Image, t
<1>7. Disks(c, 10 + 1)'
  BY <1>4, DisksKept DEF Made
<1>8. Controllers(c, 10 + 1)' /\ Adapter(c, 10 + 1)'
  BY <1>4, ControllersKept, AdapterKept DEF Made
<1> QED
  BY <1>5, <1>6, <1>7, <1>8 DEF Made

\* Sequences of calls: a first one, and concatenations in any grouping.
LEMMA Begins ==
  ASSUME NEW S, NEW a \in S, NEW s \in Seq(S)
  PROVE  /\ <<a>> \o s \in Seq(S) /\ <<a>> \o s # <<>>
         /\ Head(<<a>> \o s) = a /\ Tail(<<a>> \o s) = s
<1> DEFINE r == <<a>> \o s
<1>1. <<a>> \in Seq(S) /\ Len(<<a>>) = 1 /\ <<a>>[1] = a
  OBVIOUS
<1>2. /\ r \in Seq(S) /\ Len(r) = 1 + Len(s)
      /\ \A i \in 1 .. 1 + Len(s) : r[i] = IF i <= 1 THEN <<a>>[i] ELSE s[i - 1]
  BY <1>1, ConcatProperties
<1>3. Len(s) \in Nat
  BY LenProperties
<1> HIDE DEF r
<1>4. r # <<>> /\ r[1] = a
  BY <1>1, <1>2, <1>3
<1>5. Head(r) = r[1] /\ Tail(r) \in Seq(S) /\ Len(Tail(r)) = Len(r) - 1 /\ \A i \in 1 .. Len(Tail(r)) : Tail(r)[i] = r[i + 1]
  BY <1>2, <1>4, HeadTailProperties
<1>6. \A i \in 1 .. Len(s) : Tail(r)[i] = s[i]
  BY <1>2, <1>3, <1>5
<1>7. Tail(r) = s
  BY <1>2, <1>3, <1>5, <1>6, SeqEqual
<1> QED
  BY <1>2, <1>4, <1>5, <1>7 DEF r

\* Concatenation, for the provers a function like any other.
Cat(s, t) == s \o t

LEMMA CatLaws ==
  ASSUME NEW D, NEW s \in Seq(D), NEW t \in Seq(D), NEW u \in Seq(D)
  PROVE  Cat(s, t) \in Seq(D) /\ Cat(Cat(s, t), u) = Cat(s, Cat(t, u))
BY ConcatAssociative, ConcatProperties DEF Cat

LEMMA Regrouped ==
  ASSUME NEW D, NEW o \in Seq(D), NEW p \in Seq(D), NEW d \in Seq(D), NEW n \in Seq(D), NEW m \in Seq(D)
  PROVE  Cat(Cat(Cat(Cat(o, p), d), n), m) = Cat(o, Cat(p, Cat(d, Cat(n, m))))
<1>0. Cat(o, p) \in Seq(D) /\ Cat(Cat(o, p), d) \in Seq(D)
  BY CatLaws
<1>1. Cat(Cat(Cat(Cat(o, p), d), n), m) = Cat(Cat(Cat(o, p), d), Cat(n, m))
  BY <1>0, CatLaws
<1>2. Cat(Cat(Cat(o, p), d), Cat(n, m)) = Cat(Cat(o, p), Cat(d, Cat(n, m)))
  BY CatLaws
<1>3. Cat(Cat(o, p), Cat(d, Cat(n, m))) = Cat(o, Cat(p, Cat(d, Cat(n, m))))
  BY CatLaws
<1> QED
  BY <1>1, <1>2, <1>3

\* A plan is its memory call and what follows, all of them in any set that has its calls.
LEMMA BlocksIn ==
  ASSUME NEW c \in Choices, NEW D, MemoryOp \in D, ProcessorOp \in D, c.gen = 2 => ControllerOp \in D,
         c.file # Absent => DiskOp(c) \in D, c.switch # Absent => AdapterOp(c) \in D,
         c.iso # Absent => DvdOp \in D /\ Mount(c) \in D
  PROVE  /\ MediaOps(c) \in Seq(D) /\ NetworkOps(c) \in Seq(D) /\ DiskOps(c) \in Seq(D)
         /\ ControllerOps(c) \in Seq(D) /\ FromNetwork(c) \in Seq(D)
         /\ FromDisk(c) \in Seq(D) /\ FromController(c) \in Seq(D)
         /\ <<ProcessorOp>> \o FromController(c) \in Seq(D)
         /\ CreatePlan(c) = <<MemoryOp>> \o (<<ProcessorOp>> \o FromController(c))
         /\ CreatePlan(c) \in Seq(D)
<1>1. MediaOps(c) \in Seq(D)
  BY DEF MediaOps, DvdOp, Mount
<1>2. NetworkOps(c) \in Seq(D)
  BY DEF NetworkOps, AdapterOp, TheNic
<1>3. DiskOps(c) \in Seq(D)
  BY DEF DiskOps, DiskOp
<1>4. ControllerOps(c) \in Seq(D)
  BY DEF ControllerOps, ControllerOp, TheScsi
<1>5. FromNetwork(c) \in Seq(D)
  BY <1>1, <1>2, ConcatProperties DEF FromNetwork
<1>6. FromDisk(c) \in Seq(D)
  BY <1>3, <1>5, ConcatProperties DEF FromDisk
<1>7. FromController(c) \in Seq(D)
  BY <1>4, <1>6, ConcatProperties DEF FromController
<1>8. <<ProcessorOp>> \o FromController(c) \in Seq(D)
  BY <1>7, Begins
<1>9. <<MemoryOp>> \o (<<ProcessorOp>> \o FromController(c)) \in Seq(D)
  BY <1>8, Begins
<1>10. CoreOps = <<MemoryOp>> \o <<ProcessorOp>> /\ <<MemoryOp>> \in Seq(D) /\ <<ProcessorOp>> \in Seq(D)
  BY DEF CoreOps, MemoryOp, ProcessorOp
<1>11. CreatePlan(c) = <<MemoryOp>> \o (<<ProcessorOp>> \o FromController(c))
  <2>1. CoreOps \in Seq(D)
    BY <1>10, ConcatProperties
  <2>2. CreatePlan(c) = CoreOps \o FromController(c)
    <3>1. Cat(Cat(Cat(Cat(CoreOps, ControllerOps(c)), DiskOps(c)), NetworkOps(c)), MediaOps(c))
            = Cat(CoreOps, Cat(ControllerOps(c), Cat(DiskOps(c), Cat(NetworkOps(c), MediaOps(c)))))
      BY <1>1, <1>2, <1>3, <1>4, <2>1, Regrouped
    <3> QED
      BY <3>1, Zenon DEF Cat, CreatePlan, FromController, FromDisk, FromNetwork
  <2>3. CoreOps \o FromController(c) = <<MemoryOp>> \o (<<ProcessorOp>> \o FromController(c))
    <3> DEFINE a == <<MemoryOp>>
               b == <<ProcessorOp>>
    <3>1. a \in Seq(D) /\ b \in Seq(D) /\ CoreOps = a \o b
      BY <1>10
    <3> HIDE DEF a, b
    <3>2. Cat(Cat(a, b), FromController(c)) = Cat(a, Cat(b, FromController(c)))
      BY <1>7, <3>1, CatLaws
    <3>3. CoreOps \o FromController(c) = a \o (b \o FromController(c))
      BY <3>1, <3>2, Zenon DEF Cat
    <3> QED
      BY <3>3 DEF a, b
  <2> QED
    BY <2>2, <2>3
<1> QED
  BY <1>1, <1>2, <1>3, <1>4, <1>5, <1>6, <1>7, <1>8, <1>9, <1>11

\* The fields of a call.
LEMMA OpIs ==
  \A step, at, thing, what :
    /\ Op(step, at, thing, what).step = step /\ Op(step, at, thing, what).at = at
    /\ Op(step, at, thing, what).thing = thing /\ Op(step, at, thing, what).what = what
BY DEF Op

\* The plans are of calls of a creation.
LEMMA PlansIn ==
  ASSUME NEW c \in Choices
  PROVE  /\ MediaOps(c) \in Seq(CreateOps) /\ FromNetwork(c) \in Seq(CreateOps)
         /\ FromDisk(c) \in Seq(CreateOps) /\ FromController(c) \in Seq(CreateOps)
         /\ <<ProcessorOp>> \o FromController(c) \in Seq(CreateOps)
         /\ CreatePlan(c) = <<MemoryOp>> \o (<<ProcessorOp>> \o FromController(c))
         /\ MemoryOp \in CreateOps /\ ProcessorOp \in CreateOps
         /\ c.gen = 2 => ControllerOp \in CreateOps
         /\ c.file # Absent => DiskOp(c) \in CreateOps
         /\ c.switch # Absent => AdapterOp(c) \in CreateOps
         /\ c.iso # Absent => DvdOp \in CreateOps /\ Mount(c) \in CreateOps
<1>1. MemoryOp \in CreateOps /\ ProcessorOp \in CreateOps
  <2>1. Core("memory") \in Things /\ Core("processor") \in Things /\ "set" \in Values
    BY ThingsAre, ValuesAre DEF CoreThings
  <2> QED
    BY <2>1, CreateOpIs DEF MemoryOp, ProcessorOp
<1>2. ControllerOp \in CreateOps
  <2>1. Ctrl(TheScsi) \in Things /\ "present" \in Values
    BY ChoiceIs, ThingsAre, ValuesAre
  <2> QED
    BY <2>1, CreateOpIs DEF ControllerOp
<1>3. c.file # Absent => DiskOp(c) \in CreateOps
  <2>1. \A step \in {"createFile", "resolve"}, f \in Vhds : Op(step, AnyPlace, VM, f) \in CreateOps
    BY CreateOpIs, ThingsAre, ValuesAre
  <2> QED
    BY <2>1, ChoiceIs DEF DiskOp
<1>4. c.switch # Absent => AdapterOp(c) \in CreateOps
  <2>1. Port(TheNic) \in Things /\ TheNic \in Nics
    BY ChoiceIs, ThingsAre
  <2>2. \A v \in Switches : Op("addPort", AnyPlace, Port(TheNic), v) \in CreateOps
    BY <2>1, CreateOpIs, ValuesAre
  <2> QED
    BY <2>2, ChoiceIs DEF AdapterOp
<1>5. c.iso # Absent => DvdOp \in CreateOps /\ Mount(c) \in CreateOps
  <2>1. \A f \in Isos : Op("mountFirst", AnyPlace, VM, f) \in CreateOps
    BY CreateOpIs, ThingsAre, ValuesAre
  <2>2. Op("resolve", AnyPlace, VM, "dvd") \in CreateOps
    BY CreateOpIs, ThingsAre, ValuesAre
  <2> QED
    BY <2>1, <2>2, ChoiceIs DEF DvdOp, Mount
<1> QED
  BY <1>1, <1>2, <1>3, <1>4, <1>5, BlocksIn

\* Calls the creation does not need are counted as made.
LEMMA Skips ==
  ASSUME NEW c \in Choices
  PROVE  /\ c.gen = 1 /\ Made(c, 2)' => Made(c, 3)'
         /\ c.file # Absent /\ ~c.isNew /\ Made(c, 3)' => Made(c, 4)'
         /\ c.file = Absent /\ Made(c, 3)' => Made(c, 6)'
         /\ c.switch = Absent /\ Made(c, 6)' => Made(c, 8)'
         /\ c.iso = Absent /\ Made(c, 8)' => Made(c, 11)'
<1>1. c.gen = 1 /\ Made(c, 2)' => Made(c, 3)'
  BY DEF Made, Frame, Controllers, Disks, Adapter, Image
<1>2. c.file # Absent /\ ~c.isNew /\ Made(c, 3)' => Made(c, 4)'
  BY DEF Made, Frame, Controllers, Disks, Adapter, Image
<1>3. c.file = Absent /\ Made(c, 3)' => Made(c, 6)'
  BY DEF Made, Frame, Controllers, Disks, Adapter, Image
<1>4. c.switch = Absent /\ Made(c, 6)' => Made(c, 8)'
  BY DEF Made, Frame, Controllers, Disks, Adapter, Image
<1>5. c.iso = Absent /\ Made(c, 8)' => Made(c, 11)'
  BY DEF Made, Frame, Controllers, Disks, Adapter, Image
<1> QED
  BY <1>1, <1>2, <1>3, <1>4, <1>5

Reached(c) == \E k \in 0 .. 11 : Stage(c, k) /\ Made(c, k)

\* A step of a creation that meets no fault.
Creating(c) ==
  /\ Types /\ KindInv /\ Tree(host)
  /\ call.kind = "create" /\ op.step # "define" /\ Quietly' /\ c \in Choices

\* Where the creation goes when a call is done.
LEMMA Turns ==
  ASSUME NEW a \in CreateOps, NEW s \in Seq(CreateOps), plan = <<a>> \o s, Finish(TRUE)
  PROVE  op' = a /\ plan' = s
BY Begins DEF Finish

\* A call done, the creation turns to the next thing that was asked for.
LEMMA ToEnd ==
  ASSUME NEW c, Creating(c), Finish(TRUE), plan = <<>>, Made(c, 11)'
  PROVE  Reached(c)'
<1>1. op'.step = "returned" /\ op'.ok /\ plan' = <<>>
  BY FinishIs DEF Creating
<1>2. Stage(c, 11)'
  BY <1>1 DEF Stage
<1> QED
  BY <1>2 DEF Reached

LEMMA ToMount ==
  ASSUME NEW c, Creating(c), Finish(TRUE), plan = <<Mount(c)>>, c.iso # Absent, Made(c, 9)'
  PROVE  Reached(c)'
<1>1. op' = Mount(c) /\ plan' = <<>>
  <2>1. plan = <<Mount(c)>> \o <<>> /\ <<>> \in Seq(CreateOps)
    BY PlansIn, ConcatEmptySeq DEF Creating
  <2> QED
    BY <2>1, PlansIn, Turns DEF Creating
<1>2. MediaAt(c, 9)'
  BY <1>1, OpIs DEF MediaAt, Mount
<1>3. Stage(c, 9)'
  BY <1>2 DEF Stage
<1> QED
  BY <1>3 DEF Reached

LEMMA ToMedia ==
  ASSUME NEW c, Creating(c), Finish(TRUE), plan = MediaOps(c), Made(c, 8)'
  PROVE  Reached(c)'
<1>1. CASE c.iso = Absent
  <2>1. plan = <<>> /\ Made(c, 11)'
    BY <1>1, Skips DEF MediaOps, Creating
  <2> QED
    BY <2>1, ToEnd
<1>2. CASE c.iso # Absent
  <2>1. plan = <<DvdOp, Mount(c)>>
    BY <1>2 DEF MediaOps, DvdOp, Mount
  <2>2. op' = DvdOp /\ plan' = <<Mount(c)>>
    BY <2>1 DEF Finish
  <2>3. op'.step = "resolve" /\ op'.at = AnyPlace /\ op'.what = "dvd"
    BY <2>2, OpIs DEF DvdOp
  <2>4. MediaAt(c, 8)'
    BY <1>2, <2>2, <2>3 DEF MediaAt, Placed
  <2>5. Stage(c, 8)'
    BY <2>4 DEF Stage
  <2> QED
    BY <2>5 DEF Reached
<1> QED
  BY <1>1, <1>2

LEMMA ToNetwork ==
  ASSUME NEW c, Creating(c), Finish(TRUE), plan = FromNetwork(c), Made(c, 6)'
  PROVE  Reached(c)'
<1>1. CASE c.switch = Absent
  <2>1. plan = MediaOps(c)
    BY <1>1, PlansIn, ConcatEmptySeq DEF FromNetwork, NetworkOps, Creating
  <2>2. Made(c, 8)'
    BY <1>1, Skips DEF Creating
  <2> QED
    BY <2>1, <2>2, ToMedia
<1>2. CASE c.switch # Absent
  <2>1. plan = <<AdapterOp(c)>> \o MediaOps(c)
    BY <1>2 DEF FromNetwork, NetworkOps, AdapterOp, TheNic
  <2>2. op' = AdapterOp(c) /\ plan' = MediaOps(c)
    BY <1>2, <2>1, PlansIn, Turns DEF Creating
  <2>3. op'.step = "addPort" /\ op'.thing = Port(TheNic) /\ op'.what = c.switch
    BY <2>2, OpIs DEF AdapterOp
  <2>4. NetworkAt(c, 6)'
    BY <1>2, <2>2, <2>3 DEF NetworkAt
  <2>5. Stage(c, 6)'
    BY <2>4 DEF Stage
  <2> QED
    BY <2>5 DEF Reached
<1> QED
  BY <1>1, <1>2

LEMMA ToDisk ==
  ASSUME NEW c, Creating(c), Finish(TRUE), plan = FromDisk(c), Made(c, 3)'
  PROVE  Reached(c)'
<1>1. CASE c.file = Absent
  <2>1. plan = FromNetwork(c)
    BY <1>1, PlansIn, ConcatEmptySeq DEF FromDisk, DiskOps, Creating
  <2>2. Made(c, 6)'
    BY <1>1, Skips DEF Creating
  <2> QED
    BY <2>1, <2>2, ToNetwork
<1>2. CASE c.file # Absent
  <2>1. plan = <<DiskOp(c)>> \o FromNetwork(c)
    BY <1>2 DEF FromDisk, DiskOps, DiskOp
  <2>2. op' = DiskOp(c) /\ plan' = FromNetwork(c)
    BY <1>2, <2>1, PlansIn, Turns DEF Creating
  <2>3. op'.at = AnyPlace /\ op'.what = c.file
    BY <2>2, OpIs DEF DiskOp
  <2>4. CASE c.isNew
    <3>1. op'.step = "createFile"
      BY <2>2, <2>4, OpIs DEF DiskOp
    <3>2. DiskAt(c, 3)'
      BY <1>2, <2>2, <2>3, <2>4, <3>1 DEF DiskAt
    <3>3. Stage(c, 3)'
      BY <3>2 DEF Stage
    <3> QED
      BY <3>3 DEF Reached
  <2>5. CASE ~c.isNew
    <3>1. op'.step = "resolve"
      BY <2>2, <2>5, OpIs DEF DiskOp
    <3>2. Made(c, 4)'
      BY <1>2, <2>5, Skips DEF Creating
    <3>3. DiskAt(c, 4)'
      BY <1>2, <2>2, <2>3, <3>1 DEF DiskAt, Placed
    <3>4. Stage(c, 4)'
      BY <3>3 DEF Stage
    <3> QED
      BY <3>2, <3>4 DEF Reached
  <2> QED
    BY <2>4, <2>5
<1> QED
  BY <1>1, <1>2

LEMMA ToController ==
  ASSUME NEW c, Creating(c), Finish(TRUE), plan = FromController(c), Made(c, 2)'
  PROVE  Reached(c)'
<1>1. CASE c.gen = 1
  <2>1. plan = FromDisk(c)
    BY <1>1, PlansIn, ConcatEmptySeq DEF FromController, ControllerOps, Creating
  <2>2. Made(c, 3)'
    BY <1>1, Skips DEF Creating
  <2> QED
    BY <2>1, <2>2, ToDisk
<1>2. CASE c.gen = 2
  <2>1. plan = <<ControllerOp>> \o FromDisk(c)
    BY <1>2 DEF FromController, ControllerOps, ControllerOp, TheScsi
  <2>2. op' = ControllerOp /\ plan' = FromDisk(c)
    BY <1>2, <2>1, PlansIn, Turns DEF Creating
  <2>3. op'.step = "addCtrl" /\ op'.thing = Ctrl(TheScsi)
    BY <2>2, OpIs DEF ControllerOp
  <2>4. CtrlAt(c, 2)'
    BY <1>2, <2>2, <2>3 DEF CtrlAt
  <2>5. Stage(c, 2)'
    BY <2>4 DEF Stage
  <2> QED
    BY <2>5 DEF Reached
<1> QED
  BY <1>1, <1>2, ChoiceIs DEF Creating

LEMMA ToProcessor ==
  ASSUME NEW c, Creating(c), Finish(TRUE), plan = <<ProcessorOp>> \o FromController(c), Made(c, 1)'
  PROVE  Reached(c)'
<1>1. op' = ProcessorOp /\ plan' = FromController(c)
  BY PlansIn, Turns DEF Creating
<1>2. op'.step = "modify" /\ op'.thing = Core("processor") /\ op'.what = "set"
  BY <1>1, OpIs DEF ProcessorOp
<1>3. Core2(c, 1)'
  BY <1>1, <1>2 DEF Core2
<1>4. Stage(c, 1)'
  BY <1>3 DEF Stage
<1> QED
  BY <1>4 DEF Reached

----------------------------------------------------------------------------
(* The calls of a creation.                                                 *)

\* A creation may add what is absent where its parent is there ...
LEMMA Additions ==
  ASSUME NEW c, Creating(c), NEW STATE t, t \in Things, NEW STATE v, v # Absent,
         v \in Vhds => host[File(v)] # Absent, t[1] # "security", host[t] = Absent,
         host[Parent(t)] # Absent \/ Parent(t) = t
  PROVE  /\ Accepts(host, Add(t, v))
         /\ host' = Applied(host, Add(t, v)) => Gives(t, v)
<1> DEFINE r == Add(t, v)
<1>1. r.set = One(t, v) /\ r.verb = "add"
  BY DEF Add, Request
<1> HIDE DEF r
<1>2. Accepts(host, r)
  BY <1>1, CallTaken
<1>3. host' = Applied(host, r) => Gives(t, v)
  BY <1>1, <1>2, CallGives DEF Creating
<1> QED
  BY <1>2, <1>3 DEF r

\* ... and change what is there.
LEMMA Changes ==
  ASSUME NEW c, Creating(c), NEW STATE t, t \in Things, NEW STATE v, v # Absent,
         v \in Vhds => host[File(v)] # Absent, t[1] # "security", host[t] # Absent,
         host[Parent(t)] # Absent \/ Parent(t) = t
  PROVE  /\ Accepts(host, Modify(t, v))
         /\ host' = Applied(host, Modify(t, v)) => Gives(t, v)
<1> DEFINE r == Modify(t, v)
<1>1. r.set = One(t, v) /\ r.verb = "modify"
  BY DEF Modify, Request
<1> HIDE DEF r
<1>2. Accepts(host, r)
  BY <1>1, CallTaken
<1>3. host' = Applied(host, r) => Gives(t, v)
  BY <1>1, <1>2, CallGives DEF Creating
<1> QED
  BY <1>2, <1>3 DEF r

\* The stages a step may be of.
LEMMA StageOf ==
  ASSUME NEW c, NEW k, Stage(c, k)
  PROVE  /\ op.step = "modify" => Core1(c, k) \/ Core2(c, k)
         /\ op.step = "addCtrl" => CtrlAt(c, k)
         /\ op.step \in {"createFile", "findDrive", "addVhd", "pollLink"} => DiskAt(c, k)
         /\ op.step \in {"resolve", "addDrive"} => DiskAt(c, k) \/ MediaAt(c, k)
         /\ op.step \in NicSteps => NetworkAt(c, k)
         /\ op.step \in {"mountFirst", "promote"} => MediaAt(c, k)
         /\ op.step \in {"modify", "addCtrl", "createFile", "findDrive", "addVhd",
                         "pollLink", "resolve", "addDrive",
                         "addPort", "findPort", "addConnection", "mountFirst", "promote", "returned"}
BY DEF Stage, Core1, Core2, CtrlAt, DiskAt, NetworkAt, MediaAt, Placed, NicSteps

\* Each step of a creation that meets no fault is accepted and makes its thing, and
\* the creation turns to the next.
LEMMA CoreStep ==
  ASSUME NEW c, Creating(c), NEW k \in 0 .. 11, Stage(c, k), Made(c, k),
         SetMemoryConfig \/ SetProcessorConfig \/ SetNetworkAdapterSwitch \/ SetNetworkAdapterPort
  PROVE  Reached(c)'
<1>1. Core1(c, k) \/ Core2(c, k)
  BY StepAt, StageOf
<1>2. op.thing \in CoreThings /\ op.what = "set" /\ (k = 0 \/ k = 1)
      /\ op.thing = IF k = 0 THEN Core("memory") ELSE Core("processor")
  BY <1>1 DEF Core1, Core2, CoreThings
<1>3. ModifyOne(op.thing)
  <2>1. \A n : op.thing # Connection(n) /\ op.thing # Port(n)
    BY <1>2, Tags
  <2> QED
    BY <2>1 DEF SetMemoryConfig, SetProcessorConfig, SetNetworkAdapterSwitch, SetNetworkAdapterPort, ModifyOne
<1>4. Invoke(Modify(op.thing, "set"), Finish(TRUE), Finish(FALSE))
  BY <1>2, <1>3 DEF ModifyOne
<1>5. Gives(op.thing, "set") /\ Finish(TRUE)
  <2>1. host[op.thing] # Absent /\ host[VM] = "present"
    BY <1>2 DEF Made, Frame
  <2>2. op.thing \in Things /\ op.thing[1] = "core" /\ Parent(op.thing) = VM
    BY <1>2, ThingsAre, Tags, ParentOfTop
  <2>3. "set" # Absent /\ "set" \notin Vhds /\ host[Parent(op.thing)] # Absent
    BY <2>1, <2>2, NamesAssumption DEF Absent
  <2>4. /\ Accepts(host, Modify(op.thing, "set"))
        /\ (host' = Applied(host, Modify(op.thing, "set")) => Gives(op.thing, "set"))
    BY <2>1, <2>2, <2>3, Changes
  <2> QED
    BY <1>4, <2>4, Unmarked DEF Invoke, WaitForJob, Creating
<1>6. Made(c, k + 1)'
  BY <1>2, <1>5, CoreMade DEF Creating
<1>7. CASE k = 0
  <2>1. plan = <<ProcessorOp>> \o FromController(c) /\ k + 1 = 1
    BY <1>1, <1>7 DEF Core1, Core2, ProcessorOp
  <2> QED
    BY <1>5, <1>6, <2>1, ToProcessor
<1>8. CASE k = 1
  <2>1. plan = FromController(c) /\ k + 1 = 2
    BY <1>1, <1>8 DEF Core1, Core2
  <2> QED
    BY <1>5, <1>6, <2>1, ToController
<1> QED
  BY <1>2, <1>7, <1>8

LEMMA ControllerStep ==
  ASSUME NEW c, Creating(c), NEW k \in 0 .. 11, Stage(c, k), Made(c, k), AddScsiController
  PROVE  Reached(c)'
<1>1. CtrlAt(c, k)
  BY StepAt, StageOf
<1>2. k = 2 /\ c.gen = 2 /\ op.thing = Ctrl(TheScsi) /\ plan = FromDisk(c)
  BY <1>1 DEF CtrlAt
<1>3. Gives(Ctrl(TheScsi), "present") /\ Finish(TRUE)
  <2>1. TheScsi \in Ctrls /\ c \in Choices
    BY ChoiceIs DEF Creating
  <2>2. host[Ctrl(TheScsi)] = Absent /\ host[VM] = "present"
    BY <1>2, <2>1 DEF Made, Frame, Controllers
  <2>3. Ctrl(TheScsi) \in Things /\ Ctrl(TheScsi)[1] # "security" /\ Parent(Ctrl(TheScsi)) = VM
    BY <2>1, ThingsAre, Tags, ParentOfTop
  <2>4. "present" # Absent /\ "present" \notin Vhds
    BY NamesAssumption DEF Absent
  <2>5. Invoke(Add(Ctrl(TheScsi), "present"), Finish(TRUE), Finish(FALSE))
    BY <1>2 DEF AddScsiController
  <2>6. /\ Accepts(host, Add(Ctrl(TheScsi), "present"))
        /\ (host' = Applied(host, Add(Ctrl(TheScsi), "present")) => Gives(Ctrl(TheScsi), "present"))
    BY <2>2, <2>3, <2>4, Additions
  <2> QED
    BY <2>5, <2>6, Unmarked DEF Invoke, WaitForJob, Creating
<1>4. Made(c, 3)'
  BY <1>2, <1>3, ControllerMade DEF Creating
<1> QED
  BY <1>2, <1>3, <1>4, ToDisk

\* Going on with the same call.
LEMMA GoesTo ==
  ASSUME NEW c, Creating(c), NEW step, Goto(step)
  PROVE  op'.step = step /\ op'.at = op.at /\ op'.what = op.what /\ op'.thing = op.thing /\ plan' = plan
BY OpTypes DEF Creating, Goto, Ops

LEMMA FileStep ==
  ASSUME NEW c, Creating(c), NEW k \in 0 .. 11, Stage(c, k), Made(c, k), CreateFile
  PROVE  Reached(c)'
<1>1. DiskAt(c, k) /\ op.step = "createFile"
  BY StepAt, StageOf
<1>2. /\ k = 3 /\ c.isNew /\ op.at = AnyPlace /\ c.file # Absent /\ op.what = c.file
      /\ plan = FromNetwork(c) /\ c.file \in Vhds
  BY <1>1, ChoiceIs DEF DiskAt, Placed, Creating
<1> DEFINE t == File(op.what)
<1>3. t \in Things /\ t[1] # "security" /\ Parent(t) = t
  BY <1>2, ThingsAre, Tags, ParentOfTop
<1>4. host[t] = Absent
  BY <1>2 DEF Made, Disks
<1>5. "present" # Absent /\ "present" \notin Vhds
  BY NamesAssumption DEF Absent
<1> HIDE DEF t
<1>6. Accepts(host, Add(t, "present")) /\ (host' = Applied(host, Add(t, "present")) => Gives(t, "present"))
  BY <1>3, <1>4, <1>5, Additions
<1>7. Gives(t, "present") /\ Goto("resolve")
  BY <1>6, Unmarked DEF CreateFile, Invoke, WaitForJob, Creating, t
<1>8. Made(c, 4)'
  BY <1>2, <1>7, FileMade DEF Creating, t
<1>9. op'.step = "resolve" /\ op'.at = AnyPlace /\ op'.what = c.file /\ plan' = FromNetwork(c)
  BY <1>2, <1>7, GoesTo
<1>10. DiskAt(c, 4)'
  BY <1>2, <1>9 DEF DiskAt, Placed
<1>11. Stage(c, 4)'
  BY <1>10 DEF Stage
<1> QED
  BY <1>8, <1>11 DEF Reached

\* There is a place for a drive, on a controller of the machine.
LEMMA PlaceFound ==
  ASSUME NEW c \in Choices, NEW k \in {4, 8}, Made(c, k), op.at = AnyPlace
  PROVE  /\ ResolveStorageTarget # {}
         /\ \A at \in ResolveStorageTarget :
              /\ at \in Addrs /\ host[Ctrl(at[1])] # Absent /\ host[Drive(at)] = Absent
              /\ k = 4 => at[2] = 0
<1> DEFINE Present(C) == {x \in C : host[Ctrl(x)] # Absent}
           pick == IF Present(Scsi) # {} THEN Present(Scsi) ELSE Present(Ide)
           y == CHOOSE x \in pick : TRUE
<1>1. ResolveStorageTarget = IF pick = {} THEN {} ELSE FreePlaces(y)
  BY Zenon DEF ResolveStorageTarget
<1>2. \A x \in Ctrls : host[Ctrl(x)] # Absent <=> IF c.gen = 1 THEN x \in Ide ELSE x = TheScsi
  BY DEF Made, Controllers, Absent
<1>3. pick # {} /\ pick \subseteq Ctrls /\ \A x \in pick : host[Ctrl(x)] # Absent
  <2>1. CASE c.gen = 1
    <3>1. Present(Ide) # {}
      BY <1>2, <2>1, RoomAssumption DEF Ctrls
    <3> QED
      BY <3>1 DEF Ctrls
  <2>2. CASE c.gen # 1
    <3>1. TheScsi \in Present(Scsi)
      BY <1>2, <2>2, ChoiceIs DEF Ctrls
    <3> QED
      BY <3>1 DEF Ctrls
  <2> QED
    BY <2>1, <2>2
<1> HIDE DEF pick
<1>4. y \in Ctrls /\ host[Ctrl(y)] # Absent
  BY <1>3
<1> HIDE DEF y
<1>5. ResolveStorageTarget = FreePlaces(y)
  BY <1>1, <1>3
<1>6. Slots(y) \subseteq Nat /\ 0 \in Slots(y) /\ 1 \in Slots(y) /\ \A s \in Slots(y) : <<y, s>> \in Addrs
  <2>1. IdeSlots \in Nat /\ ScsiSlots \in Nat /\ IdeSlots >= 2 /\ ScsiSlots >= 2
    BY BoundsAssumption, RoomAssumption
  <2>2. Slots(y) \subseteq Nat /\ 0 \in Slots(y) /\ 1 \in Slots(y)
    BY <2>1 DEF Slots
  <2> QED
    BY <1>4, <2>2 DEF Addrs
<1>7. \A at \in Addrs : host[Drive(at)] # Absent => at[2] = 0 /\ k = 8
  BY DEF Made, Disks
<1>8. FreePlaces(y) # {}
  <2>1. CASE host[Drive(<<y, 0>>)] = Absent
    <3>1. \A u \in 0 .. 0 - 1 : host[Drive(<<y, u>>)] # Absent
      OBVIOUS
    <3>2. <<y, 0>> \in FreePlaces(y)
      BY <1>6, <2>1, <3>1 DEF FreePlaces
    <3> QED
      BY <3>2
  <2>2. CASE host[Drive(<<y, 0>>)] # Absent
    <3>1. host[Drive(<<y, 1>>)] = Absent
      <4>1. <<y, 1>>[2] = 1 /\ <<y, 1>> \in Addrs
        BY <1>6
      <4> QED
        BY <1>7, <4>1
    <3>2. \A u \in 0 .. 1 - 1 : host[Drive(<<y, u>>)] # Absent
      BY <2>2
    <3>3. <<y, 1>> \in FreePlaces(y)
      BY <1>6, <3>1, <3>2 DEF FreePlaces
    <3> QED
      BY <3>3
  <2> QED
    BY <2>1, <2>2
<1>9. ASSUME NEW at \in FreePlaces(y)
      PROVE  /\ at \in Addrs /\ host[Ctrl(at[1])] # Absent /\ host[Drive(at)] = Absent
             /\ k = 4 => at[2] = 0
  <2>1. PICK s \in Slots(y) : /\ at = <<y, s>> /\ host[Drive(<<y, s>>)] = Absent
                              /\ \A u \in 0 .. s - 1 : host[Drive(<<y, u>>)] # Absent
    BY DEF FreePlaces
  <2>2. at \in Addrs /\ at[1] = y /\ at[2] = s /\ s \in Nat
    BY <1>6, <2>1
  <2>3. ASSUME k = 4 PROVE s = 0
    <3>1. SUFFICES ASSUME s # 0 PROVE FALSE
      OBVIOUS
    <3>2. 0 \in 0 .. s - 1
      BY <2>2, <3>1
    <3>3. host[Drive(<<y, 0>>)] # Absent
      BY <2>1, <3>2
    <3> QED
      BY <1>6, <1>7, <2>3, <3>3
  <2> QED
    BY <1>4, <2>1, <2>2, <2>3
<1> QED
  BY <1>5, <1>8, <1>9

LEMMA ResolveStep ==
  ASSUME NEW c, Creating(c), NEW k \in 0 .. 11, Stage(c, k), Made(c, k), Resolve
  PROVE  Reached(c)'
<1>1. op.step = "resolve" /\ (DiskAt(c, k) \/ MediaAt(c, k)) /\ UNCHANGED host
  BY StepAt, StageOf DEF Resolve, Quiet
<1>2. k \in {4, 8} /\ op.at = AnyPlace
  BY <1>1 DEF DiskAt, MediaAt, Placed
<1>3. c \in Choices
  BY DEF Creating
<1>4. PICK at \in ResolveStorageTarget :
        op' = [op EXCEPT !.step = "addDrive", !.at = at] /\ plan' = plan
  BY <1>2, <1>3, PlaceFound DEF Resolve
<1>5. /\ at \in Addrs /\ host[Ctrl(at[1])] # Absent /\ host[Drive(at)] = Absent
      /\ k = 4 => at[2] = 0
  BY <1>2, <1>3, PlaceFound
<1>6. op'.step = "addDrive" /\ op'.at = at /\ op'.what = op.what
  <2>1. op \in Ops
    BY OpTypes DEF Creating
  <2> QED
    BY <1>4, <2>1 DEF Ops
<1>7. Placed(k)'
  BY <1>1, <1>5, <1>6 DEF Placed
<1>8. Stage(c, k)'
  <2>1. CASE DiskAt(c, k)
    <3>1. DiskAt(c, k)'
      BY <1>1, <1>2, <1>4, <1>6, <1>7, <2>1 DEF DiskAt
    <3> QED
      BY <3>1 DEF Stage
  <2>2. CASE MediaAt(c, k)
    <3>1. MediaAt(c, k)'
      BY <1>1, <1>2, <1>4, <1>6, <1>7, <2>2 DEF MediaAt
    <3> QED
      BY <3>1 DEF Stage
  <2> QED
    BY <1>1, <2>1, <2>2
<1>9. Made(c, k)'
  BY <1>1 DEF Made, Frame, Controllers, Disks, Adapter, Image, IsGen1, Bootable
<1> QED
  BY <1>8, <1>9 DEF Reached

\* Looking makes nothing.
LEMMA LookedMade ==
  ASSUME NEW c, NEW k, Made(c, k), UNCHANGED host
  PROVE  Made(c, k)'
BY DEF Made, Frame, Controllers, Disks, Adapter, Image, IsGen1, Bootable

LEMMA DiskDriveStep ==
  ASSUME NEW c, Creating(c), NEW k \in 0 .. 11, DiskAt(c, k), Made(c, k), AddDiskDrive
  PROVE  Reached(c)'
<1>1. op.step = "addDrive"
  BY StepAt
<1>2. /\ k = 4 /\ op.at \in Addrs /\ host[Ctrl(op.at[1])] # Absent /\ host[Drive(op.at)] = Absent
      /\ op.at[2] = 0 /\ c.file # Absent /\ op.what = c.file /\ plan = FromNetwork(c)
  BY <1>1 DEF DiskAt, Placed
<1> DEFINE t == Drive(op.at)
<1>3. t \in Things /\ t[1] # "security" /\ host[Parent(t)] # Absent /\ host[t] = Absent
  BY <1>2, ThingsAre, Tags, ParentOfStorage
<1>4. "disk" # Absent /\ "disk" \notin Vhds
  BY NamesAssumption DEF Absent
<1> HIDE DEF t
<1>5. Accepts(host, Add(t, "disk")) /\ (host' = Applied(host, Add(t, "disk")) => Gives(t, "disk"))
  BY <1>3, <1>4, Additions
<1>6. Gives(t, "disk") /\ Goto("findDrive")
  BY <1>5, Unmarked DEF AddDiskDrive, Invoke, WaitForJob, Creating, t
<1>7. Made(c, 5)' /\ host'[Drive(op.at)] = "disk"
  BY <1>2, <1>6, DriveMade DEF Creating, t
<1>8. op'.step = "findDrive" /\ op'.at = op.at /\ op'.what = c.file /\ plan' = FromNetwork(c)
  BY <1>2, <1>6, GoesTo
<1>9. DiskAt(c, 5)'
  BY <1>2, <1>7, <1>8 DEF DiskAt
<1>10. Stage(c, 5)'
  BY <1>9 DEF Stage
<1> QED
  BY <1>7, <1>10 DEF Reached

LEMMA DvdDriveStep ==
  ASSUME NEW c, Creating(c), NEW k \in 0 .. 11, MediaAt(c, k), Made(c, k), AddDvdDrive \/ AttachPhysicalDisk
  PROVE  Reached(c)'
<1>1. op.step = "addDrive"
  BY StepAt
<1>2. /\ k = 8 /\ op.at \in Addrs /\ host[Ctrl(op.at[1])] # Absent /\ host[Drive(op.at)] = Absent
      /\ op.what = "dvd" /\ c.iso # Absent /\ plan = <<Mount(c)>>
  BY <1>1 DEF MediaAt, Placed
<1> DEFINE t == Drive(op.at)
<1>3. t \in Things /\ t[1] # "security" /\ host[Parent(t)] # Absent /\ host[t] = Absent
  BY <1>2, ThingsAre, Tags, ParentOfStorage
<1>4. "dvd" # Absent /\ "dvd" \notin Vhds
  BY BoundsAssumption DEF Absent
<1>5. Invoke(Add(t, "dvd"), Finish(TRUE), Finish(FALSE))
  BY <1>2 DEF AddDvdDrive, AttachPhysicalDisk
<1> HIDE DEF t
<1>6. Accepts(host, Add(t, "dvd")) /\ (host' = Applied(host, Add(t, "dvd")) => Gives(t, "dvd"))
  BY <1>3, <1>4, Additions
<1>7. Gives(t, "dvd") /\ Finish(TRUE)
  BY <1>5, <1>6, Unmarked DEF Invoke, WaitForJob, Creating
<1>8. Made(c, 9)'
  BY <1>2, <1>7, DvdMade DEF Creating, t
<1> QED
  BY <1>2, <1>7, <1>8, ToMount

\* A creation adds a disk's drive for its disk and a DVD drive for its image.
LEMMA DriveStep ==
  ASSUME NEW c, Creating(c), NEW k \in 0 .. 11, Stage(c, k), Made(c, k),
         AddDiskDrive \/ AddDvdDrive \/ AttachPhysicalDisk
  PROVE  Reached(c)'
<1>1. DiskAt(c, k) \/ MediaAt(c, k)
  BY StepAt, StageOf
<1>2. op.step = "addDrive"
  BY StepAt
<1>3. CASE DiskAt(c, k)
  <2>1. op.what \in Vhds
    BY <1>3, ChoiceIs DEF DiskAt, Creating
  <2>2. AddDiskDrive
    BY <2>1, BoundsAssumption DEF AddDvdDrive, AttachPhysicalDisk
  <2> QED
    BY <1>3, <2>2, DiskDriveStep
<1>4. CASE MediaAt(c, k)
  <2>1. op.what = "dvd"
    BY <1>2, <1>4 DEF MediaAt
  <2>2. ~AddDiskDrive
    BY <2>1, BoundsAssumption DEF AddDiskDrive
  <2> QED
    BY <1>4, <2>2, DvdDriveStep
<1> QED
  BY <1>1, <1>3, <1>4

LEMMA FindDriveStep ==
  ASSUME NEW c, Creating(c), NEW k \in 0 .. 11, Stage(c, k), Made(c, k), FindDrive
  PROVE  Reached(c)'
<1>1. DiskAt(c, k) /\ op.step = "findDrive"
  BY StepAt, StageOf
<1>2. /\ k = 5 /\ host[Drive(op.at)] = "disk" /\ c.file # Absent /\ op.what = c.file /\ plan = FromNetwork(c)
  BY <1>1 DEF DiskAt, Placed
<1>3. UNCHANGED host /\ Goto("addVhd")
  BY <1>2 DEF FindDrive, Quiet
<1>4. op'.step = "addVhd" /\ op'.at = op.at /\ op'.what = op.what /\ plan' = plan
  BY <1>3, GoesTo
<1>5. DiskAt(c, 5)'
  BY <1>2, <1>3, <1>4 DEF DiskAt
<1>6. Stage(c, 5)'
  BY <1>5 DEF Stage
<1> QED
  BY <1>2, <1>3, <1>6, LookedMade DEF Reached

LEMMA VhdStep ==
  ASSUME NEW c, Creating(c), NEW k \in 0 .. 11, Stage(c, k), Made(c, k), AddVhd
  PROVE  Reached(c)'
<1>1. DiskAt(c, k) /\ op.step = "addVhd"
  BY StepAt, StageOf
<1>2. /\ k = 5 /\ host[Drive(op.at)] = "disk" /\ c.file # Absent /\ op.what = c.file /\ plan = FromNetwork(c)
  BY <1>1 DEF DiskAt, Placed
<1>3. op.at \in Addrs
  BY <1>1, OpTypes DEF Creating, StepNames
<1> DEFINE t == Medium(op.at)
<1>4. t \in Things /\ t[1] # "security" /\ host[Parent(t)] # Absent
  BY <1>2, <1>3, ThingsAre, Tags, ParentOfStorage DEF Absent
<1>5. host[t] = Absent /\ (c.file \in Vhds => host[File(c.file)] # Absent)
  BY <1>2, <1>3 DEF Made, Disks
<1> HIDE DEF t
<1>6. Accepts(host, Add(t, op.what)) /\ (host' = Applied(host, Add(t, op.what)) => Gives(t, op.what))
  BY <1>2, <1>4, <1>5, Additions
<1>7. Gives(t, op.what) /\ Goto("pollLink")
  BY <1>6, Unmarked DEF AddVhd, Invoke, WaitForJob, Creating, t
<1>8. Made(c, 6)' /\ host'[Medium(op.at)] = c.file
  BY <1>2, <1>3, <1>7, DiskMade DEF Creating, t
<1>9. op'.step = "pollLink" /\ op'.at = op.at /\ op'.what = op.what /\ plan' = plan
  BY <1>7, GoesTo
<1>10. DiskAt(c, 6)'
  BY <1>2, <1>8, <1>9 DEF DiskAt
<1>11. Stage(c, 6)'
  BY <1>10 DEF Stage
<1> QED
  BY <1>8, <1>11 DEF Reached

LEMMA PollLinkStep ==
  ASSUME NEW c, Creating(c), NEW k \in 0 .. 11, Stage(c, k), Made(c, k), PollLink
  PROVE  Reached(c)'
<1>1. DiskAt(c, k) /\ op.step = "pollLink"
  BY StepAt, StageOf
<1>2. k = 6 /\ host[Medium(op.at)] # Absent /\ plan = FromNetwork(c)
  BY <1>1 DEF DiskAt, Placed
<1>3. UNCHANGED host /\ Finish(TRUE)
  BY <1>2 DEF PollLink, Quiet
<1>4. Made(c, 6)'
  BY <1>2, <1>3, LookedMade
<1> QED
  BY <1>2, <1>3, <1>4, ToNetwork

LEMMA PortStep ==
  ASSUME NEW c, Creating(c), NEW k \in 0 .. 11, Stage(c, k), Made(c, k), AddPort
  PROVE  Reached(c)'
<1>1. NetworkAt(c, k) /\ op.step = "addPort"
  BY StepAt, StageOf DEF NicSteps
<1>2. /\ k = 6 /\ op.thing = Port(TheNic) /\ op.what = c.switch /\ c.switch # Absent /\ plan = MediaOps(c)
  BY <1>1 DEF NetworkAt
<1> DEFINE t == Port(TheNic)
<1>3. t \in Things /\ t[1] # "security" /\ Parent(t) = VM
  BY ChoiceIs, ThingsAre, Tags, ParentOfTop DEF Creating
<1>4. host[t] = Absent /\ host[VM] # Absent
  BY <1>2 DEF Made, Frame, Adapter, Absent
<1>5. "present" # Absent /\ "present" \notin Vhds
  BY NamesAssumption DEF Absent
<1>6. Port(Nic) = t
  BY <1>2 DEF Nic, Port
<1> HIDE DEF t
<1>7. Accepts(host, Add(t, "present")) /\ (host' = Applied(host, Add(t, "present")) => Gives(t, "present"))
  BY <1>3, <1>4, <1>5, Additions
<1>8. Gives(t, "present") /\ Goto("findPort")
  BY <1>6, <1>7, Unmarked DEF AddPort, Invoke, WaitForJob, Creating
<1>9. Made(c, 7)'
  BY <1>2, <1>8, PortMade DEF Creating, t
<1>10. op'.step = "findPort" /\ op'.thing = op.thing /\ op'.what = op.what /\ plan' = plan
  BY <1>8, GoesTo
<1>11. NetworkAt(c, 7)'
  BY <1>2, <1>10 DEF NetworkAt
<1>12. Stage(c, 7)'
  BY <1>11 DEF Stage
<1> QED
  BY <1>9, <1>12 DEF Reached

LEMMA FindPortStep ==
  ASSUME NEW c, Creating(c), NEW k \in 0 .. 11, Stage(c, k), Made(c, k), FindPort
  PROVE  Reached(c)'
<1>1. NetworkAt(c, k) /\ op.step = "findPort"
  BY StepAt, StageOf DEF NicSteps
<1>2. /\ k = 7 /\ op.thing = Port(TheNic) /\ op.what = c.switch /\ c.switch # Absent /\ plan = MediaOps(c)
  BY <1>1 DEF NetworkAt
<1>3. host[Port(Nic)] # Absent
  BY <1>2 DEF Made, Adapter, Nic, Port
<1>4. UNCHANGED host /\ Goto("addConnection")
  BY <1>3 DEF FindPort, Quiet
<1>5. op'.step = "addConnection" /\ op'.thing = op.thing /\ op'.what = op.what /\ plan' = plan
  BY <1>4, GoesTo
<1>6. NetworkAt(c, 7)'
  BY <1>2, <1>5 DEF NetworkAt
<1>7. Stage(c, 7)'
  BY <1>6 DEF Stage
<1> QED
  BY <1>2, <1>4, <1>7, LookedMade DEF Reached

LEMMA ConnectionStep ==
  ASSUME NEW c, Creating(c), NEW k \in 0 .. 11, Stage(c, k), Made(c, k), AddConnection
  PROVE  Reached(c)'
<1>1. NetworkAt(c, k) /\ op.step = "addConnection"
  BY StepAt, StageOf DEF NicSteps
<1>2. /\ k = 7 /\ op.thing = Port(TheNic) /\ op.what = c.switch /\ c.switch # Absent /\ plan = MediaOps(c)
  BY <1>1 DEF NetworkAt
<1> DEFINE t == Connection(TheNic)
<1>3. t \in Things /\ t[1] # "security" /\ Parent(t) = Port(TheNic)
  BY ChoiceIs, ThingsAre, Tags, ParentOfTop DEF Creating
<1>4. host[t] = Absent /\ host[Port(TheNic)] # Absent
  BY <1>2 DEF Made, Adapter
<1>5. c.switch \notin Vhds
  BY <1>2, NamesAssumption, ChoiceIs DEF Creating
<1>6. Connection(Nic) = t
  BY <1>2 DEF Nic, Port
<1> HIDE DEF t
<1>7. Accepts(host, Add(t, c.switch)) /\ (host' = Applied(host, Add(t, c.switch)) => Gives(t, c.switch))
  BY <1>2, <1>3, <1>4, <1>5, Additions
<1>8. Gives(t, c.switch) /\ Finish(TRUE)
  BY <1>2, <1>6, <1>7, Unmarked DEF AddConnection, Invoke, WaitForJob, Creating
<1>9. Made(c, 8)'
  BY <1>2, <1>8, ConnectionMade DEF Creating, t
<1> QED
  BY <1>2, <1>8, <1>9, ToMedia

LEMMA MountStep ==
  ASSUME NEW c, Creating(c), NEW k \in 0 .. 11, Stage(c, k), Made(c, k), MountFirst
  PROVE  Reached(c)'
<1>1. MediaAt(c, k) /\ op.step = "mountFirst"
  BY StepAt, StageOf
<1>2. k = 9 /\ c.iso # Absent /\ op.what = c.iso /\ plan = <<>>
  BY <1>1 DEF MediaAt, Placed
<1>3. \E at \in Addrs : host[Drive(at)] = "dvd"
  BY <1>2 DEF Made, Image
<1> DEFINE r(at) == Request(IF host[Medium(at)] = Absent THEN "add" ELSE "modify", One(Medium(at), op.what))
           To10(at) == op' = [op EXCEPT !.step = "promote", !.at = at] /\ plan' = plan
<1>4. PICK at \in Addrs : host[Drive(at)] = "dvd" /\ Invoke(r(at), To10(at), Finish(FALSE))
  BY <1>3 DEF MountFirst
<1> DEFINE t == Medium(at)
<1>5. t \in Things /\ t[1] # "security" /\ host[Parent(t)] # Absent
  BY <1>4, ThingsAre, Tags, ParentOfStorage DEF Absent
<1>6. c.iso \notin Vhds
  BY <1>2, NamesAssumption, ChoiceIs DEF Creating
<1>7. /\ r(at).set = One(t, c.iso) /\ r(at).verb \in {"add", "modify"}
      /\ host[t] = Absent <=> r(at).verb = "add"
  BY <1>2 DEF Request
<1>8. Accepts(host, r(at))
  <2> HIDE DEF r, t
  <2> QED
    BY <1>5, <1>6, <1>7, CallTaken
<1>9. host' = Applied(host, r(at)) /\ To10(at)
  <2> HIDE DEF r, To10
  <2> QED
    BY <1>4, <1>8, Unmarked DEF Invoke, WaitForJob, Creating
<1>10. Gives(t, c.iso)
  <2> HIDE DEF r, t
  <2> QED
    BY <1>2, <1>5, <1>7, <1>8, <1>9, CallGives DEF Creating
<1>11. Made(c, 10)'
  BY <1>2, <1>4, <1>10, ImageMade DEF Creating
<1>12. op'.step = "promote" /\ plan' = <<>>
  <2>1. op \in Ops
    BY OpTypes DEF Creating
  <2> QED
    BY <1>2, <1>9, <2>1 DEF Ops
<1>13. MediaAt(c, 10)'
  BY <1>2, <1>12 DEF MediaAt
<1>14. Stage(c, 10)'
  BY <1>13 DEF Stage
<1> QED
  BY <1>11, <1>14 DEF Reached

LEMMA PromoteStep ==
  ASSUME NEW c, Creating(c), NEW k \in 0 .. 11, Stage(c, k), Made(c, k), PromoteDvdToBootFront
  PROVE  Reached(c)'
<1>1. MediaAt(c, k) /\ op.step = "promote"
  BY StepAt, StageOf
<1>2. k = 10 /\ plan = <<>>
  BY <1>1 DEF MediaAt, Placed
<1>3. BootFirst \in Things /\ BootFirst[1] # "security" /\ Parent(BootFirst) = VM
  BY ThingsAre, Tags, ParentOfTop
<1>4. host[BootFirst] # Absent /\ host[VM] # Absent
  BY DEF Made, Frame, Absent
<1>5. "on" # Absent /\ "on" \notin Vhds
  BY NamesAssumption DEF Absent
<1>6. /\ Accepts(host, Modify(BootFirst, "on"))
      /\ (host' = Applied(host, Modify(BootFirst, "on")) => Gives(BootFirst, "on"))
  BY <1>3, <1>4, <1>5, Changes
<1>7. /\ Finish(TRUE)
      /\ (UNCHANGED host /\ (IsGen1 \/ Cardinality(Bootable) < 2)) \/ Gives(BootFirst, "on")
  BY <1>6, Unmarked DEF PromoteDvdToBootFront, Quiet, Invoke, WaitForJob, Creating
<1>8. Made(c, 11)'
  BY <1>2, <1>7, BootMade DEF Creating
<1> QED
  BY <1>2, <1>7, <1>8, ToEnd

\* The definition makes the machine, and nothing but what a fresh one has.
LEMMA FreshAdded ==
  ASSUME Tree(host), host[VM] = Absent, NEW STATE gen, NEW STATE r, r = Request("add", Fresh(gen))
  PROVE  /\ Accepts(host, r)
         /\ host' = Applied(host, r) =>
              /\ \A t \in DOMAIN Fresh(gen) : host'[t] = Fresh(gen)[t]
              /\ \A x \in Things \ DOMAIN Fresh(gen) : host'[x] = host[x]
<1> DEFINE f == Fresh(gen)
           D == DOMAIN f
<1>1. r.verb = "add" /\ r.set = f
  BY DEF Request
<1>2. /\ VM \in D /\ D \subseteq Things /\ f[VM] = "present"
      /\ \A t \in D : t \in {VM, BootFirst} \cup CoreThings \cup SecurityThings \/ (\E c \in Ctrls : t = Ctrl(c))
      /\ \A t \in D : f[t] \in {"present", "off", "default"}
  <2>1. /\ D = {VM, BootFirst} \cup CoreThings \cup SecurityThings
                 \cup (IF gen = 1 THEN {Ctrl(c) : c \in Ide} ELSE {})
        /\ D \subseteq Things /\ f[VM] = "present"
        /\ \A c \in Ide : gen = 1 => f[Ctrl(c)] = "present"
        /\ \A t \in SecurityThings : f[t] = "off"
        /\ \A t \in {BootFirst} \cup CoreThings : f[t] = "default"
    BY FreshIs
  <2> HIDE DEF D, f
  <2> QED
    BY <2>1 DEF Ctrls
<1> HIDE DEF D, f
<1>3. \A t \in D : Parent(t) = VM /\ Ancestors[t] = {VM}
  BY <1>2, ParentOfTop, TopAncestors
<1>4. \A t \in D : host[t] = Absent
  BY <1>2, <1>3 DEF Tree
<1>5. \A t \in D : f[t] # Absent /\ f[t] \notin Vhds
  BY <1>2, NamesAssumption DEF Absent
<1>6. Accepts(host, r)
  BY <1>1, <1>2, <1>3, <1>4, <1>5 DEF Accepts, D
<1>7. ASSUME host' = Applied(host, r) PROVE \A t \in D : host'[t] = f[t]
  <2>1. DOMAIN r.set = D
    BY <1>1 DEF D
  <2>2. ~Ignored(host, r)
    <3>1. VM \notin SecurityThings
      BY Tags
    <3> QED
      BY <1>2, <2>1, <3>1 DEF Ignored
  <2>3. host' = Pruned(Laid(host, r))
    BY <1>7, <2>2, AppliedIs
  <2>4. \A t \in D : Laid(host, r)[t] = f[t]
    BY <1>1, <1>2, <2>1 DEF Laid
  <2>5. ASSUME NEW t \in D PROVE host'[t] = f[t]
    <3>1. \A u \in Ancestors[t] : Laid(host, r)[u] # Absent
      BY <1>2, <1>3, <1>5, <2>4
    <3> QED
      BY <1>2, <2>3, <2>4, <3>1, PrunedKeeps
  <2> QED
    BY <2>5
<1>8. ASSUME host' = Applied(host, r), NEW x \in Things \ D PROVE host'[x] = host[x]
  <2>1. x \in Things /\ x \notin DOMAIN r.set /\ \A t \in DOMAIN r.set : r.set[t] # Absent
    BY <1>1, <1>5, <1>8 DEF D
  <2> QED
    BY <1>8, <2>1, OthersApplied
<1> QED
  BY <1>6, <1>7, <1>8 DEF D, f

\* Defining the machine leaves the first call to be made.
LEMMA DefinitionStep ==
  ASSUME Typed, call.kind = "create", Quietly', NEW c \in Choices, Awaited(c),
         call.rest = CreatePlan(c), call.gen = c.gen, DefineSystem
  PROVE  Reached(c)'
<1> DEFINE r == Request("add", Fresh(c.gen))
           f == Fresh(c.gen)
<1>1. Tree(host) /\ host[VM] = Absent
  BY DEF Typed, Awaited
<1>2. /\ Accepts(host, r)
      /\ host' = Applied(host, r) =>
           /\ \A t \in DOMAIN f : host'[t] = f[t]
           /\ \A x \in Things \ DOMAIN f : host'[x] = host[x]
  BY <1>1, FreshAdded
<1> HIDE DEF r
<1>3. host' = Applied(host, r) /\ ((op' = Head(call.rest) /\ plan' = Tail(call.rest)) \/ hit' # hit)
  BY <1>2, Unmarked DEF DefineSystem, Invoke, WaitForJob, r
<1>4. hit' = hit
  BY <1>2, Unmarked DEF DefineSystem, Invoke, WaitForJob, r
<1>5. op' = MemoryOp /\ plan' = <<ProcessorOp>> \o FromController(c)
  <2>1. call.rest = <<MemoryOp>> \o (<<ProcessorOp>> \o FromController(c))
    BY PlansIn
  <2>2. Head(call.rest) = MemoryOp /\ Tail(call.rest) = <<ProcessorOp>> \o FromController(c)
    BY <2>1, PlansIn, Begins
  <2> QED
    BY <1>3, <1>4, <2>2
<1>6. /\ \A t \in {BootFirst} \cup CoreThings : host'[t] = "default"
      /\ host'[VM] = "present"
      /\ \A x \in Ctrls : host'[Ctrl(x)] = IF c.gen = 1 /\ x \in Ide THEN "present" ELSE Absent
      /\ \A x \in Things : x[1] \in {"drive", "medium", "port", "connection", "file"} => host'[x] = host[x]
  <2>1. /\ DOMAIN f = {VM, BootFirst} \cup CoreThings \cup SecurityThings
                        \cup (IF c.gen = 1 THEN {Ctrl(x) : x \in Ide} ELSE {})
        /\ f[VM] = "present"
        /\ \A x \in Ide : c.gen = 1 => f[Ctrl(x)] = "present"
        /\ \A t \in {BootFirst} \cup CoreThings : f[t] = "default"
    BY FreshIs
  <2> HIDE DEF f
  <2>2. /\ \A t \in DOMAIN f : host'[t] = f[t]
        /\ \A x \in Things \ DOMAIN f : host'[x] = host[x]
    BY <1>2, <1>3
  <2>3. \A t \in {BootFirst} \cup CoreThings : host'[t] = "default"
    BY <2>1, <2>2
  <2>4. host'[VM] = "present"
    BY <2>1, <2>2
  <2>5. ASSUME NEW x \in Ctrls
        PROVE  host'[Ctrl(x)] = IF c.gen = 1 /\ x \in Ide THEN "present" ELSE Absent
    <3>1. CASE c.gen = 1 /\ x \in Ide
      BY <2>1, <2>2, <3>1
    <3>2. CASE ~(c.gen = 1 /\ x \in Ide)
      <4>1. Ctrl(x) \notin DOMAIN f
        BY <2>1, <3>2, ThingsApart, Tags
      <4>2. Ctrl(x) \in Things /\ Ancestors[Ctrl(x)] = {VM}
        BY ThingsAre, TopAncestors
      <4>3. host[Ctrl(x)] = Absent
        BY <1>1, <4>2 DEF Tree
      <4> QED
        BY <2>2, <3>2, <4>1, <4>2, <4>3
    <3> QED
      BY <3>1, <3>2
  <2>6. ASSUME NEW x \in Things, x[1] \in {"drive", "medium", "port", "connection", "file"}
        PROVE  host'[x] = host[x]
    <3>1. x \notin DOMAIN f
      BY <2>1, <2>6, Tags
    <3> QED
      BY <2>2, <3>1
  <2> QED
    BY <2>3, <2>4, <2>5, <2>6
<1>7. \A x \in Things : x[1] \in {"drive", "medium", "port", "connection"} => host'[x] = Absent
  <2>1. \A x \in Things : x[1] # "file" => VM \in Ancestors[x]
    BY MachineAbove
  <2>2. \A x \in Things : x[1] # "file" => host[x] = Absent
    BY <1>1, <2>1 DEF Tree
  <2> QED
    BY <1>6, <2>2
<1>8. Frame(0)'
  BY <1>6 DEF Frame, Absent, CoreThings
<1>9. Controllers(c, 0)'
  BY <1>6 DEF Controllers
<1>10. Disks(c, 0)'
  <2>1. \A at \in Addrs : host'[Drive(at)] = Absent /\ host'[Medium(at)] = Absent
    BY <1>7, ThingsAre, Tags
  <2>2. c.file # Absent => (host'[File(c.file)] = Absent <=> c.isNew)
    <3>1. \A g \in Vhds : host'[File(g)] = host[File(g)]
      BY <1>6, ThingsAre, Tags
    <3> QED
      BY <3>1, ChoiceIs DEF Awaited
  <2> QED
    BY <2>1, <2>2 DEF Disks
<1>11. Adapter(c, 0)' /\ Image(c, 0)'
  <2>1. host'[Port(TheNic)] = Absent /\ host'[Connection(TheNic)] = Absent
    BY <1>7, ThingsAre, Tags, ChoiceIs
  <2> QED
    BY <2>1 DEF Adapter, Image
<1>12. Made(c, 0)'
  BY <1>8, <1>9, <1>10, <1>11 DEF Made
<1>13. Core1(c, 0)'
  <2>1. op'.step = "modify" /\ op'.thing = Core("memory") /\ op'.what = "set"
    BY <1>5, OpIs DEF MemoryOp
  <2> QED
    BY <1>5, <2>1 DEF Core1, ProcessorOp
<1>14. Stage(c, 0)'
  BY <1>13 DEF Stage
<1> QED
  BY <1>12, <1>14 DEF Reached

----------------------------------------------------------------------------
(* A creation from its beginning to its return.                             *)

\* Only the wizard creates.
LEMMA OthersDoNotCreate ==
  ASSUME BeginStorage \/ BeginScsi \/ BeginNetwork \/ BeginSecurity \/ BeginDestroy
  PROVE  call'.kind # "create"
<1> DEFINE Called(kind) == \E first, goal : BeginAs(kind, first, goal, 1, <<>>)
           Others == \E kind : Called(kind) /\ kind # "create"
<1> HIDE DEF Called
<1>1. ASSUME BeginStorage PROVE Others
  <2>1. \/ \E at, f, goal : Begin("attach", Op("resolve", at, VM, f), goal)
        \/ \E at, f, goal : Begin("createDisk", Op("createFile", at, VM, f), goal)
        \/ \E at, d, goal : Begin("physical", Op("resolve", at, VM, d), goal)
        \/ \E at, goal : Begin("addDvd", Op("resolve", at, VM, "dvd"), goal)
        \/ \E at, seen, iso, goal : Begin("media", Op("media", at, seen, iso), goal)
        \/ \E at, seen, goal : \E kind \in {"detach", "removeDvd"} :
             Begin(kind, Op("removeMedium", at, seen, Absent), goal)
    BY <1>1, Zenon DEF BeginStorage
  <2>2. \/ Called("attach") \/ Called("createDisk") \/ Called("physical")
        \/ Called("addDvd") \/ Called("media")
        \/ \E kind \in {"detach", "removeDvd"} : Called(kind)
    BY <2>1, Zenon DEF Begin, Called
  <2> QED
    BY <2>2
<1>2. ASSUME BeginScsi PROVE Others
  <2>1. Called("addScsi") \/ Called("removeScsi")
    BY <1>2, Zenon DEF BeginScsi, Begin, Called
  <2> QED
    BY <2>1
<1>3. ASSUME BeginNetwork PROVE Others
  <2>1. Called("addNic") \/ Called("removeNic") \/ Called("switch") \/ Called("port") \/ Called("feature")
    BY <1>3, Zenon DEF BeginNetwork, Begin, Called
  <2> QED
    BY <2>1
<1>4. ASSUME BeginSecurity PROVE Others
  <2>1. \E s \in Secrets : Called(s)
    BY <1>4, Zenon DEF BeginSecurity, Begin, Called
  <2> QED
    BY <2>1 DEF Secrets
<1>5. ASSUME BeginDestroy PROVE Others
  <2>1. Called("destroy")
    BY <1>5, Zenon DEF BeginDestroy, Begin, Called
  <2> QED
    BY <2>1
<1>6. PICK kind : Called(kind) /\ kind # "create"
  BY <1>1, <1>2, <1>3, <1>4, <1>5
<1>7. PICK first, goal : BeginAs(kind, first, goal, 1, <<>>)
  BY <1>6 DEF Called
<1> QED
  BY <1>6, <1>7 DEF BeginAs

\* What the wizard lets pass can be made.
LEMMA WizardBegins ==
  ASSUME Typed, Callers, call'.kind = "create"
  PROVE  \E c \in Choices : call'.rest = CreatePlan(c) /\ call'.gen = c.gen /\ Awaited(c)'
<1>1. BeginCreate
  BY OthersDoNotCreate DEF Callers
<1>2. PICK c \in Choices :
        /\ Validated(c) /\ watch.state = "none" /\ jobs = {}
        /\ BeginAs("create", Op("define", AnyPlace, VM, Absent), One(VM, "present"),
                   c.gen, CreatePlan(c))
  BY <1>1, Zenon DEF BeginCreate
<1>3. /\ op.step = "idle" /\ host[VM] = Absent /\ UNCHANGED <<host, plan>>
      /\ call'.rest = CreatePlan(c) /\ call'.gen = c.gen
      /\ op' = Op("define", AnyPlace, VM, Absent)
  BY <1>2 DEF BeginAs
<1>4. plan = <<>>
  <2>1. call.kind = "none"
    BY <1>3, IdleKind DEF Typed
  <2> QED
    BY <2>1 DEF Typed, KindInv
<1>5. op'.step = "define"
  BY <1>3, OpIs
<1>6. Awaited(c)'
  BY <1>2, <1>3, <1>4, <1>5 DEF Awaited, Validated
<1> QED
  BY <1>3, <1>6

\* The steps a creation takes once the machine is defined.
LEMMA CreationGoesOn ==
  ASSUME NEW c, Creating(c), NEW k \in 0 .. 11, Stage(c, k), Made(c, k), Step, ~Return
  PROVE  Reached(c)'
<1>1. op.step \in {"modify", "addCtrl", "createFile", "findDrive", "addVhd",
                   "pollLink", "resolve", "addDrive",
                   "addPort", "findPort", "addConnection", "mountFirst", "promote", "returned"}
  BY StageOf
<1>2. op.step # "returned"
  BY StepAt DEF Step
<1>3. CASE op.step = "modify"
  <2>1. SetMemoryConfig \/ SetProcessorConfig \/ SetNetworkAdapterSwitch \/ SetNetworkAdapterPort
    BY <1>3, StepAt DEF Step
  <2> QED
    BY <2>1, CoreStep
<1>4. CASE op.step = "addCtrl"
  <2>1. AddScsiController
    BY <1>4, StepAt DEF Step
  <2> QED
    BY <2>1, ControllerStep
<1>5. CASE op.step = "createFile"
  <2>1. CreateFile
    BY <1>5, StepAt DEF Step
  <2> QED
    BY <2>1, FileStep
<1>6. CASE op.step = "resolve"
  <2>1. Resolve
    BY <1>6, StepAt DEF Step
  <2> QED
    BY <2>1, ResolveStep
<1>7. CASE op.step = "addDrive"
  <2>1. AddDiskDrive \/ AddDvdDrive \/ AttachPhysicalDisk
    BY <1>7, StepAt DEF Step
  <2> QED
    BY <2>1, DriveStep
<1>8. CASE op.step = "findDrive"
  <2>1. FindDrive
    BY <1>8, StepAt DEF Step
  <2> QED
    BY <2>1, FindDriveStep
<1>9. CASE op.step = "addVhd"
  <2>1. AddVhd
    BY <1>9, StepAt DEF Step
  <2> QED
    BY <2>1, VhdStep
<1>10. CASE op.step = "pollLink"
  <2>1. PollLink
    BY <1>10, StepAt DEF Step
  <2> QED
    BY <2>1, PollLinkStep
<1>11. CASE op.step = "addPort"
  <2>1. AddPort
    BY <1>11, StepAt DEF Step
  <2> QED
    BY <2>1, PortStep
<1>12. CASE op.step = "findPort"
  <2>1. FindPort
    BY <1>12, StepAt DEF Step
  <2> QED
    BY <2>1, FindPortStep
<1>13. CASE op.step = "addConnection"
  <2>1. AddConnection
    BY <1>13, StepAt DEF Step
  <2> QED
    BY <2>1, ConnectionStep
<1>14. CASE op.step = "mountFirst"
  <2>1. MountFirst
    BY <1>14, StepAt DEF Step
  <2> QED
    BY <2>1, MountStep
<1>15. CASE op.step = "promote"
  <2>1. PromoteDvdToBootFront
    BY <1>15, StepAt DEF Step
  <2> QED
    BY <2>1, PromoteStep
<1> QED
  BY <1>1, <1>2, <1>3, <1>4, <1>5, <1>6, <1>7, <1>8, <1>9, <1>10, <1>11, <1>12, <1>13, <1>14, <1>15

\* Marks only grow.
LEMMA QuietBack == hit \subseteq hit' /\ Quietly' => Quietly
BY DEF Quietly, Marks

\* A step of a creation that met no fault makes the next of its calls.
LEMMA CreationStep ==
  ASSUME Typed, Building, Step, ~Return
  PROVE  Building'
<1>1. UNCHANGED call /\ hit \subseteq hit'
  BY CallKept
<1> SUFFICES ASSUME call.kind = "create", Quietly' PROVE Building'
  BY <1>1 DEF Building
<1>2. Quietly
  BY <1>1, QuietBack
<1>3. PICK c \in Choices :
        /\ call.rest = CreatePlan(c) /\ call.gen = c.gen
        /\ Awaited(c) \/ \E k \in 0 .. 11 : Stage(c, k) /\ Made(c, k)
  BY <1>2 DEF Building
<1>4. Reached(c)'
  <2>1. CASE Awaited(c)
    <3>1. op.step = "define"
      BY <2>1 DEF Awaited
    <3>2. DefineSystem
      BY <3>1, StepAt DEF Step
    <3> QED
      BY <1>3, <2>1, <3>2, DefinitionStep
  <2>2. ASSUME NEW k \in 0 .. 11, Stage(c, k), Made(c, k) PROVE Reached(c)'
    <3>1. op.step # "define"
      BY <2>2, StageOf
    <3>2. Creating(c)
      BY <1>3, <3>1 DEF Creating, Typed
    <3> QED
      BY <2>2, <3>2, CreationGoesOn
  <2> QED
    BY <1>3, <2>1, <2>2
<1> QED
  BY <1>1, <1>3, <1>4 DEF Building, Reached

\* Whatever is done, begun or suffered, a creation without a fault stands where its calls are made.
LEMMA BuildingStep == Typed /\ Building /\ [Next]_vars => Building'
<1> SUFFICES ASSUME Typed, Building, [Next]_vars PROVE Building'
  OBVIOUS
<1>1. CASE Callers
  <2> SUFFICES ASSUME call'.kind = "create" PROVE Building'
    BY DEF Building
  <2> QED
    BY <1>1, WizardBegins DEF Building
<1>2. CASE UNCHANGED vars
  <2> SUFFICES ASSUME call'.kind = "create", Quietly' PROVE Building'
    BY DEF Building
  <2>1. UNCHANGED <<host, op, plan, call, hit>>
    BY <1>2 DEF vars
  <2>2. PICK c \in Choices :
          /\ call.rest = CreatePlan(c) /\ call.gen = c.gen
          /\ Awaited(c) \/ \E k \in 0 .. 11 : Stage(c, k) /\ Made(c, k)
    BY <2>1 DEF Building, Quietly, Marks
  <2>3. Awaited(c) => Awaited(c)'
    BY <2>1 DEF Awaited
  <2>4. ASSUME NEW k \in 0 .. 11, Stage(c, k), Made(c, k) PROVE Stage(c, k)' /\ Made(c, k)'
    <3>1. Stage(c, k)'
      BY <2>1, <2>4 DEF Stage, Core1, Core2, CtrlAt, DiskAt, NetworkAt, MediaAt, Placed
    <3> QED
      BY <2>1, <2>4, <3>1, LookedMade
  <2> QED
    BY <2>1, <2>2, <2>3, <2>4 DEF Building
<1>3. CASE Return
  <2>1. call'.kind = "none"
    BY <1>3 DEF Return, NoCall
  <2> QED
    BY <2>1 DEF Building
<1>4. CASE Step /\ ~Return
  BY <1>4, CreationStep
<1>5. CASE JobEnds \/ DestroyEnds \/ DeleteVhdFilesBestEffort \/ Foreign
  <2> SUFFICES ASSUME call'.kind = "create", Quietly' PROVE FALSE
    BY DEF Building
  <2>1. UNCHANGED call
    BY <1>5 DEF JobEnds, DestroyEnds, DeleteVhdFilesBestEffort, Foreign
  <2>2. ~Prompt'
    BY <1>5, <2>1, PromptAlone
  <2> QED
    BY <2>2 DEF Prompt, Clean, Quietly
<1> QED
  BY <1>1, <1>2, <1>3, <1>4, <1>5 DEF Next, Callers

\* No creation has begun.
LEMMA BuildingInit == Init => Building
<1> SUFFICES ASSUME Init PROVE Building
  OBVIOUS
<1>1. call = NoCall
  BY Zenon DEF Init
<1> QED
  BY <1>1 DEF Building, NoCall

\* Each call of the plan has done what it was for, when all are made.
LEMMA PlanCarried ==
  ASSUME NEW c \in Choices, Made(c, 11)
  PROVE  \A i \in DOMAIN CreatePlan(c) : Carried(CreatePlan(c)[i])
<1> DEFINE D == {o \in CreateOps : Carried(o)}
<1>1. Carried(MemoryOp) /\ Carried(ProcessorOp)
  <2>1. \A s : Op("modify", AnyPlace, Core(s), "set").what \notin Vhds
    BY OpIs, NamesAssumption
  <2>2. \A s : host[Core(s)] = "set" => Carried(Op("modify", AnyPlace, Core(s), "set"))
    BY <2>1, OpIs DEF Carried
  <2> QED
    BY <2>2 DEF Made, Frame, MemoryOp, ProcessorOp
<1>2. ASSUME c.gen = 2 PROVE Carried(ControllerOp)
  <2>1. host[Ctrl(TheScsi)] = "present"
    BY <1>2, ChoiceIs DEF Made, Controllers
  <2>2. ControllerOp.step = "addCtrl" /\ ControllerOp.thing = Ctrl(TheScsi) /\ ControllerOp.what = "present"
    BY OpIs DEF ControllerOp
  <2>3. "present" \notin Vhds
    BY NamesAssumption
  <2> QED
    BY <2>1, <2>2, <2>3 DEF Carried
<1>3. ASSUME c.file # Absent PROVE Carried(DiskOp(c))
  <2>1. \E at \in Addrs : host[Drive(at)] = "disk" /\ host[Medium(at)] = c.file
    BY <1>3 DEF Made, Disks
  <2>2. DiskOp(c).step \in {"createFile", "resolve"} /\ DiskOp(c).what = c.file
    BY OpIs DEF DiskOp
  <2>3. c.file \in Vhds
    BY <1>3, ChoiceIs
  <2> QED
    BY <2>1, <2>2, <2>3 DEF Carried
<1>4. ASSUME c.switch # Absent PROVE Carried(AdapterOp(c))
  <2>1. host[Connection(TheNic)] = c.switch
    BY <1>4 DEF Made, Adapter
  <2>2. AdapterOp(c).step = "addPort" /\ AdapterOp(c).thing[2] = TheNic /\ AdapterOp(c).what = c.switch
    BY OpIs DEF AdapterOp, Port
  <2>3. c.switch \notin Vhds
    BY <1>4, ChoiceIs, NamesAssumption
  <2> QED
    BY <2>1, <2>2, <2>3 DEF Carried
<1>5. ASSUME c.iso # Absent PROVE Carried(DvdOp) /\ Carried(Mount(c))
  <2>1. Carried(DvdOp)
    <3>1. DvdOp.step = "resolve" /\ DvdOp.what = "dvd"
      BY OpIs DEF DvdOp
    <3>2. "dvd" \notin Vhds
      BY BoundsAssumption
    <3> QED
      BY <3>1, <3>2 DEF Carried
  <2>2. Carried(Mount(c))
    <3>1. /\ \E at \in Addrs : host[Medium(at)] = c.iso
          /\ IsGen1 \/ Cardinality(Bootable) < 2 \/ host[BootFirst] = "on"
      BY <1>5 DEF Made, Image
    <3>2. Mount(c).step = "mountFirst" /\ Mount(c).what = c.iso
      BY OpIs DEF Mount
    <3>3. c.iso \notin Vhds
      BY <1>5, ChoiceIs, NamesAssumption
    <3> QED
      BY <3>1, <3>2, <3>3 DEF Carried
  <2> QED
    BY <2>1, <2>2
<1>6. /\ MemoryOp \in D /\ ProcessorOp \in D /\ (c.gen = 2 => ControllerOp \in D)
      /\ c.file # Absent => DiskOp(c) \in D
      /\ c.switch # Absent => AdapterOp(c) \in D
      /\ c.iso # Absent => DvdOp \in D /\ Mount(c) \in D
  BY <1>1, <1>2, <1>3, <1>4, <1>5, PlansIn
<1>7. \A o \in D : Carried(o)
  OBVIOUS
<1> HIDE DEF D
<1>8. CreatePlan(c) \in Seq(D)
  BY <1>6, BlocksIn
<1>9. \A i \in DOMAIN CreatePlan(c) : CreatePlan(c)[i] \in D
  BY <1>8
<1> QED
  BY <1>7, <1>9

\* A creation that returned has made all its calls.
LEMMA BuiltIsComplete == Building => CreatedIsComplete
<1> SUFFICES ASSUME Building, op.step = "returned", call.kind = "create", Quietly
             PROVE  op.ok /\ \A i \in DOMAIN call.rest : Carried(call.rest[i])
  BY DEF CreatedIsComplete, Returned, Quietly
<1>1. PICK c \in Choices :
        /\ call.rest = CreatePlan(c) /\ call.gen = c.gen
        /\ Awaited(c) \/ \E k \in 0 .. 11 : Stage(c, k) /\ Made(c, k)
  BY DEF Building
<1>2. PICK k \in 0 .. 11 : Stage(c, k) /\ Made(c, k)
  BY <1>1 DEF Awaited
<1>3. k = 11 /\ op.ok
  BY <1>2 DEF Stage, Core1, Core2, CtrlAt, DiskAt, NetworkAt, MediaAt, Placed
<1> QED
  BY <1>1, <1>2, <1>3, PlanCarried

\* A machine created without a fault, whose calls Hyper-V all answered at once,
\* has everything the wizard was told: memory and processor are set, the disk
\* is attached, the adapter is on its switch, the installation image is in a
\* drive and the machine boots from it.  No call in that order meets a machine
\* that is not ready for it, so CreateVM, which goes on after a refusal and
\* reports success all the same, has none to go on after.
THEOREM CreationsComplete == Spec => []CreatedIsComplete
<1>1. Init => Typed /\ Building
  BY TypedInit, BuildingInit
<1>2. Typed /\ Building /\ [Next]_vars => (Typed /\ Building)'
  BY TypedStep, BuildingStep
<1> QED
  BY <1>1, <1>2, BuiltIsComplete, PTL DEF Spec

=============================================================================
