CONSTANTS
  Ide = {"ide0"}
  Scsi = {"scsi0"}
  IdeSlots = 2
  ScsiSlots = 2
  Nics = {"nic1"}
  Switches = {"lan"}
  Vhds = {"sys.vhdx"}
  Isos = {"setup.iso"}
  Raw = {"disk7"}
  Features = {"vlan", "security", "bandwidth", "offload"}
  Kinds = {"attach", "createDisk", "physical", "addDvd", "media", "detach", "removeDvd",
   "addScsi", "removeScsi", "addNic", "removeNic", "switch", "port", "feature",
   "tpm", "encrypt", "shield", "create", "destroy"}
  MaxEdits = 1
  MaxFaults = 1
  MaxJobs = 2
SPECIFICATION Spec
INVARIANTS TypeOK PromptTrueIsApplied AttachIsAllOrNothing CreatedIsComplete FilesOutliveVm
CHECK_DEADLOCK FALSE
