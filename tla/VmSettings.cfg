CONSTANTS
  Edited = {"name", "memory size", "secure boot", "tpm", "shield", "checkpoint location", "paging location", "medium", "mac", "rdp override", "rdp options"}
  Shared = {"memory weight", "shield"}
  Odd = {"template", "memory weight", "switch"}
  Ide = {"ide0"}
  Scsi = {"scsi0", "scsi1"}
  Slots = {0, 1}
  MaxEdits = 2
  MaxTrouble = 1
SPECIFICATION Spec
INVARIANTS TypeOK ClosedMeansApplied QueuedPlacesDistinct RdpChangeReconnects
PROPERTIES UneditedKept ReopenShowsSaved
