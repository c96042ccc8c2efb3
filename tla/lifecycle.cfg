SPECIFICATION Spec
CONSTANTS
  Ids = {a}
  SystemIds = {a}
  Versions = {"v1", "v2"}
  Pids = {p, q}
  None = None
  MaxJobs = 2
  Requests = {"toggle", "install", "update", "uninstall", "preview", "relaunch", "cli_install", "cli_uninstall"}
SYMMETRY ProcSymmetry
INVARIANTS
  TypeOK
  AtMostOneProcess
  NoOrphanProcess
  Converged
  IInv
PROPERTIES
  NoSwapUnderProcess
  ImplementsSlots
