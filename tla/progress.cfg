SPECIFICATION FairSpec
CONSTANTS
  Ids = {a}
  SystemIds = {}
  Versions = {"v1"}
  Pids = {p, q}
  None = None
  MaxJobs = 2
  Requests = {"toggle", "install", "uninstall", "preview", "relaunch"}
INVARIANTS
  RemovedStateForgotten
PROPERTIES
  DisabledStaysDisabled
  JobsRelease
