SPECIFICATION Spec
CONSTANTS
  Ids = {a}
  SystemIds = {}
  Versions = {"v1"}
  Pids = {p, q}
  None = None
  MaxJobs = 1
  Requests = {"toggle", "cli_uninstall"}
INVARIANT RemovedStateForgotten
CHECK_DEADLOCK FALSE
