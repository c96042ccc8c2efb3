SPECIFICATION Spec
CONSTANTS
  Ids = {a, b}
  SystemIds = {}
  Versions = {"v1"}
  Pids = {p, q}
  None = None
  MaxJobs = 1
  Requests = {"preview"}
INVARIANT OnePreviewProcess
