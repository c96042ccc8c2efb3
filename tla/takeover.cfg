SPECIFICATION Spec
CONSTANTS
  Ids = {a}
  SystemIds = {a}
  Versions = {"v1"}
  Pids = {p, q}
  None = None
  MaxJobs = 1
  Requests = {"toggle", "cli_uninstall"}
PROPERTY DisabledStaysDisabled
