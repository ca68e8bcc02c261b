\* A page inserted before another one and removed again.
CONSTANTS
  Notebooks = {nb1}
  Notebook = nb1
  PageIds = {1, 2}
  Hashes = {h1}
  Revisions <- MCRevisions
  Snapshots <- MCSnapshots
  Deployments <- MCIndexKey
  Pollers = {d}
  OnceRuns = {}
  Watchers = {}
  MaxPages = 1
  MayRestart = FALSE
  Agents = {}
  None = None
  MaxChanges = 10
SPECIFICATION IngestSpec
INVARIANTS
  ServedRowIsOfThePage
CHECK_DEADLOCK FALSE
