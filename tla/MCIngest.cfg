\* The daemon alone, with any arrangement of two pages or with three pages that
\* shift, or a capped once run beside a callback of the watcher.
CONSTANTS
  Notebooks = {nb1}
  Notebook = nb1
  PageIds = {1, 2, 3}
  Hashes = {h1, h2}
  Revisions <- MCRevisions
  Snapshots <- MCSnapshots
  Deployments <- MCIngest
  Pollers = {d}
  OnceRuns = {o}
  Watchers = {w}
  MaxPages = 1
  MayRestart = TRUE
  Agents = {}
  None = None
  MaxChanges = 10
SPECIFICATION IngestSpec
INVARIANTS
  IngestTypeOK
  ReadyWasTranscribed
  ReadyTextIsOfThePage
  RowTextIsOfItsRevision
CHECK_DEADLOCK FALSE
