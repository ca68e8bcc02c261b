\* A daemon that is never restarted, or once runs repeated by hand.
CONSTANTS
  Notebooks = {nb1}
  Notebook = nb1
  PageIds = {1, 2}
  Hashes = {h1, h2}
  Revisions <- MCRevisions
  Snapshots <- MCSnapshots
  Deployments <- MCLive
  Pollers = {d}
  OnceRuns = {o}
  Watchers = {}
  MaxPages = 1
  MayRestart = FALSE
  Agents = {}
  None = None
  MaxChanges = 10
SPECIFICATION FairIngestSpec
PROPERTIES
  EditsReachTheLedger
  BackfillHeals
CHECK_DEADLOCK FALSE
