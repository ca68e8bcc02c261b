\* The daemon and an `ingest --once`, and two clients of one agent.
CONSTANTS
  Notebooks = {nb1}
  page = 1
  other = 2
  PageIds = {1, 2}
  Hashes = {h1, h2}
  Revisions = {rev}
  Snapshots <- MCSnapshots
  Agents = {a1}
  None = None
  MaxChanges = 2
  Ingesters = {p1, p2}
  Clients = {c1, c2}
  AgentOf <- MCAgentOf
SPECIFICATION ProcessSpec
SYMMETRY MCSymmetry
INVARIANTS
  ProcessTypeOK
  CommittedPagesAreServed
  CursorWithinLog
PROPERTIES
  ImplementsLedger
CHECK_DEADLOCK FALSE
