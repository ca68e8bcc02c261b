\* Three pages: every permutation, addition and removal, and edits of one; or
\* whole-notebook reads of one or two, then a guarded write.
CONSTANTS
  Notebooks = {nb1}
  PageIds = {1, 2, 3}
  Hashes = {h1, h2}
  Revisions = {r1, r2, r3}
  Snapshots <- MCSnapshots
  Agents = {a1}
  Clients = {a1}
  Commands = {"latest", "all", "since", "agent", "advance"}
  None = None
  MaxChanges = 4
SPECIFICATION LedgerReadsSpec
SYMMETRY RevisionSymmetry
INVARIANTS
  LedgerTypeOK
  LogReproducesPages
  ChangesChain
  PagesMatchRevision
  ReadTypeOK
  AcceptedWriteSawCurrentPages
PROPERTIES
  EveryChangeIsLogged
  NoSpuriousReorder
CHECK_DEADLOCK FALSE
