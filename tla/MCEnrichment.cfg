\* Two mirrored pages, one of which the model refuses, and one that is not
\* mirrored; two revisions of each.
CONSTANTS
  Pages = {p1, p2, p3}
  SyncedPages = {p1, p2}
  Refused = {p2}
  MaxRevision = 2
  MaxUpserts = 4
SPECIFICATION EnrichSpec
INVARIANTS
  EnrichTypeOK
  CleanIsMirrored
PROPERTY ImplementsMirror
CHECK_DEADLOCK FALSE
