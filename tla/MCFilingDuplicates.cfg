\* A run stops after an upload, and the next one repeats it.
CONSTANTS
  Pages = {1, blank}
  Blank = blank
  Source = quick
  InitialPages = {1}
  Targets = {t1}
  NoTarget = review
  MaxEdits = 0
  MaxOperations = 3
  MaxCopies = 3
SPECIFICATION FilingSpec
CONSTRAINT FewMoves
SYMMETRY TargetSymmetry
INVARIANT OperationsCopyOnce
CHECK_DEADLOCK FALSE
