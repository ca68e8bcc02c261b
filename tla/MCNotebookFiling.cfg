\* Two pages and one that the device adds, two targets, stops anywhere.
CONSTANTS
  Pages = {1, 2, blank}
  Blank = blank
  Source = quick
  InitialPages = {1}
  Targets = {t1, t2}
  NoTarget = review
  MaxEdits = 1
  MaxOperations = 2
  MaxCopies = 2
SPECIFICATION FilingSpec
CONSTRAINT FewMoves
SYMMETRY TargetSymmetry
INVARIANTS
  FilingTypeOK
  NoPageLost
  LedgerIsHonest
  EveryCopyIsAccountedFor
CHECK_DEADLOCK FALSE
