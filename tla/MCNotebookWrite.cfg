\* Appends and replacements, an organizer, the device and a crash.
CONSTANTS
  Service = svc
  Organizers = {org}
  Kinds = {"append", "replace_pages"}
  None = None
  MaxRequests = 2
  MaxDisturbances = 1
SPECIFICATION FairWriteSpec
INVARIANTS
  WriteTypeOK
  NoRequestAppliedTwice
PROPERTIES
  CompletedAppendExtendsItsBase
  EveryRequestIsAnswered
CHECK_DEADLOCK FALSE
