\* One append whose upload fails after the Cloud copy was deleted.
CONSTANTS
  Service = svc
  Organizers = {}
  Kinds = {"append"}
  None = None
  MaxRequests = 1
  MaxDisturbances = 0
SPECIFICATION WriteSpec
INVARIANT MissingOnlyDuringUpload
CHECK_DEADLOCK FALSE
