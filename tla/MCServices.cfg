\* One service at a time.
CONSTANTS
  Services = {"folder", "health", "session", "tasks", "organizer", "renderer", "codec"}
  MaxContents = 3
  MaxEvents = 3
  Statuses = {401, 500, malformed}
  MaxPosts = 5
  Callers = {c1, c2}
  HostOf <- MCHostOf
  Nobody = nobody
  MaxFaults <- MCMaxFaults
  Issues = {i1, i2}
  MaxTicks = 2
  MaxLinear = 1
  MaxDisturbances = 1
  Blank = blank
  Notebooks = {"A", "B"}
  FirstInks = {"a1", "a2", "b1"}
  InitialNote <- MCInitialNote
  NewInks = {"d1"}
  Clients = {browser1, browser2}
  MaxTrouble = 1
  MaxRequests = 2
  Words <- MCWords
  Lines <- MCLines
  Texts <- MCTexts
  WidthOf <- MCWidthOf
  HeightOf <- MCHeightOf
  MaxWidth = 4
  MaxHeight = 3
  EdgeWidth = 5
  Base = 2
  Palette <- MCPalette
  Background = 4
  Bitmaps <- MCBitmaps
SPECIFICATION ServicesSpec
INVARIANTS
  QuietMeansTaken
  RecoveryIsOnTheBus
  FaultsAreAbsorbed
  EveryTickCompletesOnce
  NoteShowsIssues
  NoInkLost
  FootersFollowTheirPages
  AnswerIsDrawnWhole
  BitmapRoundTrips
CHECK_DEADLOCK FALSE
