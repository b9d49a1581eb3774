\* As many unreadable cases as a pass reads; nothing else goes wrong.
SPECIFICATION ScansSpec
CONSTANTS
  Scans = {"rota"}
  Procedures <- AllRows
  PageSize = 2
  Floor = 2
  Questions <- MCQuestions
  SiteLists <- MCListings
  PhraseLimit = 2
  PhrasePages = 2
  PhraseEvents = 2
  Subjects <- SomePhrases
  Filtered <- MCFiltered
  Titled = {2, 3, 5}
  SubjectLimit = 3
  SubjectPages = 4
  SubjectEvents = 2
  Tables <- MCTables
  DayOf <- MCDayOf
  Matching <- MCMatching
  RegistryLimit = 7
  RegistryPages = 5
  RegistryEvents = 3
  DeepLimit = 2
  DeepPages = 3
  DeepEvents = 2
  Lanes <- OneLane
  KeywordBlind <- OneLane
  CursorsDurable = TRUE
  Limit = 1
  MaxPages = 2
  Margin = 0
  Bootstrap = 1
  MaxTime = 1
  MaxRows = 3
  MaxEdits = 1
  MaxFaults = 1
  Cases = {"a", "b", "c"}
  WatchLimit = 2
  Withdrawn <- AsManyAsRead
  Decisions = 0
  Visits = 0
  Misses = 0
PROPERTIES TailIsCovered
CHECK_DEADLOCK FALSE
