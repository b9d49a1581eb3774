\* The watch pass alone: a page loses its badge.
SPECIFICATION ApiSpec
CONSTANTS
  Parts = {"watch"}
  Absent = Absent
  Statuses = {"open", "closed"}
  Prices = {"low", "high"}
  Urls = {1, 2}
  Subjects <- OneAtATime
  Posts <- Moves
  Contents = 2
  LastDay = 2
  Visits = 1
  Misses = 1
  Profiles = {"p", "q"}
  Cards = {"c"}
  QueueMax = 2
  Faults = 1
  Searches = {"a", "b"}
  Hits = {1}
  RunFaults = 1
  Users = {"u", "v"}
  Chats = {"x"}
  Codes = {"cu", "cv"}
  CodeOf <- OfTheCodes
  Owner = "u"
  Events = {"e"}
  Urgent = {}
  Kinds = {"reject"}
  UpdatesMax = 2
  Restarts = 1
  Files <- Papers
  Listed = {"spec", "pack"}
  Members <- InPapers
  Links <- PaperLinks
  UnpackDepth = 2
  LinkDepth = 2
  LinkBudget = 2
  Jobs = 3
  Upsets = 3
INVARIANTS StatusIsNotWiped
CHECK_DEADLOCK FALSE
