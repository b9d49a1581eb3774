\* All parts, the cabinet with two profiles, one card and one fault; the jobs and the bot's loop and the watch pass are fair.
SPECIFICATION ApiSpec
CONSTANTS
  Parts = {"cabinet", "bot", "search", "ingest", "watch"}
  Absent = Absent
  Statuses = {"open", "closed"}
  Prices = {"low", "high"}
  Urls = {1, 2}
  Subjects <- OneAtATime
  Posts <- Moves
  Contents = 2
  LastDay = 2
  Visits = 1
  Misses = 1
  Profiles = {"p", "q"}
  Cards = {"c"}
  QueueMax = 2
  Faults = 1
  Searches = {"a", "b"}
  Hits = {1}
  RunFaults = 1
  Users = {"u", "v"}
  Chats = {"x"}
  Codes = {"cu", "cv"}
  CodeOf <- OfTheCodes
  Owner = "u"
  Events = {"e"}
  Urgent = {}
  Kinds = {"reject"}
  UpdatesMax = 2
  Restarts = 1
  Files <- Papers
  Listed = {"spec", "pack"}
  Members <- InPapers
  Links <- PaperLinks
  UnpackDepth = 2
  LinkDepth = 2
  LinkBudget = 2
  Jobs = 3
  Upsets = 3
INVARIANTS InboxIsTrue DeletedStaysDeleted DecidedCardIsKept StoreCatchesUp ToldOnceHandledOnce TriagedLeavesQueue LinksAreBounded
PROPERTIES UpdatesAreHandled SupersededIsSilent RunSettles ReadStaysRead NewsIsFound
CHECK_DEADLOCK FALSE
