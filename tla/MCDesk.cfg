\* All seven parts, the accounts with two requests at once and five in all; a desk at rest is a desk that may stay at rest.
SPECIFICATION Spec
CONSTANTS
  Parts = {"rules", "lists", "toasts", "progress", "pane", "accounts", "intent"}
  Accounts = {"a", "b"}
  Root = "a"
  Roles = {"admin", "viewer"}
  Slots = {1, 2}
  RequestsLimit = 5
  Remembered <- Before
  Desks = {1, 2}
  Cases = {"k", "l", "n"}
  TermsOf <- Subjects
  Keywords = {"t"}
  Phrases <- Told
  MinRejects = 2
  MinAccepts = 1
  FirstStudy = 2
  NextStudy = 1
  ExclusionLimit = 2
  Decisions = 2
  Mishaps = 1
  ListCards = {"c", "d"}
  LoadsMax = 5
  ActionsMax = 2
  LinkFaults = 1
  News = {"e", "f"}
  Deadline = {"e"}
  Seeded = {"f"}
  PollsMax = 3
  RequestsMax = 2
  PollFaults = 1
  PaneCards = {"c"}
  CallsMax = 4
  PaneFaults = 1
INVARIANTS AcceptedIsSaved ConsoleIsTrue NoticedOnce AlwaysAnAdmin VerdictIsEarned ModelDropsNothing
PROPERTIES AnswerIsFinal ListsMoveForward
CHECK_DEADLOCK FALSE
