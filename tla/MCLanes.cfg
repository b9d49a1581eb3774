SPECIFICATION Spec
CONSTANTS
  Parts = {"pipe", "health", "control", "butb"}
  Lanes = {"goszakupki"}
  Fallback = "goszakupki"
  Missing = {"butb"}
  Calls = {"sources", "card", "get", "file", "page", "p1", "p2"}
  Plan <- PipePlan
  Probes = {"p1", "p2"}
  Every = 1
  Stale = 2
  Registering = {"goszakupki"}
  Cabinets <- InTurn
  Profiles <- ProfilesOf
  Threshold = 3
  Cooldown = 2
  Callers = {1, 2}
  Terms <- Sought
  Barren = {"kru"}
  FailuresMax = 2
  CallsLimit = 2
  Deaths = 1
  Breaks = 1
INVARIANTS PipesKeepTheirWord OneRequestAtATime
PROPERTIES AnswersAreOnesOwn EveryCallSettles PassesGoOn
CHECK_DEADLOCK FALSE
