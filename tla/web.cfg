SPECIFICATION Spec
CONSTANTS
  Pages = {"document", "evidence", "case", "users", "queue", "inbox", "cases",
           "mine", "verify", "activate", "picker", "session"}
  Visitors <- MCVisitors
  Clicks = {c1, c2}
  Fetches = {f1, f2}
  MaxTyped = 3
  Callers = {k1, k2}
  WebUsers = {ua, ub}
  Nobody = Nobody
  MaxSessions = 2
  MaxTokens = 3
  MaxSurprises = 2
INVARIANTS
  ShownIsOwnWrites
  MemberSeesPage
  RefusedOnlyWithoutSession
  AnswersAreForShownUser
SYMMETRY Symmetry
CHECK_DEADLOCK FALSE
