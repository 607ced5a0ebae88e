SPECIFICATION Spec
CONSTANTS
  Parts = {"profile", "mcp", "login", "upstream", "repair", "tools"}
  Warmer = {w1, w2}
  LoginThread = {l1, l2}
  NoUser = NoUser
  MaxCalls = 1
  Caller = {c1, c2}
  MaxIds = 3
  MaxReadings = 3
  MaxPieces = 3
  MaxLength = 6
  MaxBare = 3
  Page <- Pages
  Envelope <- SentEnvelopes
  Tools <- OfferedTools
  Wanted <- WantedCalls
INVARIANTS
  ComponentsTypeOK OneBrowserPerProfile OwnAnswer VerdictEarned ReplyReassembled
  BanAnswered RepairsSafe CallsRecovered CutNoticed
PROPERTY EveryCallerReturns
CHECK_DEADLOCK FALSE
