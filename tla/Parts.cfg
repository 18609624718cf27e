CONSTANTS
  Parts = {"slack", "bus", "migrations", "index", "tools", "github"}
  Scenarios <- AllScenarios
  Bot = Bot
  NoUser = NoUser
  alice = alice
  carol = carol
  general = general
  r1 = r1
  r2 = r2
  w1 = w1
  d1 = d1
  ea = ea
  eb = eb
  ec = ec
  app = app
  cli = cli
  q = q
  old = old
  new = new
  c1 = c1
  c2 = c2
  None = None
  NoOne = NoOne
  Absent = Absent
  Processes = {app, cli}
  SetsOf <- BothPrograms
  Statements <- TwoStatements
  NativeNames <- OwnTools
  ServerLists <- AdvertisedLists
  Prefix <- ServerPrefix
  ReplyName <- ReplyToolName
  NameCap = 4
  Schemes = {"slack", "tui", "none"}
  Handlers <- Surfaces
  Recorders = {r1, r2}
  Workers = {w1}
  Drainers = {d1}
  Events = {ea, eb, ec}
  EventOf <- TwoRecorders
  HandlersOf <- UpToTwo
  Follow <- OneFollows
  QueueCap = 1
  Ids = {1, 2}
  Contents = {old, new}
  Queries = {q}
  MatchesOf <- AsksForNew
  Limit = 2
  Calls = {c1, c2}
  Inputs <- AskedFor
  Issues <- ThreeIssues
  IdOf <- NextNumber
  Milestones = {1}
  Before <- BlockedBefore
  PageSize = 2
  Life = 2
  Margin = 1
  MaxClock = 2
SPECIFICATION FairPartsSpec
INVARIANTS AckedIsKept NothingSilentlyMissing ThreadIsOneSession NilMeansHandled SchemaSound MemorySound CallsReachTheirTool GithubSound
PROPERTIES AllAcknowledged ShutdownEnds
CHECK_DEADLOCK FALSE
