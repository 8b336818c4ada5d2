CONSTANTS
  w1 = w1
  w2 = w2
  Writers = {w1, w2}
  Fold <- MCFold
  GraphBatches <- MCGraphBatches
  MaxBatches = 2
  MaxGraphFailures = 1
  MaxGraphRestarts = 1
  Answers <- MCAnswers
  NoId = none
  Inputs <- MCInputs
  Answered = {"text", "reasoning", "media", "call", "calls"}
  Seen = {}
  Multimodal = {"image"}
  KeepLastN = 2
  MinMessages = 1
  MaxAttempts = 1
  MaxSteps = 2
  MaxRuns = 2
  MaxMessages = 6
  MaxFull = 1
  MaxConvRestarts = 1
  c1 = c1
  c2 = c2
  Clients = {c1, c2}
  ConfigEdits <- MCEdits
  HandFiles <- MCHandFiles
  MaxPuts = 2
  MaxHandEdits = 1
  MaxWriteFailures = 1
  MaxConfigRestarts = 1
  Attachments <- MCAttachments
  ModelConfigs <- MCModelConfigs
  MediaSessions = {"s", "t"}
  MediaIds = {"i"}
  MaxMediaSteps = 4
  l1 = l1
  l2 = l2
  Loops = {l1, l2}
  Servers = {"a", "a_b"}
  ServerTools <- MCServerTools
  Users <- MCUsers
  StateTools <- MCStateTools
  MaxToolRuns = 2
  Values <- MCValues
  Before <- MCBefore
  After <- MCAfter
  Prompts <- MCPrompts
  TakenMimes = {"", "image/png", "image/gif", "video/mp4", "audio/wav"}
  Replies <- MCReplies
  MaxPrompts = 2
  MaxRounds = 1
  PlanIds = {"p", "q"}
  TaskIds = {"t"}
  MaxTurns = 2
  MaxToolEnds = 5
  AgentLoops = {x, y}
  Apps = {app}
  KeepLast = 1
  MinMessagesToCompress = 1
  MaxSaid = 3
  MaxDeaths = 1
  MaxFaults = 1
  NoMem = NoMem
INIT MCInit
NEXT MCNext
INVARIANTS StreamWhole MediaRight ReplyDecoded SessionKept
PROPERTIES GraphSound ConversationUsable SettingsKept ToolsRight ClientInformed PlanShown LogSpec
CHECK_DEADLOCK FALSE
