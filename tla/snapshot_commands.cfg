SPECIFICATION StatusSpec
CONSTANTS
  Clients = {cli}
  Registries = {own}
  Projects <- ProjectsMC
  Files <- FilesMC
  Names <- NamesMC
  FileOf <- FileOfMC
  ScanOrder <- ScanOrderMC
  Mentions <- MentionsMC
  None = None
  Cli = cli
  CliRegistry = own
  MaxCommands = 4
  MaxChanges = 1
  cli = cli
  own = own
  app = app
  tool = tool
  f1 = f1
  f2 = f2
  p1 = p1
  p2 = p2
  q2 = q2
INVARIANTS CommandTypeOK MarkIsHonest OneInstalled
PROPERTIES ScansKeepStatus SnapshotsSurvive
CHECK_DEADLOCK FALSE
