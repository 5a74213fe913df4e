SPECIFICATION ViewSpec
CONSTANTS
  Clients = {cli, gui}
  Registries = {own, g1, g2, g3}
  Projects <- ProjectsMC
  Files = {f1, f2}
  Names <- NamesMC
  FileOf <- FileOfMC
  ScanOrder <- ScanOrderMC
  Mentions <- MentionsMC
  None = None
  Cli = cli
  CliRegistry = own
  Gui = gui
  Watched = p1
  MaxCommands = 1
  MaxChanges = 0
  MaxClicks = 2
  MaxJobs = 2
  cli = cli
  gui = gui
  own = own
  g1 = g1
  g2 = g2
  g3 = g3
  app = app
  f1 = f1
  f2 = f2
  p1 = p1
  p2 = p2
INVARIANTS ViewTypeOK ShownAgrees
PROPERTY SavedIsShown
CHECK_DEADLOCK FALSE
