SPECIFICATION PartsSpec
CONSTANTS
  ToRun = {"engine", "supervisor", "backup", "binding", "provisioning", "inspection", "plan", "template", "runtipi", "caprover", "review", "recipe", "offer", "legacy", "tail", "runner", "onboarding", "catalogue"}
  Apps = {x, y}
  MaxTokens = 2
  Dockers = {"docker", "other"}
  Callers = {a, b}
  Workers = {v, w}
  NoOne = NoOne
  MaxVersion = 2
  Names = {"old", "new", "both"}
  Repositories = {"mine", "theirs"}
  MaxRedirects = 2
  MaxCommits = 1
  MaxRenames = 3
  CatalogueNames = {"one", "two", "three"}
  LargestPage = 2
  Pages = {"welcome", "engine"}
  MaxPieces = 1
  MaxCaptured = 1
  PipeRoom = 2
  MaxWritten <- SampleWritten
  PlainNames = {"app", "db", "files", "store", "inside"}
  Pinned <- Images
  FirstPort = 4
  LastPort = 8
  Numerals <- SampleNumerals
  MaxCompanions = 2
  Attempts = 2
  LeastMemory = 6
  SecretLengths = {16, 32}
  Folders <- SampleFolders
  Links <- SampleLinks
  SystemRoots = {"etc"}
  Home <- SampleHome
  Managed <- SampleManaged
  Templates <- Revisions
  SomeAnswers <- SampleAnswers
  Ports = {5, 6, 7}
  MaxMade = 2
  RefusedKeys = {"privileged"}
  NotModelledKeys = {"logging"}
  SystemTargets = {"etc"}
  Offset = 4
  LibraryKey <- SampleLibraryKey
  FirstStart = 1
  MaxFirstStart = 2
  Memory = {6, 7}
  Cpu = {1}
  Pids = {1}
INVARIANTS AppsKeepTheirEngine ChoiceIsKept WayOut SnapshotsAreOneMoment NoMixing InstallsAreWhole PlansComeUp DefinitionsAreKept ApprovalIsOwn ShownIsWhole RunsReport
PROPERTIES OthersStay StopIsObeyed ReinstallKeeps
CHECK_DEADLOCK FALSE
