SPECIFICATION Spec
CONSTANTS
  \* Pairing
  NoOne = NoOne
  PairDevices = {p1, p2, p3}
  Codes = {c1, c2}
  TTL = 1
  MaxGroups = 2
  MaxRestarts = 1
  \* RuleFiles
  Torn = Torn
  Folders <- TwoFolders
  Leaf = "leaf"
  Chain <- TwoChain
  Kinds = {"leg", "meta"}
  Writers = {w1, w2}
  MaxCommands = 3
  MaxCrashes = 1
  \* SourceTree
  Paths <- TreePaths
  NoFile = NoFile
  Temp <- TempPath
  FileNames = {"n"}
  Keys = {"k"}
  MaxItems = 3
  MaxSteps = 4
  MaxStops = 1
  \* SearchWindow
  TableRows = {1, 2, 3, 4}
  RowsAtStart = {1, 2, 4}
  Searches <- TwoSearches
  EditedRows = {4}
  Page = 1
  NotLoaded = NotLoaded
  Unread = Unread
  MaxQueries = 3
  MaxChanges = 2
  MaxRebuilds = 1
  \* Dedupe
  Exports = {1, 2, 3, 4}
  FileGroups <- TwoGroups
  StatedSpan <- Spans
  RecordKeys = {"a", "b", "c"}
  BlankRow = BlankRow
  NoSpan = NoSpan
  Gone = Gone
  NoRun = NoRun
  ExportContents <- Statements
  Replacements <- Corrected
  MaxExportEdits = 1
INVARIANTS JoinedOnce RulesSurvive HiddenStaysHidden NothingLost
           SettledTableIsCurrent RecordsSurvive
PROPERTIES LinkWins
CHECK_DEADLOCK FALSE
SYMMETRY WriterSymmetry
