SPECIFICATION Spec
CONSTANTS
  a = a  b = b  d = d
  a1 = a1  a2 = a2  b1 = b1  ma = ma  mb = mb  mc = mc
  NoFile = NoFile  Torn = Torn
  Folders <- TwoFolders
  Dirs <- OneDir
  Above <- Under
  SetOf <- TwoSets
  CsvRows <- Csv2
  ManualIds <- NoManual
  SwapOf <- WithinCsv
  Mentions <- NoMentions
  Env = {"csv", "dropcsv", "dirrules", "script", "dropscript", "concurrent", "hint"}
  MaxVersion = 1
  MaxClock = 3
  MaxCrash = 0
INVARIANTS EarlyExitSound LayerTwoSound EntrySound
PROPERTIES WarmEqualsCold ScopedEqualsFull
