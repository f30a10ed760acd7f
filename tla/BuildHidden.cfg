SPECIFICATION Spec
CONSTANTS
  a = a  b = b  d = d
  a1 = a1  a2 = a2  b1 = b1  ma = ma  mb = mb  mc = mc
  NoFile = NoFile  Torn = Torn
  Folders <- TwoFolders
  Dirs <- OneDir
  Above <- Under
  SetOf <- OneSet
  CsvRows <- Csv1
  ManualIds <- ManualA
  SwapOf <- Across
  Mentions <- NoMentions
  Env = {"csv", "manual", "ignore", "unignore", "clobber", "hint", "prices"}
  MaxVersion = 1
  MaxClock = 3
  MaxCrash = 0
INVARIANTS NoRowTwice
PROPERTIES IgnoredStayHidden
