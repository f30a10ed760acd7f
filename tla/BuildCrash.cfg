SPECIFICATION FairSpec
CONSTANTS
  a = a  b = b  d = d
  a1 = a1  a2 = a2  b1 = b1  ma = ma  mb = mb  mc = mc
  NoFile = NoFile  Torn = Torn
  Folders <- TwoFolders
  Dirs <- OneDir
  Above <- Under
  SetOf <- OneSet
  CsvRows <- Csv1
  ManualIds <- ManualA
  SwapOf <- Within
  Mentions <- NoMentions
  Env = {"csv", "rules", "force", "concurrent"}
  MaxVersion = 1
  MaxClock = 2
  MaxCrash = 2
PROPERTIES WarmEqualsCold EventuallyFresh
