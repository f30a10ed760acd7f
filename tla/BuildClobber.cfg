SPECIFICATION Spec
CONSTANTS
  a = a  b = b  d = d
  a1 = a1  a2 = a2  b1 = b1  ma = ma  mb = mb  mc = mc
  NoFile = NoFile  Torn = Torn
  Folders <- TwoFolders
  Dirs <- OneDir
  Above <- Under
  SetOf <- OneSet
  CsvRows <- Csv2
  ManualIds <- ManualA
  SwapOf <- NoSwaps
  Mentions <- NoMentions
  Env = {"csv", "ignore", "prices", "clobber", "force"}
  MaxVersion = 1
  MaxClock = 3
  MaxCrash = 0
PROPERTIES WarmEqualsCold
