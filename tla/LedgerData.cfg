SPECIFICATION Spec
CONSTANTS
  \* LedgerText
  LedgerFileCount = 2
  TextLines <- Typed
  Added = "new"
  Nothing = Nothing
  MaxTextLines = 3
  \* LedgerView
  Own <- OwnAccounts
  Below <- BelowOf
  Containing <- BelowOf
  RowKinds <- ViewRows
  Contras = {"expenses:food"}
  IgnoreAccounts = {"ignore", "ignore:hidden"}
  HiddenAccounts = {"ignore:hidden", "trash:bin"}
  Unknown = "expenses:unknown"
  TransferAccount = "assets:transfer"
  FeeAccount = "income:trading:fees"
  FeesParsed = {"expenses:fees"}
  Canonical = "new"
  SearchTokens <- ViewSearches
  NoRule = "none"
  NoSearch = NoSearch
  MaxRows = 2
  MaxRules = 1
  Aliases = {"old"}
  \* Prices
  PriceSymbols = {"BTC", "USD"}
  BaseCurrency = "AUD"
  PluginCurrency = "USD"
  PriceDays = {1, 2}
  PriceAmounts = {1, 2}
  Comment = Comment
  Commands = {"set", "import"}
  PricePlugins = {"plugin"}
  PriceImports <- ImportFiles
  FilesAtStart <- PricesAtStart
  Done = Done
  NotRead = NotRead
  NoPrice = NoPrice
  MaxPriceChanges = 2
  \* SwapPairs
  RawLegs <- SomeLegs
  Quote <- FourQuotes
  BaseLike = {1, 2}
  NoQuote = 0
  MaxLegs = 4
  Scale = 5040
  \* Reports
  Coins = {"x", "y"}
  Places = {"wallet", "exchange", "transfer"}
  Bank = "bank"
  Scope = {"wallet", "exchange", "transfer", "bank"}
  Allowed = {"wallet", "exchange", "bank"}
  Traders = {"wallet"}
  MarketPrices <- TwoPrices
  Partners = {"exchange"}
  Traded = {"x"}
  Payments = {1}
  Annotated = {3}
  Quantities = {2}
  NoSnapshot = NoSnapshot
  OpenMonth = 0
  MaxMonth = 2
  MaxTxns = 3
  DiscountPercent = 50
  DiscountMonths = 1
INVARIANTS MergedIsTheFiles AppendAddsOne LegsBalance IgnoringKeepsTotals ShowIgnoredReveals
           LegsAgreeOnValue LinkingSettles
           CostCountsHeldUnits ReturnIsGrowth PartsAddUp HarvestIsWhatItSaves
PROPERTIES ImplementsPriceTable
CHECK_DEADLOCK FALSE
