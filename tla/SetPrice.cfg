CONSTANTS
  PriceSymbols = {"BTC", "USD"}
  BaseCurrency = "AUD"
  PluginCurrency = "USD"
  PriceDays = {1, 2}
  PriceAmounts = {1, 2}
  Comment = Comment
  Commands = {"set", "import"}
  PricePlugins = {"plugin"}
  PriceImports <- ImportFiles
  FilesAtStart <- PricesAtStart
  Done = Done
  NotRead = NotRead
  NoPrice = NoPrice
  MaxPriceChanges = 2
SPECIFICATION PricesSpec
PROPERTIES SetPriceIsUsed
CHECK_DEADLOCK FALSE
