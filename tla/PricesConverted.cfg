SPECIFICATION PriceSpec
CONSTANTS
    PriceLists <- MCPriceLists
    Rules <- MCRules
    TaxChoices <- MCTaxChoices
    SnapshotRate = 28
    Quantities = {1, 3}
    OverridePrices = {7777}
    LastDay = 2
    MaxChanges = 1
    NoLine = NoLine
    NoRule = NoRule
    NoOverride = NoOverride
    NoCap = NoCap
    OpenEnded = OpenEnded
CHECK_DEADLOCK FALSE
PROPERTIES ConversionKeepsTheNumbers
