SPECIFICATION Spec
CONSTANTS
    Unstated = Unstated
    Refused = Refused
    MaxWord = 60000
    MaxCalls = 2
    Envelopes = {120}
    RomSizes = {962, 963}
    RamSizes = {0, 20}
    Counts = {0, 1, 2}
    Widths = {10}
    InfoSizes = {1100}
    Lengths = {0, 3, 11}
    Pow2 <- MCPow2
    Configs <- PlainOnly
    Statements <- NothingStated
    Assets <- MCAssets
    Listings <- MCListings
    Allowance <- MCAllowance
    TokenExtras <- MCExtras
CHECK_DEADLOCK FALSE
INVARIANTS
    StatingNothingCovers
