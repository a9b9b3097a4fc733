SPECIFICATION EnrichSpec
CONSTANTS
    Accounts  <- MCAccounts
    Contracts <- MCContracts
    Holder    <- MCHolder
    Code      <- MCCode
    Within    <- MCWithin
    Documents <- MCDocuments
    IssuedTo  <- MCIssuedTo
    Pattern   <- MCPattern
    Prefix    <- MCPrefix
    Policy    <- MCPolicy
    Rows      <- MCRows
    OtherRows <- MCOtherRows
    Names     <- MCNames
    Blank     =  "none"
    Length    <- MCLength
    Score     <- MCScore
    Listed    <- MCListed
    FuzzyThreshold = 88
    FuzzyMinLength = 4
    MaxSignals   = 2
    RecentWindow = 2
    Fields    <- MCFields
    Alphabet  <- MCAlphabet
    Shipped   <- MCShipped
    FirstRule <- MCRule
    FirstDay  = 7
    Malformed <- MCMalformed
    Aliases   <- MCAliases
    NewNames  = {"Operations"}
    Thresholds <- MCThresholds
    HalfDeclines <- MCHalf
    MaxChanges = 4
INVARIANTS
    DropsAreMalformed
