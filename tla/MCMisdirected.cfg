SPECIFICATION Spec
CONSTANTS
    Accounts  <- MCAccounts
    Contracts <- MCContracts
    Holder    <- MCHolder
    Code      <- MCCode
    Within    <- MCWithin
    Documents <- MCDocuments
    IssuedTo  <- MCIssuedTo
    Pattern   <- MCPattern
    Prefix    <- MCPrefix
    Policy    <- MCPolicy
    Rows      <- MCRows
    OtherRows <- MCOtherRows
INVARIANTS
    NoForeignRow
