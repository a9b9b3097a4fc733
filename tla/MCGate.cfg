SPECIFICATION Spec
CONSTANTS
    Summaries <- MCSummaries
    Signals   <- MCSignals
    NumbersIn <- MCNumbersIn
    IdsIn     <- MCIdsIn
    Ids       <- MCIds
    Contains  <- MCContains
    Verdicts  <- MCVerdicts
    Tenth     <- MCTenth
    RelTol    = 5
    Years     <- MCYears
    MinChars  = 50
INVARIANTS
    GateTypeOK
    InventedNumberIsRefused
    HonestQuoteIsAccepted
PROPERTY MoreSignalsNeverRefuse
