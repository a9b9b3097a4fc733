SPECIFICATION FairSpec
CONSTANTS
    Accounts = {acme}
    RetryAttempts = 3
    SdkRetries = 1
    ToolInputs <- MCToolInputs
    Conforming <- MCConforming
    Grounded <- MCGrounded
    Broken <- MCBroken
    MaxLaunches = 2
    MaxEdits = 1
CHECK_DEADLOCK FALSE
INVARIANTS
    ClientTypeOK
    RequestsConserved
    SpendBounded
    GivesUpOnlyWhenSpent
    TypeOK
    UnmarkedNarrativeIsGrounded
    RefusedVerdictIsDropped
    ExitCodeTellsReport
    RecordedCallWasBilled
    BannerTellsVerification
    ProvenanceTellsReply
    MarkupLeavesReport
PROPERTIES
    ImplementsReport
    UsesClient
    CallEnds
    RunEnds
    OutageStillReports
