SPECIFICATION Spec
CONSTANTS
    Accounts = {acme}
    RetryAttempts = 1
    SdkRetries = 0
    ToolInputs <- MCToolInputs
    Conforming <- MCConforming
    Grounded <- MCGrounded
    Broken <- MCBroken
    MaxLaunches = 1
    MaxEdits = 0
CHECK_DEADLOCK FALSE
INVARIANT ProseNeverAborts
