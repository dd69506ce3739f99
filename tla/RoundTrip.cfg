SPECIFICATION Spec
CONSTANTS
    Null = Null
    Irreversible = Irreversible
    MinDay = 0
    MaxDay = 3
    Scenarios <- MCScenarios
    RowsOf <- MCRowsOf
    ValuesOf <- MCValuesOf
    TokensOf <- MCTokensOf
    MaxRecords = 2
    MaxRuns = 2
    MaxFaults = 1
INVARIANTS CleanRunVerifies AcceptedIsFaithful VerifiedIsRecoverable RecoveredIsSource JoinIsPreserved
CHECK_DEADLOCK FALSE
