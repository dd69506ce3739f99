SPECIFICATION Spec
CONSTANTS
    Null = Null
    Irreversible = Irreversible
    MinDay = 0
    MaxDay = 3
    Scenarios <- MCScenarios
    RowsOf <- MCRowsOf
    ValuesOf <- MCValuesOf
    TokensOf <- MCTokensOf
    MaxRecords = 2
    MaxRuns = 2
    MaxFaults = 0
INVARIANT EmptyDomainIsValid
CHECK_DEADLOCK FALSE
