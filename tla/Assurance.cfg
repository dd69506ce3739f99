SPECIFICATION AssuranceSpec
CONSTANTS
    Absent = Absent
    SafeEncodings = {"cp1250"}
    TableOrder <- MCTableOrder
    Payloads <- MCPayloads
    SchemaFacts <- MCSchemaFacts
    Texts = {"", "a", "b"}
    Numbers = {"1", "2", "3"}
    Values <- MCValues
    Pseudonym <- MCPseudonym
    MaxRows = 2
    MaxEdits = 1
INVARIANTS EvidenceIsExact KernelsAgree AuthorityIsEarned FaithfulRunIsVerified
CHECK_DEADLOCK FALSE
