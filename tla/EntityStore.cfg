CONSTANTS
    None = None
    Workers = {1}
    Contents <- MCContents
    NumSessions = 3
    Legacy <- MCLegacy
    TagNames = {"t"}
    MaxRuns = 3
    MaxTags = 1
SPECIFICATION Spec
INVARIANTS
    ReferencesAreSound
    CanonicalRowsAreRight
PROPERTY EvidenceOnlyGrows
CHECK_DEADLOCK FALSE
