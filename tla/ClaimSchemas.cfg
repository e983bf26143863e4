SPECIFICATION Spec
CONSTANTS
    NoSchema = NoSchema
    Length <- MCLength
    Matches <- MCMatches
    HasFormat <- MCHasFormat
    CTypes <- MCCTypes
    CTypeJson <- MCCTypeJson
    Documents <- MCDocuments
    Drafts <- MCDrafts
    Instances <- MCInstances
    MaxSchemas = 2
INVARIANTS
    Agrees
    ClaimSatisfies
    ModeBlind
CHECK_DEADLOCK FALSE
