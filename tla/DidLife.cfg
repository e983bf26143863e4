SPECIFICATION LifeSpec
CONSTANTS
    Absent = Absent
    NoKey = Absent
    c1 = c1
    c2 = c2
    x = x
    y = y
    VerificationKey <- MCVerificationKey
    EncryptionKey <- MCEncryptionKey
    Endpoint <- MCEndpoint
    Caller <- MCCaller
    Address <- MCAddress
    IsDidUri <- MCIsDidUri
    Size <- MCSize
    Limits <- MCLimits
    MaxNewKeyAgreementKeys = 1
    MaxNumberOfServicesPerDid = 1
    Subject = "v1"
    KeyType <- MCKeyType
    OtherDid <- MCOtherDid
    Name <- MCName
    NameLength <- MCNameLength
    MinNameLength = 2
    MaxNameLength = 3
    Fragment <- MCFragment
    NBlocksValid = 1
    MaxTx = 2
SYMMETRY MCSymmetry
CONSTRAINT MCBounds
INVARIANTS
    CreationCarriesAll
    OneCreation
    AnswersOfAMoment
    MigratedAsBuilt
    LinksOfAMoment
    DocumentResolves
CHECK_DEADLOCK FALSE
