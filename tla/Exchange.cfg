SPECIFICATION ExchangeSpec
CONSTANTS
    Absent = Absent
    Malformed = Malformed
    ctypeHash = ctypeHash
    extendedHash = extendedHash
    Json <- MCJson
    KeyPrecedes <- MCKeyPrecedes
    TextPrecedes <- MCTextPrecedes
    Address <- MCAddress
    IsDidUri <- MCIsDidUri
    KeyType <- MCKeyType
    Size <- MCSize
    Limits <- MCLimits
    MaxNewKeyAgreementKeys = 1
    MaxNumberOfServicesPerDid = 1
    Digest <- MCDigest
    SchemaHash <- MCSchemaHash
    IsCType <- MCIsCType
    IsQuote <- MCIsQuote
    Claimer = "claimer"
    Attester = "attester"
    Verifier = "verifier"
    AuthenticationKey <- MCAuthenticationKey
    EncryptionKey <- MCEncryptionKey
    NextAuthenticationKey = "cB"
    NextEncryptionKey = "cF"
    OtherAccount = "oA"
    CType <- MCCType
    Contents <- MCContents
    Legitimation <- MCLegitimationSet
    Legitimations <- MCLegitimations
    OtherRequests <- MCOtherRequests
    Extended <- MCExtended
    Delegation <- MCDelegation
    Quote <- MCQuote
    Challenge <- MCChallenge
    Selection <- MCSelection
    MaxTx = 2
    MaxCalls = 2
ACTION_CONSTRAINT MCBounds
VIEW MCView
INVARIANTS
    VerificationIsRight
    PresentsWhatIsSelected
    ComesAsSent
    WhatIsLostIsNoticed
CHECK_DEADLOCK FALSE
