CONSTANTS
    P = P
    Q = Q
    m1 = m1
    m2 = m2
    u1 = u1
    u2 = u2
    c1 = c1
    c2 = c2
    c3 = c3
    c4 = c4
    c5 = c5
    None = None
    Stub = Stub
    Order <- MCOrder
    KeyOptional <- MCKeyOptional
    Models <- MCModels
    Users <- MCUsers
    Owner = u1
    Env <- MCEnv
    Start <- MCStart
    MaxOps = 2
    MaxCrashes = 1
    Calls <- MCCalls
    Kinds <- MCKinds
    Uploads <- MCUploads
    Upload <- MCUpload
    MaxBytes = 2
    PixelBytes = 1
    Pixels = TRUE
    MaxVersion = 3
    MaxStarts = 4
    ToolCalls <- MCToolCalls
    Listers <- MCListers
    Server <- MCServer
    Asks <- MCAsks
    Sanitized <- MCSanitized
    Nobody = Nobody
    Logins <- MCLogins
    MaxSessionsPerUser = 1
    UserMax = 1
    IPMax = 2
    MaxWindows = 1
    Requests <- MCRequests
    Modes <- MCModes
    Overrides <- MCOverrides
    Setup <- MCSetup
    Advertised <- MCAdvertised
    Guess <- MCGuess
    Ranking <- MCOrder
    ModelIds <- MCModelIds
    Upper <- MCUpper
    Configs <- MCConfigs
    Later <- MCLater
    Nothing = Nothing
SPECIFICATION Spec
INVARIANTS TypeOK RunningIsDurable DocumentSound SessionsOwned ListedCallWorks
INVARIANTS PublishedOnRequest ListedIsReadable UsableIsCurrent LoginsSound EffortFits PickedIsServed
CHECK_DEADLOCK FALSE
