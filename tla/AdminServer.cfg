CONSTANTS
    Hosts = {"site", "shop"}
    Below <- MCBelow
    Workers = {w1, w2}
    Technologies = {"laravel", "wordpress", "php"}
    CloudNames = {"aws"}
    StoryRequests <- MCStoryRequests
    MaxEvidence = 8
    Sources = {"gw"}
    PrivateSources = {"gw"}
    SigningKeys = {"key-1"}
    PersistEvery = 2
    Browsers = {b1, b2}
    MaxSessions = 2
    SessionLifetime = 2
    FailureWindow = 1
    MaxFailureRows = 1
    UpdateInterval = 2
    Consoles = {"c1", "c2", "c3"}
    ConsoleIP <- MCConsoleIP
    MaxConsoles = 2
    MaxPerIP = 1
    DomainLists <- MCDomainLists
    ProfileLists <- MCProfileLists
    MaxTime = 3
    MaxInputs = 4
    MaxFaults = 1
SPECIFICATION Spec
INVARIANTS ClaimsAgree SettingsAsTold PeersSaved ConsoleAccounted
PROPERTY SessionsKept
CONSTRAINT OneAtATime
SYMMETRY Symmetry
CHECK_DEADLOCK FALSE
