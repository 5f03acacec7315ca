SPECIFICATION FairSpec
CONSTANTS
    Params <- MCParams
    ValuesOf <- MCValuesOf
    Bundled <- MCBundled
    OwnVersion = "24"
    Spaced <- MCSpaced
    WordsOf <- MCWordsOf
    PartsOf <- MCPartsOf
    Edited <- MCEdited
    MaxEvents = 2
    MaxSent = 2
    MaxBoth = 3
    StoredSettings <- MCStoredSettings
    LaunchFiles <- MCLaunchFiles
    Jobs = {"feeds", "mail"}
    Fields = {"schedule", "timeoutMs", "onFailure", "retry"}
    Declared <- MCDeclared
    Picks <- MCPicks
    Rows <- MCRows
    StoredGlobals <- MCStoredGlobals
    MaxSaves = 2
    MaxActs = 3
    RunJobs = {"read", "send"}
    Scopes <- MCScopes
    Outcomes = {"ok", "failed"}
    capacity = 1
    failureCapacity = 1
    MaxRuns = 2
    MaxClicks = 4
    HookIds = {"a", "b"}
    Labels = {"one", "two"}
    Families = {"update"}
    SignaturePrefixes = {"v0="}
    MAX_WEBHOOKS = 2
    MaxPending = 2
    MaxTouches = 3
    StoredHooks <- MCStoredHooks
    RecordIds = {"r1", "r2"}
    Texts = {"one", "two"}
    MaxListActs = 3
    MaxListOthers = 1
    MaxOnWire = 2
    StoredRecords <- MCStoredRecords
    Tabs = {"t1", "t2"}
    MAX_PENDING = 1
    MaxAsked = 3
    MaxStarted = 2
    MaxHands = 1
    Mailboxes = {"INBOX", "label"}
    Inbox = "INBOX"
    MaxMail = 2
    MaxFaults = 1
    LinkIds = {"l1", "l2"}
    ClickIds = {"c1"}
    MaxMishaps = 3
INVARIANTS
    EditsSurvive
    RestartApplies
    ShowsConfirmed
    SchedulerFollows
    BellsAreAnswered
    StoreKeepsFaith
    ListIsTheStores
PROPERTIES
    NothingLost
    RestartSettles
    PageHeals
    DeletesKeepToTheFilter
    OnlyWhatWasTyped
    PresentsEachOnce
CHECK_DEADLOCK FALSE
