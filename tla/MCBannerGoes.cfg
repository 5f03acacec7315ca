SPECIFICATION LaunchSpec
CONSTANTS
    Params <- MCParams
    ValuesOf <- MCValuesOf
    Bundled <- MCBundled
    OwnVersion = "24"
    Spaced <- MCSpaced
    WordsOf <- MCWordsOf
    PartsOf <- MCPartsOf
    Edited <- MCEdited
    MaxEvents = 2
    MaxSent = 2
    MaxBoth = 3
PROPERTIES
    BannerGoes
CHECK_DEADLOCK FALSE
