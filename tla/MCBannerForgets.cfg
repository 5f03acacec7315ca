SPECIFICATION SavesSpec
CONSTANTS
    Params <- MCParams
    ValuesOf <- MCValuesOf
    Bundled <- MCBundled
    OwnVersion = "24"
    Spaced <- MCSpaced
    WordsOf <- MCWordsOf
    PartsOf <- MCPartsOf
    Edited <- MCClearable
    MaxEvents = 2
    MaxSent = 2
    MaxBoth = 3
INVARIANTS
    BannerForgetsNothing
CHECK_DEADLOCK FALSE
