SPECIFICATION RowsSpec
CONSTANTS
    Cards <- MCCards
    HookCards = {"hook"}
    InputsOf <- MCInputsOf
    Required = {"path"}
    Calls <- MCCalls
    MaxPresses = 4
    MaxWirings = 1
INVARIANTS
    ForgetsWhatWasAsked
CHECK_DEADLOCK FALSE
