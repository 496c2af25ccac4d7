CONSTANTS
    NumDevices = 1
    Options = {1}
    Values = {0, 1}
    Rules <- MCRules
SPECIFICATION Spec
PROPERTY CleanupUnlocksOwnMutex
