CONSTANTS
    NumDevices = 1
    Options = {1}
    Values = {0, 1}
    Rules <- MCRules
SPECIFICATION Spec
INVARIANT TypeOK
INVARIANT TriggerIndexValid
 
PROPERTY SlotsRefined
PROPERTY TriggerEventuallyServed
