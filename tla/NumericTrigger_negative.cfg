CONSTANTS
    WordBits = 8
    LongBits = 16
    ByteOrder = "little"
    CfgInts <- MCCfgInts
    Words <- MCWords
SPECIFICATION Spec
PROPERTY NumericTriggerMatches
