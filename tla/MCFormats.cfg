\* A slave, two calls one after the other or one at the limits; items of every kind.
CONSTANTS
    Scripts <- MCScripts
    Recoveries <- NoneOrBoth
    ServerId = 3
    Size <- MCSize
    Inputs <- MCInputs
    MaxNumber = 99
    Seed <- MCSeeds
    Piece <- MCPieces
    Value <- MCValues
    Byte <- MCBytes
    MaxSteps = 4
    Address <- MCAddresses
    Register <- MCRegisters
    Pattern <- MCPatterns
SPECIFICATION FormatsSpec
INVARIANTS TypeOK AnswerFits CleanCall WriteTaken AduBound
PROPERTY ImplementsTables
INVARIANTS JsonRoundTrip JsonTruncated JsonStable CrcGuards
INVARIANTS RequestRight TemperatureClose ConversionsInvert
