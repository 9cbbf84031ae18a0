\* A link that fails again and again but not for ever.
CONSTANTS
    s1 = s1  s2 = s2  s3 = s3  s4 = s4  s5 = s5
    Sample <- ThreeSamples
    Unknown <- OneUnknown
    PopMax = 2
    FetchMax = 1
    KeyMod = 2
    TableBound = 2
    Faults <- LinkFaults
    Meters <- OneMercuryOnePulsar
    RowsRead <- MercuryThenPulsar
SPECIFICATION ConnectedSpec
PROPERTIES EventuallyReceived TableDrains
