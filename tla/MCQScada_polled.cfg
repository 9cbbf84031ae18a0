\* Everything but the death of the process may go wrong for ever.
CONSTANTS
    s1 = s1  s2 = s2  s3 = s3  s4 = s4  s5 = s5
    Sample <- ThreeSamples
    Unknown <- OneUnknown
    PopMax = 1
    FetchMax = 1
    KeyMod = 1
    TableBound = 2
    Faults <- EverythingButDeath
    Meters <- TwoMetersThenOne
    RowsRead <- MercuryThenPulsar
SPECIFICATION RunningSpec
PROPERTY MetersPolled
