\* A full sweep reads as many rows as its three sends can take.
CONSTANTS
    s1 = s1  s2 = s2  s3 = s3  s4 = s4  s5 = s5
    Sample <- FiveSamples
    Unknown <- NoneUnknown
    PopMax = 1
    FetchMax = 1
    KeyMod = 1
    TableBound = 2
    Faults <- DeathAndLink
    Meters <- OneMercuryOnePulsar
    RowsRead <- MercuryThenPulsar
SPECIFICATION SystemSpec
INVARIANTS SweepTypeOK QueueBounded
