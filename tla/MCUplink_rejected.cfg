\* The server rejects a fresh row with an error code of its own.
CONSTANTS
    s1 = s1  s2 = s2  s3 = s3  s4 = s4
    Sample <- TwoSamples
    Unknown <- NoneUnknown
    PopMax = 2
    FetchMax = 2
    KeyMod = 2
    TableBound = 3
    Faults <- RejectFault
SPECIFICATION Spec
INVARIANT UnsentIsSaved
