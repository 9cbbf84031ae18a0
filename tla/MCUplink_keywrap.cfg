\* More stored rows than the quint8 key counter has values.
CONSTANTS
    s1 = s1  s2 = s2  s3 = s3  s4 = s4
    Sample <- FourSamples
    Unknown <- NoneUnknown
    PopMax = 2
    FetchMax = 3
    KeyMod = 2
    TableBound = 3
    Faults <- LinkFaults
SPECIFICATION Spec
INVARIANT UnsentIsSaved
