\* The faults sendToServer is built for: lost answers, a table that cannot be
\* opened for reading, rows that cannot be deleted.
CONSTANTS
    s1 = s1  s2 = s2  s3 = s3  s4 = s4
    Sample <- ThreeSamples
    Unknown <- OneUnknown
    PopMax = 2
    FetchMax = 2
    KeyMod = 2
    TableBound = 3
    Faults <- TolerableFaults
SPECIFICATION Spec
INVARIANTS TypeOK NoSampleLost
PROPERTY ImplementsOutbox
