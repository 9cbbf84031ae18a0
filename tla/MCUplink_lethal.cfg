\* Every fault but a failing DELETE: the process may die anywhere, the server
\* may reject anything, the database may fail.
CONSTANTS
    s1 = s1  s2 = s2  s3 = s3  s4 = s4
    Sample <- ThreeSamples
    Unknown <- OneUnknown
    PopMax = 2
    FetchMax = 2
    KeyMod = 2
    TableBound = 3
    Faults <- LethalFaults
SPECIFICATION Spec
INVARIANTS Flag2MeansReceived HeldOnce
