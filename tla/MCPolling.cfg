\* A mercury line the serving thread looks at and a paired line it does not, two meters asked for.
CONSTANTS
    mercury_1 = mercury_1  sphera24 = sphera24
    Line <- Mixed
    Count <- TwoEach
    Paired <- OnlySphera
    Served <- OneServed
    Locked <- OnlyMercury
    MaxAsked = 2
SPECIFICATION FairSpec
INVARIANTS TypeOK LabelledRight SweepComplete Together NoRequestLost
PROPERTIES RequestsAnswered SweepsGoOn
