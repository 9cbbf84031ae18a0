\* Two meters on a line that does everything wrong, two on a line that is never late.
CONSTANTS
    m1 = m1  m2 = m2
    Meter <- TwoMeters
    VisitMod = 3
    LineFaults <- AllFaults
    HeatFaults <- NeverLate
SPECIFICATION LinesSpec
INVARIANTS TypeOK RightReading HeatTypeOK OwnReading
