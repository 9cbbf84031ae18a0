\* A line on which an answer may come after the timeout.
CONSTANTS
    p1 = p1  p2 = p2
    Meter <- TwoMeters
    VisitMod = 3
    LineFaults <- OnlyLate
SPECIFICATION Spec
INVARIANT OwnMeter
