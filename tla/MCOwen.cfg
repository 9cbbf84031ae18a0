\* Two lines, the readers ThreadManager has for them, two guids named.
CONSTANTS
    Lines <- TwoLines
    Tables <- Database
    Roster <- Manager
    Sweeping <- Sphera
    Unknown = "1111"
    MaxAsked = 2
SPECIFICATION Spec
INVARIANTS TypeOK OwnRow
PROPERTIES TurnsFollowRequests QueuedAsNamed ThreadsGoOn RequestsTaken
