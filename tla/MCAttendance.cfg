CONSTANTS
    Sessions = {"s1", "s2"}
    Students = {"x"}
    Marks = {"P", "A"}
    Requests = {1, 2}
    MaxEdits = 2
SPECIFICATION FairSpec
INVARIANTS
    UnalertedOnlyByStaleMark
    TapsAreKept
PROPERTIES
    QueueDrains
