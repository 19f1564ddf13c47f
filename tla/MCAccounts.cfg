\* Every request, two at a time, from two browsers.
SPECIFICATION Spec
CONSTANTS
    c1 = c1
    c2 = c2
    b1 = b1
    b2 = b2
    Calls <- Twice
    Browsers <- Tabs
    Kinds <- All
    MaxRequests = 3
SYMMETRY Symmetry
INVARIANTS TypeOK FamiliesDoNotFork OldPasswordSessionsEnd AlarmOnlyAfterLoss BanStands
