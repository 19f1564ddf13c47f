\* Every request, two at a time.
SPECIFICATION Spec
CONSTANTS
    c1 = c1
    c2 = c2
    s1 = s1
    s2 = s2
    Calls <- Twice
    Songs <- TwoSongs
    Silence = Silence
    Nobody = Nobody
    Lists <- Orders
    Kinds <- All
    Cap = 1
    MaxRequests = 3
SYMMETRY Symmetry
INVARIANTS TypeOK IndexNamesHeard BuiltOncePerWindow OpenWithinCap
