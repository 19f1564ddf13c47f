\* One browser that follows verification links, one request after the other.
SPECIFICATION Spec
CONSTANTS
    c1 = c1
    c2 = c2
    b1 = b1
    b2 = b2
    Calls <- OneByOne
    Browsers <- OneTab
    Kinds <- Verifying
    MaxRequests = 3
\* Nobody signs up here: a behaviour without an account stops at once.
CHECK_DEADLOCK FALSE
PROPERTIES HoldStands
