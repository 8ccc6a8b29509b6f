\* Three connections and two failures to start a session.
SPECIFICATION LiveChildren
CONSTANTS
    Clients = {c1, c2, c3}
    Nobody = Nobody
    MaxInitFail = 2
INVARIANTS
    ChildrenTypeOK
    NoScriptLeft
    LostOnlyByOverlap

    
    
