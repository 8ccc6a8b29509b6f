\* One connection, no failure to start a session.
SPECIFICATION LiveChildren
CONSTANTS
    Clients = {c1}
    Nobody = Nobody
    MaxInitFail = 0
PROPERTY RequestHeard
