SPECIFICATION Spec
CONSTANTS
    t1 = t1
    Tabs = {t1}
    Calls = {c1}
    Refused = {}
    Tokens = {1, 2}
    NoToken = NoToken
    MaxFaults = 0
INVARIANT LogoutClears
