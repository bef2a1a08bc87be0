SPECIFICATION FairSpec
CONSTANTS
    t1 = t1
    Tabs = {t1, t2}
    Calls = {c1, c2}
    Refused = {c2}
    Tokens = {1, 2, 3}
    NoToken = NoToken
    MaxFaults = 1
ACTION_CONSTRAINT MCInOrder
INVARIANTS
    TypeOK
    QueueHasExchange
    PresentsOnce
    StoredIsExchangeable
    RefusedForAReason
PROPERTIES
    SessionSpec
