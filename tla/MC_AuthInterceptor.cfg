\* Callers pass either no Authorization entry or one of their own; three calls.
CONSTANTS
    q1 = q1
    q2 = q2
    q3 = q3
    t1 = t1
    t2 = t2
    Requests = {q1, q2, q3}
    Tokens = {t1, t2}
    NoToken = NoToken
    NoHeader = NoHeader
    EmptyHeader = EmptyHeader
    CallerAuth = CallerAuth
    CallerHeaders = {NoHeader, CallerAuth}
    MaxStoreChanges = 4
SPECIFICATION Spec
INVARIANT TypeOK
PROPERTY ImplementsContract
\* Every call returns; the system then stops.
CHECK_DEADLOCK FALSE
