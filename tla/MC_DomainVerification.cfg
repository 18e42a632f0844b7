\* One dialog, up to two validate clicks.
CONSTANTS
    Undefined = Undefined
    MaxValidates = 2
SPECIFICATION Spec
\* The dialog stops once it is closed and every call has settled.
CHECK_DEADLOCK FALSE
INVARIANT DownloadOfferedForHttpToken
