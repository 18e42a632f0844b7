\* The application type picked in turn.
CONSTANTS
    Names = {"app"}
    UriInputs <- MCUriInputs
    TrimOf <- MCTrimOf
    MaxUris = 1
    MaxSaves = 2
    Projects = {"p1"}
    MaxRouteChanges = 0
SPECIFICATION Spec
CHECK_DEADLOCK FALSE
INVARIANT AuthMethodSelectable
