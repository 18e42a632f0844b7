\* Name, type, options, URIs, two saves, and one change of project.
CONSTANTS
    Names = {"app"}
    UriInputs <- MCUriInputs
    TrimOf <- MCTrimOf
    MaxUris = 1
    MaxSaves = 2
    Projects = {"p1", "p2"}
    MaxRouteChanges = 1
SPECIFICATION Spec
CHECK_DEADLOCK FALSE
INVARIANT TypeOK
PROPERTIES SentAppMatchesForm LoadingSettles
