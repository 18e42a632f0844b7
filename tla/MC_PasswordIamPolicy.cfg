\* Two route emissions and two saves, with or without a stored org.
CONSTANTS
    MaxEmissions = 2
    MaxSaves = 2
    Undefined = Undefined
SPECIFICATION Spec
CHECK_DEADLOCK FALSE
PROPERTY CreateOnlyOverDefault
