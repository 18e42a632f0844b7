\* Every control of the group over all its bounded values.
CONSTANTS
    Controls <- MCControls
    ChecksOf <- MCChecksOf
    ValuesOf <- MCValuesOf
    InitialOf <- MCInitialOf
    PasswordControl = "password"
    MinLen = 2
    Null = Null
    Undefined = Undefined
    Throws = Throws
SPECIFICATION Spec
CHECK_DEADLOCK FALSE
INVARIANTS ErrorsMatchRules MismatchShownAfterConfirmEdit
