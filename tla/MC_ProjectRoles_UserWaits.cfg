\* One role per page, the user waits for every answer.
CONSTANTS
    r1 = r1
    r2 = r2
    r3 = r3
    g1 = g1
    g2 = g2
    Roles <- MCRoles
    RoleOrder <- MCRoleOrder
    RoleGroup <- MCRoleGroup
    PageSize = 1
    UserWaits = TRUE
    MaxOps = 3
    MaxLoads = 3
SPECIFICATION Spec
INVARIANTS TypeOK NoLostRole
\* The component stops when the user's bounded inputs are spent.
CHECK_DEADLOCK FALSE
