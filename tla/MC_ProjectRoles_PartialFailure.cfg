\* One role per page, the user waits: a multi-role delete half fails.
CONSTANTS
    r1 = r1
    r2 = r2
    r3 = r3
    g1 = g1
    g2 = g2
    Roles <- MCRoles
    RoleOrder <- MCRoleOrder
    RoleGroup <- MCRoleGroup
    PageSize = 1
    UserWaits = TRUE
    MaxOps = 2
    MaxLoads = 2
SPECIFICATION Spec
INVARIANT NoGhostRoleWhenIdle
CHECK_DEADLOCK FALSE
