\* Whole list on one page, the user waits for every answer: one multi-role delete.
CONSTANTS
    r1 = r1
    r2 = r2
    r3 = r3
    g1 = g1
    g2 = g2
    Roles <- MCRoles
    RoleOrder <- MCRoleOrder
    RoleGroup <- MCRoleGroup
    PageSize = 3
    UserWaits = TRUE
    MaxOps = 1
    MaxLoads = 1
SPECIFICATION Spec
INVARIANT NoLostRole
CHECK_DEADLOCK FALSE
