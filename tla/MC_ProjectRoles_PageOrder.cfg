\* One role per page, the user does not wait: two page loads answered out of order.
CONSTANTS
    r1 = r1
    r2 = r2
    r3 = r3
    g1 = g1
    g2 = g2
    Roles <- MCRoles
    RoleOrder <- MCRoleOrder
    RoleGroup <- MCRoleGroup
    PageSize = 1
    UserWaits = FALSE
    MaxOps = 0
    MaxLoads = 3
SPECIFICATION Spec
INVARIANT ShownPageIsPaginatorPage
CHECK_DEADLOCK FALSE
