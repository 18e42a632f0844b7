------------------------ MODULE MC_MemberCreateDialog ------------------------
EXTENDS MemberCreateDialog

CONSTANTS ownedRoles, grantRoles, iamRoles, orgRoles

MCServices == {"GetProjectGrantMemberRoles", "GetProjectMemberRoles", "GetIamMemberRoles"}
MCRolesOf ==
    ("GetProjectMemberRoles" :> ownedRoles) @@ ("GetProjectGrantMemberRoles" :> grantRoles)
    @@ ("GetIamMemberRoles" :> iamRoles)
MCOrgRoles == {orgRoles}
=============================================================================
