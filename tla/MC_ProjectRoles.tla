--------------------------- MODULE MC_ProjectRoles ---------------------------
(* Model-checking instance of ProjectRoles: three roles in two groups, *)
(* listed by the backend in the order r1, r2, r3.                      *)
EXTENDS ProjectRoles

CONSTANTS r1, r2, r3, g1, g2

MCRoles == {r1, r2, r3}
MCRoleOrder == <<r1, r2, r3>>
MCRoleGroup == (r1 :> g1) @@ (r2 :> g1) @@ (r3 :> g2)
=============================================================================
