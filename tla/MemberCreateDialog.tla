-------------------------- MODULE MemberCreateDialog --------------------------
(***************************************************************************)
(* MemberCreateDialogComponent (add-member-dialog/                         *)
(* member-create-dialog.component.ts): the constructor takes the creation  *)
(* type from the dialog data and either loads the member roles for it or  *)
(* shows the creation-type selector; loadRoles switches on the type and   *)
(* starts one backend call whose answer, whenever it arrives, replaces     *)
(* memberRoleOptions.  The user may pick a type in the selector, set the   *)
(* organisation roles, and close the dialog.                               *)
(***************************************************************************)
EXTENDS Integers, Sequences, SequencesExt

CONSTANTS
    NoType,        \* data.creationType left undefined by the opener
    Services,      \* the role-list calls the switch can make
    RolesOf,       \* service -> the role list its answer carries
    OrgRoles,      \* role lists setOrgMemberRoles may receive
    MaxChoices     \* bound on creation types picked in the selector

\* enum CreationType
PROJECT_OWNED == 0
PROJECT_GRANTED == 1
ORG == 2
IAM == 3
CreationTypes == {PROJECT_OWNED, PROJECT_GRANTED, ORG, IAM}

\* The switch of loadRoles in source order: the first case whose label
\* equals the type runs (the second PROJECT_GRANTED label can never match).
Cases == <<[label |-> PROJECT_GRANTED, svc |-> "GetProjectGrantMemberRoles"],
           [label |-> PROJECT_GRANTED, svc |-> "GetProjectMemberRoles"],
           [label |-> IAM, svc |-> "GetIamMemberRoles"]>>

\* The call the switch makes for a type; {} when no case matches.
SwitchCall(t) ==
    LET i == SelectInSeq(Cases, LAMBDA c : c.label = t)
    IN  IF i = 0 THEN {} ELSE {Cases[i].svc}

\* `if (this.creationType)`: 0 and undefined are falsy.
Truthy(t) == t \notin {PROJECT_OWNED, NoType}

VARIABLES
    creationType,              \* this.creationType
    showCreationTypeSelector,  \* this.showCreationTypeSelector
    memberRoleOptions,         \* this.memberRoleOptions ("none" = [])
    roles,                     \* this.roles ("none" = [])
    pending,                   \* unanswered role-list calls: [id, svc]
    nCalls,                    \* calls started so far (ids)
    choices,                   \* types picked in the selector so far
    result,                    \* the value the dialog closed with (kind "open" before)
    failed                     \* observer: the last role-list answer was an error

vars == <<creationType, showCreationTypeSelector, memberRoleOptions, roles, pending,
          nCalls, choices, result, failed>>

\* loadRoles(): start the matching call, if any.
loadRoles(t) ==
    /\ pending' = pending \cup {[id |-> nCalls, svc |-> s] : s \in SwitchCall(t)}
    /\ nCalls' = nCalls + Len(SetToSeq(SwitchCall(t)))

Init ==
    \E t \in CreationTypes \cup {NoType} :
       /\ creationType = t
       /\ memberRoleOptions = "none" /\ roles = "none"
       /\ choices = 0 /\ result = [kind |-> "open", roles |-> "none"] /\ failed = FALSE
       /\ IF Truthy(t)
          THEN /\ showCreationTypeSelector = FALSE
               /\ pending = {[id |-> 0, svc |-> s] : s \in SwitchCall(t)}
               /\ nCalls = Len(SetToSeq(SwitchCall(t)))
          ELSE /\ showCreationTypeSelector = TRUE
               /\ pending = {} /\ nCalls = 0

\* The user picks a type in the selector; the template binds it to
\* creationType and calls loadRoles().
selectCreationType(t) ==
    /\ showCreationTypeSelector /\ result.kind = "open"
    /\ choices < MaxChoices
    /\ creationType' = t
    /\ loadRoles(t)
    /\ choices' = choices + 1
    /\ UNCHANGED <<showCreationTypeSelector, memberRoleOptions, roles, result, failed>>

\* .then(resp => this.memberRoleOptions = resp.toObject().rolesList): runs
\* whenever the answer arrives, for whichever type it was started.
RolesAnswered(c) ==
    /\ c \in pending
    /\ memberRoleOptions' = RolesOf[c.svc]
    /\ pending' = pending \ {c}
    /\ failed' = FALSE
    /\ UNCHANGED <<creationType, showCreationTypeSelector, roles, nCalls, choices, result>>

\* .catch(error => this.toastService.showError(error))
RolesFailed(c) ==
    /\ c \in pending
    /\ pending' = pending \ {c}
    /\ failed' = TRUE
    /\ UNCHANGED <<creationType, showCreationTypeSelector, memberRoleOptions, roles,
                   nCalls, choices, result>>

setOrgMemberRoles(rs) ==
    /\ result.kind = "open"
    /\ roles' = rs
    /\ UNCHANGED <<creationType, showCreationTypeSelector, memberRoleOptions, pending,
                   nCalls, choices, result, failed>>

closeDialog ==
    /\ result.kind = "open"
    /\ result' = [kind |-> "false", roles |-> "none"]
    /\ UNCHANGED <<creationType, showCreationTypeSelector, memberRoleOptions, roles,
                   pending, nCalls, choices, failed>>

\* dialogRef.close({ users, roles }): the users are not modelled.
closeDialogWithSuccess ==
    /\ result.kind = "open"
    /\ result' = [kind |-> "data", roles |-> roles]
    /\ UNCHANGED <<creationType, showCreationTypeSelector, memberRoleOptions, roles,
                   pending, nCalls, choices, failed>>

Next ==
    \/ \E t \in CreationTypes : selectCreationType(t)
    \/ \E c \in pending : RolesAnswered(c) \/ RolesFailed(c)
    \/ \E rs \in OrgRoles : setOrgMemberRoles(rs)
    \/ closeDialog
    \/ closeDialogWithSuccess

\* Every backend call resolves or rejects; the user owes nothing.
Fairness ==
    \A i \in 0 .. MaxChoices : \A s \in Services :
       WF_vars(RolesAnswered([id |-> i, svc |-> s]) \/ RolesFailed([id |-> i, svc |-> s]))

Spec == Init /\ [][Next]_vars /\ Fairness

-----------------------------------------------------------------------------

\* The member-role list each creation type with member roles should offer,
\* by the service the component injects for it.
ExpectedRoles ==
    (PROJECT_OWNED :> RolesOf["GetProjectMemberRoles"])
    @@ (PROJECT_GRANTED :> RolesOf["GetProjectGrantMemberRoles"])
    @@ (IAM :> RolesOf["GetIamMemberRoles"])

=============================================================================
