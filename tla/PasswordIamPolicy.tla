-------------------------- MODULE PasswordIamPolicy --------------------------
(***************************************************************************)
(* PasswordIamPolicyComponent (modules/policies/password-iam-policy): the  *)
(* org IAM policy page.  Every route.data emission (switchMap to          *)
(* route.params) sets the service type and starts getData, whose answer    *)
(* replaces iamData whenever it arrives.  savePolicy chooses between       *)
(* CreateOrgIamPolicy and UpdateOrgIamPolicy from the pb_default flag of   *)
(* the iamData it holds, and never reloads it.  The backend keeps whether *)
(* the org has its own policy.                                             *)
(***************************************************************************)
EXTENDS Integers

CONSTANTS
    MaxEmissions,  \* bound on route emissions
    MaxSaves,      \* bound on savePolicy calls
    Undefined      \* JavaScript undefined (iamData before an answer)

\* data.serviceType of a route emission.  The routes of
\* password-iam-policy-routing.module.ts set none, so the value is the
\* parent route's (outside the sample) when inherited, else undefined.
ServiceTypes == {"MGMT", "ADMIN", Undefined}

VARIABLES
    custom,       \* backend: the org has its own policy (else it uses the default)
    org,          \* this.org taken from session storage: TRUE when present
    serviceType,  \* this.serviceType
    iamData,      \* this.iamData: [pb_default] or Undefined
    gets,         \* unanswered getData calls (ids)
    saves,        \* unanswered save calls: [id, kind]
    nEmissions,   \* route emissions so far (ids of getData calls)
    nSaves,       \* savePolicy calls so far
    thrown        \* observer: savePolicy threw a TypeError

vars == <<custom, org, serviceType, iamData, gets, saves, nEmissions, nSaves, thrown>>

\* The policy view the backend returns: pb_default when the org has none of its own.
PolicyView == [pb_default |-> ~custom]

\* Constructor: the org from session storage, serviceType MGMT until the
\* first route emission.
Init ==
    /\ custom \in BOOLEAN /\ org \in BOOLEAN
    /\ serviceType = "MGMT" /\ iamData = Undefined
    /\ gets = {} /\ saves = {} /\ nEmissions = 0 /\ nSaves = 0 /\ thrown = FALSE

\* getData(): MGMT asks GetMyOrgIamPolicy; ADMIN asks GetOrgIamPolicy only
\* when org?.id; otherwise (no org, or no case matching) it resolves
\* undefined and `if (data)` skips it.
getData(st) == IF st = "MGMT" \/ (st = "ADMIN" /\ org) THEN gets \cup {nEmissions} ELSE gets

\* route.data emits (d.serviceType); switchMap subscribes to route.params,
\* which emits at once; the subscriber calls getData.
routeEmission(st) ==
    /\ nEmissions < MaxEmissions
    /\ serviceType' = st
    /\ gets' = getData(st)
    /\ nEmissions' = nEmissions + 1
    /\ UNCHANGED <<custom, org, iamData, saves, nSaves, thrown>>

\* getData().then(data => if (data) this.iamData = data.toObject())
GetAnswered(g) ==
    /\ g \in gets
    /\ iamData' = PolicyView
    /\ gets' = gets \ {g}
    /\ UNCHANGED <<custom, org, serviceType, saves, nEmissions, nSaves, thrown>>

\* A failed getData: no catch, iamData stays.
GetFailed(g) ==
    /\ g \in gets
    /\ gets' = gets \ {g}
    /\ UNCHANGED <<custom, org, serviceType, iamData, saves, nEmissions, nSaves, thrown>>

\* savePolicy(): MGMT creates when iamData says pb_default, else updates;
\* ADMIN updates.  Reading pb_default or userLoginMustBeDomain of undefined
\* iamData, or org.id without an org, throws before any call.  With no
\* service type no case matches and nothing happens.
savePolicy ==
    LET kind == IF serviceType = "MGMT" /\ iamData # Undefined /\ iamData.pb_default
                THEN "create" ELSE "update"
        throws == iamData = Undefined \/ ~org
    IN  /\ nSaves < MaxSaves
        /\ nSaves' = nSaves + 1
        /\ CASE serviceType = Undefined -> UNCHANGED <<saves, thrown>>
             [] throws -> thrown' = TRUE /\ UNCHANGED saves
             [] OTHER  -> saves' = saves \cup {[id |-> nSaves, kind |-> kind]} /\ UNCHANGED thrown
        /\ UNCHANGED <<custom, org, serviceType, iamData, gets, nEmissions>>

\* The backend answers a save: a create succeeds only while the org has no
\* policy of its own, an update only while it has; the component shows a
\* toast either way and keeps iamData.
SaveAnswered(c) ==
    /\ c \in saves
    /\ saves' = saves \ {c}
    /\ custom' = (custom \/ (c.kind = "create"))
    /\ UNCHANGED <<org, serviceType, iamData, gets, nEmissions, nSaves, thrown>>

Next ==
    \/ \E st \in ServiceTypes : routeEmission(st)
    \/ \E g \in gets : GetAnswered(g) \/ GetFailed(g)
    \/ savePolicy
    \/ \E c \in saves : SaveAnswered(c)

Spec == Init /\ [][Next]_vars

-----------------------------------------------------------------------------

\* savePolicy sends CreateOrgIamPolicy only while the org has no policy of
\* its own: the pb_default test it makes on iamData is meant to say so.
CreateOnlyOverDefault ==
    [][\A c \in saves' \ saves : c.kind = "create" => ~custom]_vars
=============================================================================
