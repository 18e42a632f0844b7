------------------------------ MODULE AppCreate ------------------------------
(***************************************************************************)
(* AppCreateComponent (pages/projects/apps/app-create): the OIDC app       *)
(* creation stepper.  The first form group (name, applicationType) has a  *)
(* valueChanges subscription that sets option flags and the request        *)
(* object; the second (authMethodType) copies its value into the request. *)
(* The template toggles grant and response types and calls changeGrant /   *)
(* changeResponseType; saveOIDCApp sends the request and, on success,      *)
(* shows the secret dialog or navigates to the new app.                    *)
(***************************************************************************)
EXTENDS Integers, Sequences, SequencesExt

CONSTANTS
    Names,      \* values of the name control other than ''
    UriInputs,  \* chip inputs the user may type (before trim)
    TrimOf,     \* input -> its trimmed value
    MaxUris,    \* bound on each URI list's length
    MaxSaves,   \* bound on saveOIDCApp calls
    Projects,   \* project ids the route can carry
    MaxRouteChanges  \* bound on route params emissions after the first

AppTypes == {"WEB", "USER_AGENT", "NATIVE"}
\* The option arrays in declaration order.
ResponseTypes == <<"CODE", "ID_TOKEN", "ID_TOKEN_TOKEN">>
GrantTypes == <<"AUTHORIZATION_CODE", "IMPLICIT", "REFRESH_TOKEN">>
AuthMethods == <<"BASIC", "NONE", "POST">>
Targets == {"REDIRECT", "POSTREDIRECT"}

\* .filter(x => x.checked).map(x => x.type)
CheckedTypes(types, checked) == SelectSeq(types, LAMBDA x : x \in checked)

\* The auth-method options each application type's branch disables:
\* oidcAuthMethodType[1] for NATIVE, [0] and [2] for WEB and USER_AGENT.
DisabledBy(t) ==
    CASE t = "NATIVE" -> {AuthMethods[2]}
      [] t \in {"WEB", "USER_AGENT"} -> {AuthMethods[1], AuthMethods[3]}
      [] OTHER -> {}

VARIABLES
    name, applicationType,  \* firstFormGroup's controls ('' = empty)
    authMethodType,         \* secondFormGroup's control
    responseChecked,        \* oidcResponseTypes entries with checked
    grantChecked,           \* oidcGrantTypes entries with checked
    grantDisabled,          \* oidcGrantTypes entries with disabled
    authDisabled,           \* oidcAuthMethodType entries with disabled
    oidcApp,                \* this.oidcApp, the request object
    loading,                \* this.loading
    calls,                  \* ids of unanswered CreateOIDCApp calls
    nSaves,                 \* saveOIDCApp calls so far
    secretDialog,           \* id of the app whose secret dialog is open, or -1
    navigatedTo,            \* id of the app navigated to, Back, or -1
    projectId,              \* this.projectId, from the route's params
    nRoutes                 \* params emissions after the first so far

vars == <<name, applicationType, authMethodType, responseChecked, grantChecked,
          grantDisabled, authDisabled, oidcApp, loading, calls, nSaves, secretDialog,
          navigatedTo, projectId, nRoutes>>

\* Navigation by close(): location.back().
Back == -2

routeVars == <<projectId, nRoutes>>

formVars == <<name, applicationType, authMethodType, responseChecked, grantChecked,
              grantDisabled, authDisabled>>

\* The page is interactive: not left and no modal dialog open.
OnPage == navigatedTo = -1 /\ secretDialog = -1

\* Field initialisers, constructor (form groups, authMethodType BASIC), and
\* ngOnInit: route.params emits at once and getData copies its projectid.
Init ==
    /\ projectId \in Projects /\ nRoutes = 0
    /\ name = "" /\ applicationType = ""
    /\ authMethodType = "BASIC"
    /\ responseChecked = {}
    /\ grantChecked = {"AUTHORIZATION_CODE"}
    /\ grantDisabled = {"IMPLICIT", "REFRESH_TOKEN"}
    /\ authDisabled = {}
    /\ oidcApp = [name |-> "", applicationType |-> "", authMethodType |-> "BASIC",
                  responseTypesList |-> <<>>, grantTypesList |-> <<>>,
                  redirectUrisList |-> <<>>, postLogoutRedirectUrisList |-> <<>>,
                  projectId |-> projectId]
    /\ loading = FALSE /\ calls = {} /\ nSaves = 0
    /\ secretDialog = -1 /\ navigatedTo = -1

\* Variant of changeGrant without the filter: every grant type is sent.
\* SentAppMatchesForm must detect it.
changeGrantUnfiltered(app, checked) == [app EXCEPT !.grantTypesList = GrantTypes]

\* changeGrant(): the request's grant types are the checked options.
changeGrant(app, checked) ==
    [app EXCEPT !.grantTypesList = CheckedTypes(GrantTypes, checked)]

\* changeResponseType(): the request's response types are the checked options.
changeResponseType(app, checked) ==
    [app EXCEPT !.responseTypesList = CheckedTypes(ResponseTypes, checked)]

\* firstFormGroup.valueChanges handler for the group's new value (n, t): the
\* branch of the application type sets flags and calls
\* authMethodType.setValue(NONE), whose own subscription copies NONE into
\* the request; then changeResponseType, changeGrant, name and type.  Flags
\* set by an earlier type's branch are never reset.
FirstGroupChanged(n, t) ==
    LET typed == t \in AppTypes
        resp == IF typed THEN responseChecked \cup {"CODE"} ELSE responseChecked
        auth == IF typed THEN "NONE" ELSE authMethodType
        app == [oidcApp EXCEPT !.authMethodType = IF typed THEN "NONE" ELSE @,
                               !.name = n, !.applicationType = t]
    IN  /\ responseChecked' = resp
        /\ authMethodType' = auth
        /\ authDisabled' = authDisabled \cup DisabledBy(t)
        /\ grantDisabled' = IF t = "USER_AGENT" THEN grantDisabled \ {"IMPLICIT"} ELSE grantDisabled
        /\ oidcApp' = changeGrant(changeResponseType(app, resp), grantChecked)

UserVarsUnchanged == UNCHANGED <<loading, calls, nSaves, secretDialog, navigatedTo, routeVars>>

\* The user edits the name field.
setName(n) ==
    /\ OnPage
    /\ name' = n
    /\ FirstGroupChanged(n, applicationType)
    /\ UNCHANGED <<applicationType, grantChecked>> /\ UserVarsUnchanged

\* The user picks an application type (the select lists oidcAppTypes).
setApplicationType(t) ==
    /\ OnPage
    /\ applicationType' = t
    /\ FirstGroupChanged(name, t)
    /\ UNCHANGED <<name, grantChecked>> /\ UserVarsUnchanged

\* The user picks an enabled auth method; secondFormGroup.valueChanges.
selectAuthMethod(m) ==
    /\ OnPage /\ m \notin authDisabled
    /\ authMethodType' = m
    /\ oidcApp' = [oidcApp EXCEPT !.authMethodType = m]
    /\ UNCHANGED <<name, applicationType, responseChecked, grantChecked, grantDisabled,
                   authDisabled>> /\ UserVarsUnchanged

\* The user ticks or unticks an enabled grant type; the template calls changeGrant.
toggleGrant(g) ==
    /\ OnPage /\ g \notin grantDisabled
    /\ grantChecked' = IF g \in grantChecked THEN grantChecked \ {g} ELSE grantChecked \cup {g}
    /\ oidcApp' = changeGrant(oidcApp, grantChecked')
    /\ UNCHANGED <<name, applicationType, authMethodType, responseChecked, grantDisabled,
                   authDisabled>> /\ UserVarsUnchanged

\* The user ticks or unticks a response type; the template calls changeResponseType.
toggleResponseType(r) ==
    /\ OnPage
    /\ responseChecked' = IF r \in responseChecked THEN responseChecked \ {r}
                          ELSE responseChecked \cup {r}
    /\ oidcApp' = changeResponseType(oidcApp, responseChecked')
    /\ UNCHANGED <<name, applicationType, authMethodType, grantChecked, grantDisabled,
                   authDisabled>> /\ UserVarsUnchanged

ListOf(target) == IF target = "REDIRECT" THEN "redirectUrisList" ELSE "postLogoutRedirectUrisList"

\* Variant without the `value !== ''` test.  TypeOK must detect it.
addUriUnchecked(v, target) ==
    /\ OnPage /\ Len(oidcApp[ListOf(target)]) < MaxUris
    /\ oidcApp' = [oidcApp EXCEPT ![ListOf(target)] = Append(@, TrimOf[v])]
    /\ UNCHANGED formVars /\ UserVarsUnchanged

\* addUri(event, target): push the trimmed chip input unless it is empty.
addUri(v, target) ==
    /\ OnPage /\ Len(oidcApp[ListOf(target)]) < MaxUris
    /\ oidcApp' = IF TrimOf[v] # ""
                  THEN [oidcApp EXCEPT ![ListOf(target)] = Append(@, TrimOf[v])]
                  ELSE oidcApp
    /\ UNCHANGED formVars /\ UserVarsUnchanged

\* removeUri(uri, target) for a chip on the page: splice its first
\* occurrence (indexOf) when found.
removeUri(u, target) ==
    LET list == oidcApp[ListOf(target)]
        index == SelectInSeq(list, LAMBDA x : x = u) - 1
    IN  /\ OnPage
        /\ oidcApp' = IF index >= 0 THEN [oidcApp EXCEPT ![ListOf(target)] = RemoveAt(list, index + 1)]
                      ELSE oidcApp
        /\ UNCHANGED formVars /\ UserVarsUnchanged

\* route.params emits again while the component lives (the router reuses
\* it for another project): getData(params) copies the new projectid.
getData(p) ==
    /\ navigatedTo = -1 /\ nRoutes < MaxRouteChanges
    /\ projectId' = p /\ nRoutes' = nRoutes + 1
    /\ oidcApp' = [oidcApp EXCEPT !.projectId = p]
    /\ UNCHANGED <<formVars, loading, calls, nSaves, secretDialog, navigatedTo>>

\* close(): location.back() leaves the page.
close ==
    /\ OnPage
    /\ navigatedTo' = Back
    /\ UNCHANGED <<formVars, oidcApp, loading, calls, nSaves, secretDialog, routeVars>>

\* firstFormGroup's validators: Validators.required on name and on
\* applicationType.
FirstGroupValid == name # "" /\ applicationType # ""

\* The save button sits at the end of the template's linear mat-stepper (the
\* template is not in the sample): the user reaches it only past a valid
\* first step, and only while the page is not covered by the secret dialog
\* or left.
SaveReachable == OnPage /\ FirstGroupValid

\* saveOIDCApp(): loading on, CreateOIDCApp(this.oidcApp) sent.  Nothing in
\* the handler stops a second save while the first is unanswered.
saveOIDCApp ==
    /\ SaveReachable
    /\ nSaves < MaxSaves
    /\ loading' = TRUE
    /\ calls' = calls \cup {nSaves}
    /\ nSaves' = nSaves + 1
    /\ UNCHANGED <<formVars, oidcApp, secretDialog, navigatedTo, routeVars>>

\* .then: loading off, showSavedDialog(app): with an OIDC config the secret
\* dialog opens, without one the router navigates to the new app.  When two
\* saves were in flight the code would stack a second dialog over the first;
\* the model keeps the last one only (either dialog's close navigates away,
\* and no property reads which one is open).
CreateAnswered(c, hasOidcConfig) ==
    /\ c \in calls
    /\ calls' = calls \ {c}
    /\ loading' = FALSE
    /\ IF hasOidcConfig
       THEN secretDialog' = c /\ UNCHANGED navigatedTo
       ELSE navigatedTo' = c /\ UNCHANGED secretDialog
    /\ UNCHANGED <<formVars, oidcApp, nSaves, routeVars>>

\* Variant of the catch branch that leaves loading on.  LoadingSettles must
\* detect it.
CreateFailedKeepsLoading(c) ==
    /\ c \in calls
    /\ calls' = calls \ {c}
    /\ UNCHANGED <<formVars, oidcApp, loading, nSaves, secretDialog, navigatedTo, routeVars>>

\* .catch: loading off, error toast.
CreateFailed(c) ==
    /\ c \in calls
    /\ calls' = calls \ {c}
    /\ loading' = FALSE
    /\ UNCHANGED <<formVars, oidcApp, nSaves, secretDialog, navigatedTo, routeVars>>

\* dialogRef.afterClosed(): navigate to the app.
SecretDialogClosed ==
    /\ secretDialog # -1
    /\ navigatedTo' = secretDialog
    /\ secretDialog' = -1
    /\ UNCHANGED <<formVars, oidcApp, loading, calls, nSaves, routeVars>>

Next ==
    \/ \E n \in {""} \cup Names : setName(n)
    \/ \E t \in AppTypes : setApplicationType(t)
    \/ \E m \in ToSet(AuthMethods) : selectAuthMethod(m)
    \/ \E g \in ToSet(GrantTypes) : toggleGrant(g)
    \/ \E r \in ToSet(ResponseTypes) : toggleResponseType(r)
    \/ \E v \in UriInputs, target \in Targets : addUri(v, target)
    \/ \E target \in Targets : \E u \in ToSet(oidcApp[ListOf(target)]) : removeUri(u, target)
    \/ saveOIDCApp
    \/ \E c \in calls : (\E b \in BOOLEAN : CreateAnswered(c, b)) \/ CreateFailed(c)
    \/ SecretDialogClosed
    \/ \E p \in Projects : getData(p)
    \/ close

\* Every CreateOIDCApp call is answered; the user owes nothing.
Fairness ==
    \A c \in 0 .. MaxSaves - 1 :
       WF_vars((\E b \in BOOLEAN : CreateAnswered(c, b)) \/ CreateFailed(c))

Spec == Init /\ [][Next]_vars /\ Fairness

-----------------------------------------------------------------------------

Uris == {TrimOf[v] : v \in UriInputs} \ {""}

\* Flags hold option types, the request lists hold non-empty URIs within bound.
TypeOK ==
    /\ authMethodType \in ToSet(AuthMethods) /\ authDisabled \subseteq ToSet(AuthMethods)
    /\ responseChecked \subseteq ToSet(ResponseTypes)
    /\ grantChecked \subseteq ToSet(GrantTypes) /\ grantDisabled \subseteq ToSet(GrantTypes)
    /\ \A target \in Targets :
          oidcApp[ListOf(target)] \in Seq(Uris) /\ Len(oidcApp[ListOf(target)]) <= MaxUris

\* What the form shows, as a request.
FormApp ==
    [name |-> name, applicationType |-> applicationType, authMethodType |-> authMethodType,
     responseTypesList |-> CheckedTypes(ResponseTypes, responseChecked),
     grantTypesList |-> CheckedTypes(GrantTypes, grantChecked),
     redirectUrisList |-> oidcApp.redirectUrisList,
     postLogoutRedirectUrisList |-> oidcApp.postLogoutRedirectUrisList,
     projectId |-> projectId]

\* saveOIDCApp sends exactly what the form shows: the request object kept
\* up to date by the two valueChanges subscriptions, changeGrant and
\* changeResponseType agrees with the controls and ticked options.
SentAppMatchesForm ==
    [][nSaves' > nSaves => oidcApp = FormApp]_vars

\* Whenever saveOIDCApp's spinner is on, a state follows in which every
\* CreateOIDCApp call has been answered and the spinner is off: then and
\* catch both reset loading, and a save made while another is unanswered
\* leaves nothing on once both are answered.
LoadingSettles == loading ~> (~loading /\ calls = {})

\* Whatever application types the user picks in turn, some auth method
\* remains selectable: the option flags follow the current type.
AuthMethodSelectable ==
    applicationType \in AppTypes => \E m \in ToSet(AuthMethods) : m \notin authDisabled
=============================================================================
