------------------------ MODULE DomainVerification ------------------------
(***************************************************************************)
(* DomainVerificationComponent (pages/orgs/org-detail/domain-verification) *)
(* : the dialog that generates an org domain's HTTP and DNS validation     *)
(* tokens and lets the user ask for validation.  The constructor starts    *)
(* loadTokens, which awaits the HTTP token and then the DNS token; its     *)
(* `then` turns the HTTP token into the download link.  validate asks the  *)
(* backend and closes the dialog on success.  Neither promise has a catch. *)
(***************************************************************************)
EXTENDS Naturals

CONSTANTS
    Undefined,    \* a field not yet assigned
    MaxValidates  \* bound on validate clicks

VARIABLES
    load,        \* where loadTokens is: "http", "dns" (awaiting), "resolved", "rejected"
    http, dns,   \* this.http, this.dns: "token" or Undefined
    link,        \* the download link's href is the HTTP token's blob URL
    open,        \* the dialog is open
    validating,  \* unanswered ValidateMyOrgDomain calls
    nValidates   \* validate clicks so far

vars == <<load, http, dns, link, open, validating, nValidates>>

\* Constructor: loadTokens() starts with GenerateMyOrgDomainValidation(HTTP).
Init ==
    /\ load = "http" /\ http = Undefined /\ dns = Undefined
    /\ link = FALSE /\ open = TRUE
    /\ validating = 0 /\ nValidates = 0

\* First await resolves: this.http is set, the DNS generation is sent.
HttpGenerated ==
    /\ load = "http"
    /\ http' = "token" /\ load' = "dns"
    /\ UNCHANGED <<dns, link, open, validating, nValidates>>

\* Second await resolves: this.dns is set, loadTokens resolves and its
\* `then` sets link.href to a blob of this.http.token.
DnsGenerated ==
    /\ load = "dns"
    /\ dns' = "token" /\ load' = "resolved"
    /\ link' = TRUE
    /\ UNCHANGED <<http, open, validating, nValidates>>

\* An await rejects: loadTokens rejects, the `then` never runs, and the
\* rejection is unhandled.
GenerationFailed ==
    /\ load \in {"http", "dns"}
    /\ load' = "rejected"
    /\ UNCHANGED <<http, dns, link, open, validating, nValidates>>

\* closeDialog(): dialogRef.close(false).
closeDialog ==
    /\ open
    /\ open' = FALSE
    /\ UNCHANGED <<load, http, dns, link, validating, nValidates>>

\* validate(): ValidateMyOrgDomain(domain) sent.
validate ==
    /\ open /\ nValidates < MaxValidates
    /\ validating' = validating + 1 /\ nValidates' = nValidates + 1
    /\ UNCHANGED <<load, http, dns, link, open>>

\* .then: dialogRef.close(false) (a no-op on a closed dialog).
Validated ==
    /\ validating > 0
    /\ validating' = validating - 1 /\ open' = FALSE
    /\ UNCHANGED <<load, http, dns, link, nValidates>>

\* A rejected validation: no catch, the dialog stays as it is.
ValidationFailed ==
    /\ validating > 0
    /\ validating' = validating - 1
    /\ UNCHANGED <<load, http, dns, link, open, nValidates>>

Next ==
    \/ HttpGenerated \/ DnsGenerated \/ GenerationFailed
    \/ closeDialog \/ validate \/ Validated \/ ValidationFailed

\* Every backend call settles (the transport times out).
Spec == Init /\ [][Next]_vars
        /\ WF_vars(HttpGenerated \/ DnsGenerated \/ GenerationFailed)
        /\ WF_vars(Validated \/ ValidationFailed)

-----------------------------------------------------------------------------

\* Once loadTokens has settled on an open dialog, the HTTP token it
\* generated is offered as the download: the constructor's `then` is
\* meant to turn this.http into the link whenever there is one.
DownloadOfferedForHttpToken ==
    (load \in {"resolved", "rejected"} /\ open /\ http # Undefined) => link
=============================================================================
