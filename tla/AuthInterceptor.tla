--------------------------- MODULE AuthInterceptor ---------------------------
(***************************************************************************)
(* GrpcAuthInterceptor.intercept (console/src/app/services/               *)
(* grpc-auth.interceptor.ts) on several concurrent calls, while the login  *)
(* flow stores, refreshes and clears the access token.  intercept runs     *)
(* synchronously up to next.handle, so the header is fixed in one step;    *)
(* the answer comes back later, in any order among the calls.              *)
(***************************************************************************)
EXTENDS AuthHeaders, Functions

VARIABLES
    stored,    \* authStorage.getItem('access_token')
    valid,     \* tokens the backend accepts
    meta,      \* meta[r]: the Authorization entry of call r's metadata
    phase,     \* "calling" -> "handling" (next.handle awaited) -> "returned"
    answer,    \* what intercept's promise resolves to for call r
    nChanges   \* token store changes so far

vars == <<stored, valid, meta, phase, answer, nChanges>>

\* The contract's stages are the calls in each phase, with the entry in
\* their metadata (the caller's before intercept, the one handed on after)
\* and, once returned, their answer.
InPhase(p) == {r \in Requests : phase[r] = p}

Contract == INSTANCE AuthContract WITH
    store <- stored,
    accepted <- valid,
    waiting <- Restrict(meta, InPhase("calling")),
    handedOn <- Restrict(meta, InPhase("handling") \cup InPhase("returned")),
    replies <- Restrict(answer, InPhase("returned"))

\* JavaScript truthiness of the entry and of the stored value.
Truthy(h) == h \notin {NoHeader, EmptyHeader}

\* Variant that drops the `if (accessToken)` test: with nothing stored it
\* sends "Bearer " + null.  TypeOK must detect it.
AuthorizationUntested(h, token) ==
    IF Truthy(h) THEN h ELSE <<"Bearer ", token>>

\* Variant that drops the `!metadata[authorizationKey]` test and always
\* writes the stored token.  The contract must detect it.
AuthorizationClobbering(h, token) ==
    IF token \in Tokens THEN Bearer(token) ELSE h

\* Lines 21-26: the entry after the interceptor has looked at it.
Authorization(h, token) ==
    IF Truthy(h) THEN h
    ELSE IF token \in Tokens THEN Bearer(token) ELSE h

Init ==
    /\ stored \in StoreValues
    /\ valid = IF stored \in Tokens THEN {stored} ELSE {}
    /\ meta \in [Requests -> CallerHeaders]
    /\ phase = [r \in Requests |-> "calling"]
    /\ answer = [r \in Requests |-> "none"]
    /\ nChanges = 0

\* intercept(req, metadata, next) up to the call of next.handle.
intercept(r) ==
    /\ phase[r] = "calling"
    /\ meta' = [meta EXCEPT ![r] = Authorization(meta[r], stored)]
    /\ phase' = [phase EXCEPT ![r] = "handling"]
    /\ UNCHANGED <<stored, valid, answer, nChanges>>

\* next.handle settles; `return await` hands its result to the caller.
handle(r) ==
    /\ phase[r] = "handling"
    /\ answer' = [answer EXCEPT ![r] = BackendAnswer(meta[r], valid)]
    /\ phase' = [phase EXCEPT ![r] = "returned"]
    /\ UNCHANGED <<stored, valid, meta, nChanges>>

(***************************************************************************)
(* The token store, written by the login flow outside this code.           *)
(***************************************************************************)

\* Login or silent refresh: authStorage.setItem('access_token', t).
StoreToken(t) ==
    /\ nChanges < MaxStoreChanges
    /\ stored' = t /\ valid' = valid \cup {t}
    /\ nChanges' = nChanges + 1
    /\ UNCHANGED <<meta, phase, answer>>

\* Logout: the token is removed from storage.
ClearToken ==
    /\ nChanges < MaxStoreChanges
    /\ stored' = NoToken
    /\ nChanges' = nChanges + 1
    /\ UNCHANGED <<valid, meta, phase, answer>>

\* The token expires at the backend.
TokenExpires(t) ==
    /\ nChanges < MaxStoreChanges /\ t \in valid
    /\ valid' = valid \ {t}
    /\ nChanges' = nChanges + 1
    /\ UNCHANGED <<stored, meta, phase, answer>>

Next ==
    \/ \E r \in Requests : intercept(r) \/ handle(r)
    \/ \E t \in Tokens : StoreToken(t) \/ TokenExpires(t)
    \/ ClearToken

Spec == Init /\ [][Next]_vars /\ \A r \in Requests : WF_vars(intercept(r) \/ handle(r))

-----------------------------------------------------------------------------
TypeOK ==
    /\ stored \in StoreValues /\ valid \subseteq Tokens
    /\ meta \in [Requests -> HeaderValues]
    /\ phase \in [Requests -> {"calling", "handling", "returned"}]
    /\ answer \in [Requests -> {"none", "ok", "unauthenticated"}]
    /\ nChanges \in 0 .. MaxStoreChanges

\* intercept implements the contract of spec.md 4.1, concurrent token
\* changes included: the header is the caller's or the token stored when
\* the call was made, and every call is answered.
ImplementsContract == Contract!Spec
=============================================================================
