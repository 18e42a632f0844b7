---------------------------- MODULE AuthHeaders ----------------------------
(***************************************************************************)
(* Values shared by the interceptor's contract and its implementation:     *)
(* the contents of the Authorization metadata entry, the values the        *)
(* StorageService can return for 'access_token', and the backend's        *)
(* verdict on a call.                                                      *)
(***************************************************************************)
EXTENDS Naturals

CONSTANTS
    Requests,        \* outbound gRPC calls (model values)
    Tokens,          \* non-empty access tokens (model values)
    NoToken,         \* getItem('access_token') finds nothing (null)
    NoHeader,        \* metadata has no Authorization entry
    EmptyHeader,     \* metadata['Authorization'] = '' (present, falsy)
    CallerAuth,      \* an Authorization entry the caller set itself
    CallerHeaders,   \* the entries callers may pass in
    MaxStoreChanges  \* bound: logins, refreshes, logouts and expiries

ASSUME /\ NoToken \notin Tokens
       /\ CallerHeaders \subseteq {NoHeader, EmptyHeader, CallerAuth}
       /\ MaxStoreChanges \in Nat

\* bearerPrefix + accessToken: the prefix followed by the token.
Bearer(t) == <<"Bearer ", t>>

HeaderValues == {NoHeader, EmptyHeader, CallerAuth} \cup {Bearer(t) : t \in Tokens}

StoreValues == Tokens \cup {NoToken}

\* The backend accepts a bearer token it still considers valid and, by
\* assumption, a credential the caller supplied itself.
BackendAnswer(h, valid) ==
    IF h = CallerAuth \/ \E t \in valid : h = Bearer(t)
    THEN "ok" ELSE "unauthenticated"
=============================================================================
