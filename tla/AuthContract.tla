---------------------------- MODULE AuthContract ----------------------------
(***************************************************************************)
(* What the console's gRPC authorization interceptor promises (spec.md     *)
(* 4.1): every outbound call is handed on to the next handler exactly      *)
(* once; if the caller put no Authorization entry into its metadata, the   *)
(* entry becomes "Bearer " followed by the access token stored at that     *)
(* moment, if one is stored; an entry already present is never changed;    *)
(* the caller gets the next handler's answer unchanged.                    *)
(***************************************************************************)
EXTENDS AuthHeaders, Functions, TLC

(***************************************************************************)
(* A call is waiting (with the entry its caller put in), handed on (with   *)
(* the entry the next handler sees) or answered; each of these is a        *)
(* function on the calls in that stage.                                    *)
(***************************************************************************)
VARIABLES
    store,     \* the access token stored now, or NoToken
    accepted,  \* tokens the backend accepts
    waiting,   \* calls not yet handed on -> the caller's entry
    handedOn,  \* calls handed on -> the entry they carry
    replies,   \* answered calls -> the answer their caller gets
    nChanges   \* token store changes so far

vars == <<store, accepted, waiting, handedOn, replies, nChanges>>

NoCalls == [r \in {} |-> NoHeader]

Init ==
    /\ store \in StoreValues
    /\ accepted = IF store \in Tokens THEN {store} ELSE {}
    /\ waiting \in [Requests -> CallerHeaders]
    /\ handedOn = NoCalls
    /\ replies = NoCalls
    /\ nChanges = 0

\* The entry promised for a call: the caller's own if it set one, else the
\* bearer of the token stored when the call is handed on, if any.
Promised(h) == IF h = NoHeader /\ store \in Tokens THEN Bearer(store) ELSE h

\* A waiting call reaches the next handler with the promised entry.
Send(r) ==
    /\ r \in DOMAIN waiting
    /\ handedOn' = handedOn @@ (r :> Promised(waiting[r]))
    /\ waiting' = Restrict(waiting, DOMAIN waiting \ {r})
    /\ UNCHANGED <<store, accepted, replies, nChanges>>

\* The next handler's answer goes back to the caller unchanged.
Answer(r) ==
    /\ r \in DOMAIN handedOn \ DOMAIN replies
    /\ replies' = replies @@ (r :> BackendAnswer(handedOn[r], accepted))
    /\ UNCHANGED <<store, accepted, waiting, handedOn, nChanges>>

(***************************************************************************)
(* The token store, written by the login flow outside this code.           *)
(***************************************************************************)

\* Login or silent refresh stores a fresh token the backend accepts.
StoreToken(t) ==
    /\ nChanges < MaxStoreChanges
    /\ store' = t
    /\ accepted' = accepted \cup {t}
    /\ nChanges' = nChanges + 1
    /\ UNCHANGED <<waiting, handedOn, replies>>

\* Logout clears the stored token.
ClearToken ==
    /\ nChanges < MaxStoreChanges
    /\ store' = NoToken
    /\ nChanges' = nChanges + 1
    /\ UNCHANGED <<accepted, waiting, handedOn, replies>>

\* A token expires: the backend stops accepting it.
TokenExpires(t) ==
    /\ nChanges < MaxStoreChanges
    /\ t \in accepted
    /\ accepted' = accepted \ {t}
    /\ nChanges' = nChanges + 1
    /\ UNCHANGED <<store, waiting, handedOn, replies>>

StoreChange ==
    \/ \E t \in Tokens : StoreToken(t) \/ TokenExpires(t)
    \/ ClearToken

Next ==
    \/ \E r \in Requests : Send(r) \/ Answer(r)
    \/ StoreChange

Spec == Init /\ [][Next]_vars /\ \A r \in Requests : WF_vars(Send(r) \/ Answer(r))
=============================================================================
