------------------------- MODULE MC_AuthInterceptor -------------------------
(* Three concurrent calls, two tokens, up to four token store changes. *)
EXTENDS AuthInterceptor

CONSTANTS q1, q2, q3, t1, t2
=============================================================================
