----------------------------- MODULE MC_AppCreate -----------------------------
EXTENDS AppCreate

\* One chip input that trims to a URI and one of spaces only.
MCUriInputs == {"u", " "}
MCTrimOf == ("u" :> "u") @@ (" " :> "")
=============================================================================
