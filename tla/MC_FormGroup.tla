----------------------------- MODULE MC_FormGroup -----------------------------
EXTENDS FormGroup

(***************************************************************************)
(* A registration-like group: a password under the console's password     *)
(* policy validators plus the phone pattern, its confirmation, a name      *)
(* relabelled through i18nValidator and a list of redirect URIs under      *)
(* minArrayLengthValidator.                                                *)
(***************************************************************************)
MCControls == {"password", "confirm", "email", "uris"}

MCChecksOf ==
    ("password" :> <<"required", "minLength", "symbol", "number", "upper", "lower", "phone">>)
    @@ ("confirm" :> <<"passwordConfirm">>)
    @@ ("email" :> <<"i18nRequired", "email">>)
    @@ ("uris" :> <<"minArrayLength">>)

\* Every text of up to two characters, and the three-character values the
\* phone pattern's '00' branch needs.
TextValues ==
    BoundedSeq(Chars, 2) \cup {<<"0", "0", "1">>, <<"0", "0", "a">>, <<"0", "0", " ">>}

\* Addresses each pattern branch accepts or refuses: missing parts, a dot
\* at the local part's start, hosts with a hyphen or a dot at an edge.
EmailValues ==
    { <<>>, <<"a">>, <<"a", "@">>, <<"@", "a">>, <<"a", "@", "a">>,
      <<"a", "+", "@", "0">>, <<".", "a", "@", "a">>, <<"a", "@", "-", "a">>,
      <<"a", "@", "a", ".">>, <<"a", "@", "0", "-", "a">>,
      <<"a", ".", "a", "@", "a", ".", "a">>, <<"a", "@", "a", "-", ".", "a">> }

\* No list, too short, blank entries of either kind, and long enough.
UriLists ==
    { <<>>, <<"r">>, <<"">>, <<"r", "r">>, <<"r", " ">>, <<" ", "">> }

MCValuesOf ==
    ("password" :> TextValues)
    @@ ("confirm" :> BoundedSeq({"a", "1"}, 1))
    @@ ("email" :> EmailValues)
    @@ ("uris" :> UriLists)

\* FormBuilder values: '' for the texts, [] for the list.
MCInitialOf == [ctl \in MCControls |-> <<>>]
=============================================================================
