----------------------------- MODULE Validators -----------------------------
(***************************************************************************)
(* The console's form validators (console/src/app/modules/form-field/      *)
(* validators/validators.ts) as operators on a control's value, and the    *)
(* parts of Angular's forms they build on (Validators.required,            *)
(* Validators.minLength, Validators.compose).                              *)
(*                                                                         *)
(* A text value is a sequence of characters drawn from one representative  *)
(* per character class the regular expressions tell apart.  An array      *)
(* value (minArrayLengthValidator) is a sequence of opaque strings.        *)
(* JavaScript's null, undefined and a thrown TypeError are model values;  *)
(* an errors object is a function from keys to payloads.                   *)
(***************************************************************************)
EXTENDS Integers, Sequences, SequencesExt, TLC

Letters == {"a", "A"}
Digits == {"0", "1"}
Chars == Letters \cup Digits \cup {"+", " ", "#"}

CONSTANTS
    Null,       \* JavaScript null
    Undefined,  \* JavaScript undefined
    Throws      \* the validator threw a TypeError instead of returning

\* The keys of a validation result: none for null, undefined or a throw.
ErrorKeys(e) == IF e \in {Null, Undefined, Throws} THEN {} ELSE DOMAIN e

\* Array entries and what String.prototype.trim makes of them.
Entries == {"", " ", "r"}
Trim == ("" :> "") @@ (" " :> "") @@ ("r" :> "r")

-----------------------------------------------------------------------------
(***************************************************************************)
(* i18n keys: 'ERRORS.<WORD>' as a sequence of words and dots.             *)
(***************************************************************************)

I18nKey ==
    ("symbol" :> <<"ERRORS", ".", "SYMBOLERROR">>)
    @@ ("number" :> <<"ERRORS", ".", "NUMBERERROR">>)
    @@ ("upper" :> <<"ERRORS", ".", "UPPERCASEMISSING">>)
    @@ ("lower" :> <<"ERRORS", ".", "LOWERCASEMISSING">>)
    @@ ("phone" :> <<"ERRORS", ".", "PHONE">>)
    @@ ("required" :> <<"ERRORS", ".", "REQUIRED">>)
    @@ ("minArrayLength" :> <<"ERRORS", ".", "ATLEASTONE">>)
    @@ ("minLength" :> <<"ERRORS", ".", "MINLENGTH">>)
    @@ ("passwordConfirm" :> <<"ERRORS", ".", "PWNOTEQUAL">>)
    @@ ("email" :> <<"ERRORS", ".", "NOTANEMAIL">>)

\* toLowerCase, word by word.
LowerWord ==
    ("ERRORS" :> "errors") @@ ("." :> ".")
    @@ ("SYMBOLERROR" :> "symbolerror") @@ ("NUMBERERROR" :> "numbererror")
    @@ ("UPPERCASEMISSING" :> "uppercasemissing")
    @@ ("LOWERCASEMISSING" :> "lowercasemissing")
    @@ ("PHONE" :> "phone") @@ ("REQUIRED" :> "required")
    @@ ("ATLEASTONE" :> "atleastone") @@ ("MINLENGTH" :> "minlength")
    @@ ("PWNOTEQUAL" :> "pwnotequal") @@ ("NOTANEMAIL" :> "notanemail")

\* The key as the string it is in the source.
KeyString(k) == FoldLeft(LAMBDA acc, w : acc \o w, "", k)

\* i18nKey.toLowerCase().replaceAll('.', ''): the errors object's key.
ErrorKey(k) == FoldLeft(LAMBDA acc, w : IF w = "." THEN acc ELSE acc \o LowerWord[w], "", k)

-----------------------------------------------------------------------------
(***************************************************************************)
(* i18nErr and the regular-expression validators.                          *)
(***************************************************************************)

\* {...err}: spreading undefined adds nothing.
Spread(err) == IF err = Undefined THEN <<>> ELSE err

\* i18nErr(err, i18nKey, params): later keys of the literal win.
I18nErr(err, k, params) ==
    IF err = Null THEN Null
    ELSE (ErrorKey(k) :> [valid |-> FALSE, i18nKey |-> KeyString(k), params |-> params])
         @@ ("invalid" :> TRUE) @@ Spread(err)

\* regexp.test(value) for a pattern without anchors: some character of the
\* value is in the pattern's class.
Test(class, s) == \E i \in 1 .. Len(s) : s[i] \in class

\* Variant of the class without flag i: an upper-case letter counts as a
\* symbol.  ErrorsMatchRules must detect it.
SymbolClassCaseSensitive == Chars \ ({"a"} \cup Digits)

\* [^a-z0-9] under flag i: neither a letter of either case nor a digit.
SymbolClass == Chars \ (Letters \cup Digits)

\* /^($|(\+|00)[0-9 ]+$)/.test(value)
PhoneTest(s) ==
    \/ s = <<>>
    \/ \E p \in {<<"+">>, <<"0", "0">>} :
          /\ Len(s) > Len(p) /\ SubSeq(s, 1, Len(p)) = p
          /\ \A i \in Len(p) + 1 .. Len(s) : s[i] \in Digits \cup {" "}

regexpValidator(s, matches, k, re) ==
    IF s = <<>> \/ matches THEN Null ELSE I18nErr("invalid" :> TRUE, k, "regexp" :> re)

containsSymbolValidator(s) ==
    regexpValidator(s, Test(SymbolClass, s), I18nKey["symbol"], "[^a-z0-9]/gi")
containsNumberValidator(s) ==
    regexpValidator(s, Test(Digits, s), I18nKey["number"], "[0-9]/g")
containsUpperCaseValidator(s) ==
    regexpValidator(s, Test({"A"}, s), I18nKey["upper"], "[A-Z]/g")
containsLowerCaseValidator(s) ==
    regexpValidator(s, Test({"a"}, s), I18nKey["lower"], "[a-z]/g")
phoneValidator(s) ==
    regexpValidator(s, PhoneTest(s), I18nKey["phone"], "^($|(+|00)[0-9 ]+$)")

-----------------------------------------------------------------------------
(***************************************************************************)
(* Validators built on Angular's.                                          *)
(***************************************************************************)

\* Angular's isEmptyInputValue: null, undefined, or a string or array of
\* length 0.
IsEmptyInput(v) == v = Undefined \/ v = <<>>

requiredValidator(v) ==
    I18nErr(IF IsEmptyInput(v) THEN "required" :> TRUE ELSE Null,
            I18nKey["required"], Undefined)

(***************************************************************************)
(* Angular's Validators.email: EMAIL_REGEXP, structure for structure.     *)
(*   ^(?=.{1,254}$)(?=.{1,64}@) atext+(\.atext+)* @ label(\.label)* $       *)
(* with label = [A-Za-z0-9]([A-Za-z0-9-]{0,61}[A-Za-z0-9])?.  E-mail       *)
(* values are drawn from one letter, one digit and '+', '-', '.', '@'.     *)
(***************************************************************************)

EmailChars == {"a", "0", "+", "-", ".", "@"}
AlNum == Letters \cup Digits
\* The atext class of the local part, within EmailChars.
AText == (EmailChars \cup AlNum) \ {".", "@"}

Within(s, class) == \A i \in 1 .. Len(s) : s[i] \in class

\* [A-Za-z0-9]([A-Za-z0-9-]{0,61}[A-Za-z0-9])?
Label(s) ==
    /\ 1 <= Len(s) /\ Len(s) <= 63
    /\ s[1] \in AlNum /\ s[Len(s)] \in AlNum
    /\ Within(s, AlNum \cup {"-"})

\* atext+ of the local part.
Atom(s) == s # <<>> /\ Within(s, AText)

Part(s, kind) == IF kind = "atom" THEN Atom(s) ELSE Label(s)

\* x(\.x)* for x an atom or a label: s is one x, or an x, a dot and again
\* x(\.x)*.
RECURSIVE DotSeparated(_, _)
DotSeparated(s, kind) ==
    \/ Part(s, kind)
    \/ \E i \in 2 .. Len(s) - 1 :
          s[i] = "." /\ Part(SubSeq(s, 1, i - 1), kind) /\ DotSeparated(SubSeq(s, i + 1, Len(s)), kind)

EmailTest(s) ==
    \E i \in 2 .. Len(s) - 1 :
       /\ s[i] = "@" /\ Len(s) <= 254 /\ i - 1 <= 64
       /\ DotSeparated(SubSeq(s, 1, i - 1), "atom")
       /\ DotSeparated(SubSeq(s, i + 1, Len(s)), "label")

\* Validators.email: empty values pass, otherwise { email: true } unless
\* the pattern matches.
angularEmail(v) == IF IsEmptyInput(v) \/ EmailTest(v) THEN Null ELSE "email" :> TRUE

\* emailValidator(c): Validators.email relabelled, no params.
emailValidator(v) == I18nErr(angularEmail(v), I18nKey["email"], Undefined)

\* Validators.minLength(n): empty values pass.
minLengthValidator(n, v) ==
    I18nErr(IF ~IsEmptyInput(v) /\ Len(v) < n
            THEN "minlength" :> [requiredLength |-> n, actualLength |-> Len(v)]
            ELSE Null,
            I18nKey["minLength"], [requiredLength |-> n])

\* arrayLengthValidator: arr.filter runs before the `arr &&` test, so an
\* undefined (or null) value throws.
arrayLengthValidator(v, n, k) ==
    IF v = Undefined THEN Throws
    ELSE IF Len(SelectSeq(v, LAMBDA e : Trim[e] = "")) = 0 /\ Len(v) >= n
         THEN Null
         ELSE I18nErr("invalid" :> TRUE, k, Undefined)

minArrayLengthValidator(n, v) == arrayLengthValidator(v, n, I18nKey["minArrayLength"])

\* Variant that tests the sibling's value for truthiness (`!pwd.value`)
\* instead of the control's existence: an empty password never mismatches.
passwordConfirmValidatorOnValue(hasParent, pwd, cpwd) ==
    IF ~hasParent \/ pwd = Undefined \/ pwd = <<>> THEN Null
    ELSE IF pwd # cpwd THEN I18nErr(Undefined, I18nKey["passwordConfirm"], Undefined)
    ELSE Null

\* passwordConfirmValidator(): hasParent is c.parent, pwd the sibling's value
\* (Undefined when c.parent.get(passwordControlName) finds no control).
passwordConfirmValidator(hasParent, pwd, cpwd) ==
    IF ~hasParent \/ pwd = Undefined THEN Null
    ELSE IF pwd # cpwd THEN I18nErr(Undefined, I18nKey["passwordConfirm"], Undefined)
    ELSE Null

\* i18nValidator(i18Key, validator, params) applied: params is not passed on.
i18nValidator(k, result, params) == I18nErr(result, k, Undefined)

\* Validators.compose: run all, merge the non-null results left to right
\* (later keys win), null when nothing is left; an exception propagates.
Compose(results) ==
    IF \E i \in 1 .. Len(results) : results[i] = Throws THEN Throws
    ELSE LET merged == FoldLeft(LAMBDA acc, r : IF r \in {Null, Undefined} THEN acc ELSE r @@ acc,
                                <<>>, results)
         IN  IF ErrorKeys(merged) = {} THEN Null ELSE merged
=============================================================================
