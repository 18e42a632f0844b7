------------------------------ MODULE FormGroup ------------------------------
(***************************************************************************)
(* A form group whose controls carry lists of the console's validators     *)
(* (validators.ts).  Angular's setValue on a control re-runs that          *)
(* control's validators, merged by Validators.compose, and then the        *)
(* group's own; it does not re-run a sibling's validators.  While          *)
(* FormBuilder builds the group each control validates before it has a    *)
(* parent, so passwordConfirmValidator's first result is null.            *)
(***************************************************************************)
EXTENDS Validators

CONSTANTS
    Controls,         \* the group's control names
    ChecksOf,         \* control -> its validators, in order (names)
    ValuesOf,         \* control -> the values the user may enter
    InitialOf,        \* control -> its value in the FormBuilder definition
    PasswordControl,  \* passwordConfirmValidator's passwordControlName
    MinLen            \* n of minLengthValidator(n) / minArrayLengthValidator(n)

VARIABLES
    value,       \* control -> control.value
    errors,         \* control -> control.errors
    confirmChecked  \* observer: the confirmation was validated with a parent
                    \* and the password has not changed since

vars == <<value, errors, confirmChecked>>

\* A control whose validator reads a sibling.
ReadsSibling(ctl) == "passwordConfirm" \in ToSet(ChecksOf[ctl])

\* c.parent.get(passwordControlName).value, undefined when there is no such control.
Sibling(vals) == IF PasswordControl \in Controls THEN vals[PasswordControl] ELSE Undefined

\* One validator of a control's list applied to its value.
RunCheck(c, v, hasParent, vals) ==
    CASE c = "symbol"          -> containsSymbolValidator(v)
      [] c = "number"          -> containsNumberValidator(v)
      [] c = "upper"           -> containsUpperCaseValidator(v)
      [] c = "lower"           -> containsLowerCaseValidator(v)
      [] c = "phone"           -> phoneValidator(v)
      [] c = "required"        -> requiredValidator(v)
      [] c = "minLength"       -> minLengthValidator(MinLen, v)
      [] c = "minArrayLength"  -> minArrayLengthValidator(MinLen, v)
      [] c = "passwordConfirm" -> passwordConfirmValidator(hasParent, Sibling(vals), v)
      [] c = "email"           -> emailValidator(v)
      [] c = "i18nRequired"    ->
            i18nValidator(I18nKey["required"],
                          IF IsEmptyInput(v) THEN "required" :> TRUE ELSE Null, Undefined)

\* Validators.compose over the control's list (updateValueAndValidity).
Validate(ctl, hasParent, vals) ==
    Compose([i \in 1 .. Len(ChecksOf[ctl]) |-> RunCheck(ChecksOf[ctl][i], vals[ctl], hasParent, vals)])

Init ==
    /\ value = InitialOf
    /\ errors = [ctl \in Controls |-> Validate(ctl, FALSE, InitialOf)]
    /\ confirmChecked = FALSE

\* control.setValue(v): the control's value and its validators' result
\* change together; the siblings' errors stay as they are.
setValue(ctl, v) ==
    /\ value' = [value EXCEPT ![ctl] = v]
    /\ errors' = [errors EXCEPT ![ctl] = Validate(ctl, TRUE, value')]
    /\ confirmChecked' = (ReadsSibling(ctl) \/ (confirmChecked /\ ctl # PasswordControl))

Next == \E ctl \in Controls : \E v \in ValuesOf[ctl] : setValue(ctl, v)

Spec == Init /\ [][Next]_vars

-----------------------------------------------------------------------------
(***************************************************************************)
(* Reference rules, written from spec.md 4.2 and 8 independently of the   *)
(* regular expressions: when must each validator fail?                     *)
(***************************************************************************)

IsLetter(ch) == ch \in {"a", "A"}
IsDigit(ch) == ch \in {"0", "1"}

RECURSIVE DigitsAndSpaces(_)
DigitsAndSpaces(s) ==
    s = <<>> \/ ((IsDigit(Head(s)) \/ Head(s) = " ") /\ DigitsAndSpaces(Tail(s)))

\* '+' or '00', then at least one digit or space, nothing else.
PhoneShape(s) ==
    \/ s # <<>> /\ Head(s) = "+" /\ Tail(s) # <<>> /\ DigitsAndSpaces(Tail(s))
    \/ Len(s) > 2 /\ s[1] = "0" /\ s[2] = "0" /\ DigitsAndSpaces(Tail(Tail(s)))

\* An address: exactly one '@'; before it a non-empty local part of atext
\* and dots, neither first nor last nor doubled; after it a non-empty host
\* of letters, digits, dots and hyphens in which a dot is never first, last
\* or doubled and a hyphen never touches a dot or an end.
AddressShape(v) ==
    LET at == {i \in 1 .. Len(v) : v[i] = "@"}
        Edge(lo, hi, i) == i = lo \/ i = hi
    IN  /\ Cardinality(at) = 1
        /\ LET p == CHOOSE i \in at : TRUE IN
           /\ 1 < p /\ p < Len(v)
           /\ \A i \in 1 .. p - 1 :
                 /\ v[i] \in {"a", "A", "0", "1", "+", "-", "."}
                 /\ v[i] = "." => ~Edge(1, p - 1, i) /\ v[i + 1] # "."
           /\ \A i \in p + 1 .. Len(v) :
                 /\ v[i] \in {"a", "A", "0", "1", "-", "."}
                 /\ v[i] = "." => ~Edge(p + 1, Len(v), i) /\ v[i + 1] \notin {".", "-"} /\ v[i - 1] # "-"
                 /\ v[i] = "-" => ~Edge(p + 1, Len(v), i)

\* An array entry made of spaces only.
IsBlank(e) == e \in {"", " "}

Fails(c, v) ==
    CASE c = "symbol"   -> v # <<>> /\ \A i \in 1 .. Len(v) : IsLetter(v[i]) \/ IsDigit(v[i])
      [] c = "number"   -> v # <<>> /\ \A i \in 1 .. Len(v) : ~IsDigit(v[i])
      [] c = "upper"    -> v # <<>> /\ \A i \in 1 .. Len(v) : v[i] # "A"
      [] c = "lower"    -> v # <<>> /\ \A i \in 1 .. Len(v) : v[i] # "a"
      [] c = "phone"    -> v # <<>> /\ ~PhoneShape(v)
      [] c \in {"required", "i18nRequired"} -> v = <<>>
      [] c = "email"    -> v # <<>> /\ ~AddressShape(v)
      [] c = "minLength" -> 0 < Len(v) /\ Len(v) < MinLen
      [] c = "minArrayLength" ->
            v = Undefined \/ Len(v) < MinLen \/ \E i \in 1 .. Len(v) : IsBlank(v[i])

\* The failure key of a validator.
CheckKey(c) == ErrorKey(IF c = "i18nRequired" THEN I18nKey["required"] ELSE I18nKey[c])

PwNotEqual == ErrorKey(I18nKey["passwordConfirm"])

-----------------------------------------------------------------------------

\* For every control that reads no sibling, its errors hold exactly the
\* keys of the validators whose rule its value breaks, and are null when it
\* breaks none (regexpValidator's classes and empty-value test,
\* Validators.required and minLength, arrayLengthValidator, all merged by
\* compose without losing a key).
ErrorsMatchRules ==
    \A ctl \in Controls : ~ReadsSibling(ctl) =>
       LET cs == ChecksOf[ctl]  v == value[ctl] IN
       /\ \A i \in 1 .. Len(cs) : CheckKey(cs[i]) \in ErrorKeys(errors[ctl]) <=> Fails(cs[i], v)
       /\ errors[ctl] = Null <=> \A i \in 1 .. Len(cs) : ~Fails(cs[i], v)

\* Once the user has edited the confirmation, and until the password
\* changes, it reports 'pwnotequal' exactly when its value differs from the
\* password's (passwordConfirmValidator's comparison through c.parent).
MismatchShownAfterConfirmEdit ==
    \A ctl \in Controls : ReadsSibling(ctl) /\ confirmChecked =>
       (value[ctl] # Sibling(value) <=> PwNotEqual \in ErrorKeys(errors[ctl]))

\* spec.md 4.2: the confirmation fails whenever the password and its value
\* differ, whichever of the two the user changed last.
MismatchAlwaysShown ==
    \A ctl \in Controls : ReadsSibling(ctl) =>
       (value[ctl] # Sibling(value) => PwNotEqual \in ErrorKeys(errors[ctl]))
=============================================================================
