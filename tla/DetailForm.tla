----------------------------- MODULE DetailForm -----------------------------
(***************************************************************************)
(* DetailFormComponent (console/src/app/pages/user-detail/detail-form):   *)
(* the profile form of the user detail page, through Angular's lifecycle. *)
(* The constructor builds the controls, reading the `disabled` input;     *)
(* Angular binds the inputs only afterwards, then calls ngOnInit, which   *)
(* patches the form with the profile and subscribes to the language       *)
(* control.  There is no ngOnChanges: later input changes reach the       *)
(* fields but not the form.                                               *)
(*                                                                         *)
(* A control's value is abstracted to where it came from: the constructor *)
(* default, a profile (a model value), or the user's typing.              *)
(***************************************************************************)
EXTENDS Naturals, Sequences

CONSTANTS
    Profiles,       \* profiles the parent may bind (model values)
    ProfileKeys,    \* ProfileKeys[p]: the own keys of profile p that name a control
    NoProfile,      \* the `profile!` field before Angular binds it
    Typed,          \* a value the user typed or picked
    UnboxedGender,  \* the object { value: 0 } held by the gender control
    MaxEdits        \* bound on user edits

Controls == {"userName", "firstName", "lastName", "nickName", "gender", "preferredLanguage"}

ASSUME ProfileKeys \in [Profiles -> SUBSET Controls]

\* The controls a user would edit on the profile page.
Editable == Controls \ {"userName"}

VARIABLES
    phase,            \* "constructed", "bound", "initialized", "destroyed"
    disabled,         \* @Input() disabled
    profile,          \* @Input() profile
    ctlDisabled,      \* ctlDisabled[c]: control c is disabled
    value,            \* value[c]: control c's value
    sub,              \* the preferredLanguage valueChanges subscription is live
    changedLanguage,  \* values emitted on the changedLanguage output
    submitData,       \* the last value emitted on submitData (or <<>>)
    nEdits

vars == <<phase, disabled, profile, ctlDisabled, value, sub, changedLanguage,
          submitData, nEdits>>

\* fb.group({...}): userName is boxed as { value: '', disabled: true }; the
\* four text-like controls are boxed with disabled: d; gender's state
\* { value: 0 } has no disabled key, so it is the control's value, and its
\* { disabled: d } argument is an options object without that option.
BuiltDisabled(d) ==
    [c \in Controls |-> c = "userName" \/ (c \notin {"userName", "gender"} /\ d)]

BuiltValue == [c \in Controls |-> IF c = "gender" THEN UnboxedGender ELSE ""]

\* The constructor: `disabled` still holds its initializer false.
Init ==
    /\ phase = "constructed"
    /\ disabled = FALSE
    /\ profile = NoProfile
    /\ ctlDisabled = BuiltDisabled(disabled)
    /\ value = BuiltValue
    /\ sub = FALSE
    /\ changedLanguage = <<>>
    /\ submitData = <<>>
    /\ nEdits = 0

\* Angular's first change detection sets the inputs.
BindInputs(d, p) ==
    /\ phase = "constructed"
    /\ phase' = "bound"
    /\ disabled' = d /\ profile' = p
    /\ UNCHANGED <<ctlDisabled, value, sub, changedLanguage, submitData, nEdits>>

\* FormGroup.patchValue(p): every control, disabled ones too, named by an
\* own key of p takes p's field; the other controls keep their value.
PatchValue(val, p) == [c \in Controls |-> IF c \in ProfileKeys[p] THEN p ELSE val[c]]

\* ngOnInit: the patch, then the language subscription starts; the patch
\* itself is therefore not emitted.
ngOnInit ==
    /\ phase = "bound"
    /\ phase' = "initialized"
    /\ value' = PatchValue(value, profile)
    /\ sub' = TRUE
    /\ UNCHANGED <<disabled, profile, ctlDisabled, changedLanguage, submitData, nEdits>>

\* A later change detection with new inputs: no ngOnChanges, so only the
\* fields change.
RebindInputs(d, p) ==
    /\ phase = "initialized"
    /\ <<d, p>> # <<disabled, profile>>
    /\ disabled' = d /\ profile' = p
    /\ UNCHANGED <<phase, ctlDisabled, value, sub, changedLanguage, submitData, nEdits>>

\* The user edits an enabled control; a language edit reaches the
\* valueChanges subscriber, which emits it on changedLanguage.
Edit(c) ==
    /\ phase = "initialized"
    /\ ~ctlDisabled[c]
    /\ nEdits < MaxEdits
    /\ value' = [value EXCEPT ![c] = Typed]
    /\ nEdits' = nEdits + 1
    /\ changedLanguage' = IF c = "preferredLanguage" /\ sub
                          THEN Append(changedLanguage, Typed) ELSE changedLanguage
    /\ UNCHANGED <<phase, disabled, profile, ctlDisabled, sub, submitData>>

\* submitData.emit(profileForm.value): the value of the enabled controls.
submitForm ==
    /\ phase = "initialized"
    /\ submitData' = [c \in {x \in Controls : ~ctlDisabled[x]} |-> value[c]]
    /\ UNCHANGED <<phase, disabled, profile, ctlDisabled, value, sub, changedLanguage, nEdits>>

ngOnDestroy ==
    /\ phase = "initialized"
    /\ phase' = "destroyed"
    /\ sub' = FALSE
    /\ UNCHANGED <<disabled, profile, ctlDisabled, value, changedLanguage, submitData, nEdits>>

Next ==
    \/ \E d \in BOOLEAN, p \in Profiles : BindInputs(d, p) \/ RebindInputs(d, p)
    \/ ngOnInit
    \/ \E c \in Controls : Edit(c)
    \/ submitForm
    \/ ngOnDestroy

Spec == Init /\ [][Next]_vars
=============================================================================
