# TLA+ models of the admin console (suffi386/devops1)

This directory holds TLA+ models of the parts of the repository that have
behaviour worth model checking. The repository is an Angular admin console for
an identity product, plus documentation and test helpers (see `spec.md`).
Nothing in it runs in parallel on threads. Its concurrency comes from
asynchronous backend calls. A component starts a call, the user keeps clicking,
and the promise callbacks run later in whatever order the answers arrive. Most
of the hazards below come from this pattern: state read before an `await` or a
`.then` and used after it.

## 1. Inventory

| Component | Source | State it keeps | Operations | Interacts with |
|---|---|---|---|---|
| Project roles table | `console/.../project-roles/project-roles.component.ts` | `dataSource.rolesSubject.value` (displayed array), `selection` (SelectionModel, multi), paginator page | `ngOnInit` (first load), `loadRolesPage` (paginator event), `selectAllOfGroup`, `masterToggle`, `isAllSelected`, `deleteSelectedRoles` (Promise.all over `RemoveProjectRole`), `removeRole` | ProjectService (backend), ProjectRolesDataSource (not in the sample), template checkboxes |
| gRPC auth interceptor | `console/.../services/grpc-auth.interceptor.ts` | none (reads the token store, writes the call's metadata) | `intercept` | StorageService (token written by the login flow), the next handler |
| Form validators | `console/.../form-field/validators/validators.ts` | none (pure functions) | regexp validators, `requiredValidator`, `minLengthValidator`, `emailValidator`, `minArrayLengthValidator`, `passwordConfirmValidator`, `i18nValidator`, `i18nErr` | Angular forms (runs them on value changes) |
| Member create dialog | `console/.../add-member-dialog/member-create-dialog.component.ts` | `creationType`, `memberRoleOptions`, `roles`, `users`, `showCreationTypeSelector` | constructor, `loadRoles`, `closeDialog`, `closeDialogWithSuccess`, `setOrgMemberRoles` | ProjectService, AdminService, ToastService, the dialog ref |
| OIDC app creation | `console/.../app-create/app-create.component.ts` | `oidcApp`, the option arrays with `checked`/`disabled` flags, three form groups, `loading` | form-value subscriptions, `saveOIDCApp`, `showSavedDialog`, `addUri`, `removeUri`, `changeGrant`, `changeResponseType` | ProjectService, router, secret dialog |
| Password/IAM policy | `console/.../password-iam-policy/password-iam-policy.component.ts` | `serviceType`, `org`, `iamData`, `managementService` | route `data`/`params` subscription, `getData`, `savePolicy`, `isDefault` | AdminService, ManagementService, session storage |
| Domain verification | `console/.../domain-verification/domain-verification.component.ts` | `http`, `dns` tokens | constructor (`loadTokens` and a download link), `validate`, `closeDialog` | OrgService, DOM |
| User detail form | `console/.../detail-form/detail-form.component.ts` | a form group | `ngOnInit` (patch + language subscription), `submitForm` | parent through outputs |
| Settings list | `console/.../settings-list/settings-list.component.ts` | `currentSetting` | `changeSelection` (private, unused) | none |
| Login page scripts | `internal/api/ui/login/static/resources/scripts/*.js` | DOM attributes | checkbox `change` handler, e-mail `input` handler | DOM |
| Module wiring, docs, e2e helpers | `*.module.ts`, `docs/**`, `e2e/**` | none | none | none |

Behaviours that are hard to get right, per component:

* **Project roles.** Page loads and deletions are unanswered at the same time.
  Delete callbacks splice an array by an index that was captured before the
  call. `Promise.all` can fail part-way. The selection outlives the page it was
  made on. *Correct means:* the table hides only deleted roles. Once everything
  is answered it shows no deleted role. The "all selected" state means every
  row is selected. The page shown is the paginator's page.
* **Interceptor.** Several calls are in flight while the login flow stores,
  refreshes or clears the token. *Correct means:* a caller's entry is never
  overwritten. Otherwise the entry is the token stored when the call was made,
  if there is one. Every call is answered, and the answer goes back unchanged.
* **Validators.** These are pure functions, with edge cases at empty and
  undefined input and in how error keys are derived. `passwordConfirmValidator`
  reads a sibling control, so its result goes stale when the sibling changes.
  *Correct means:* each validator matches its documented predicate.
  Composition keeps every key. The confirm field reports a mismatch whenever
  the two values differ.
* **Member dialog.** Roles are loaded for the chosen creation type.
  *Correct means:* every creation type that has member roles gets its list.
* **App creation.** Option flags (`disabled`, `checked`) are only ever set
  inside a value subscription, never reset. *Correct means:* the selected auth
  method is always an enabled option, and the options match the current
  application type, not the types chosen before it.
* **Policy.** `getData` answers are applied whenever they arrive. `savePolicy`
  chooses between create and update from `pb_default`, which is never
  reloaded. *Correct means:* create is sent only while the org has no policy
  of its own.
* **Domain verification.** Two awaited calls in sequence. *Correct means:* a
  failure of the second is reported and leaves a consistent dialog.

## 2. Plan

Modules, in order of importance. Items marked done are on disk and checked.

1. **ProjectRoles** (done). Table, selection, paging and both delete paths,
   with the backend's answers in any order.
2. **AuthHeaders / AuthContract / AuthInterceptor** (done). `AuthContract` is
   the abstract promise of spec.md 4.1, over its own variables. `AuthInterceptor`
   is the code and is checked to refine it through a refinement mapping
   (`INSTANCE AuthContract WITH ...`).
3. **Validators + FormGroup** (done). Every validator, `emailValidator`
   with Angular's e-mail pattern included, run by a form group that re-validates a control on its `setValue`.
4. **MemberCreateDialog** (done). Constructor and `loadRoles` dispatch, with
   role lists answered or failing in any order.
5. **AppCreate** (done). The application-type subscription over the option
   flags, URI chips, route params, `close`, and `saveOIDCApp` with its
   `loading` flag.
6. **PasswordIamPolicy** (done). Route emissions, `getData` answers in any
   order, `savePolicy` and the backend's policy.
7. **DomainVerification** (done). `loadTokens` with either generation
   failing, the download link, `validate` and `closeDialog`.
8. **DetailForm** (done, no run). The Angular lifecycle of the profile
   form, with the constructor reading its input before binding.
9. Left for later:
   * a pass run for PasswordIamPolicy (for example, that an update is sent
     only after a policy exists). The project is at its limit of twelve runs,
     so this means merging questions into fewer runs first;
   * `getData` answers per service type that differ (admin view versus
     management view). The two views are generated protobuf classes outside
     the sample, so both are modelled by the one `PolicyView` for now;
   * a run on the member dialog returning roles picked for another creation
     type (the hazard is listed);
   * a run on where the secret dialog navigates after a change of project
     (AppCreate models both; the hazard is listed).

## 3. Modules and how they map to the code

`PROJECT.json` (`map`) names the source lines behind every definition.

### ProjectRoles (`ProjectRoles.tla`, `MC_ProjectRoles.tla`)

| Variable | Code |
|---|---|
| `rows` | `dataSource.rolesSubject.value`: rows `[name, load]` |
| `gen` | identity of that array (a page load creates a new array) |
| `selection` | `selection.selected`: rows, in selection order |
| `pageIndex` | `paginator.pageIndex` |
| `loads` | unanswered ListProjectRoles calls, by page |
| `ops`, `calls` | deletions started and their unanswered `RemoveProjectRole` calls |
| `server` | the backend's roles |
| `loaded`, `shownPage` | observers: last page loaded |

The actions are:

* `LoadRolesPage` (paginator event);
* `LoadRolesResponse` (the data source replaces the rows);
* `ToggleRow`, `selectAllOfGroup` and `masterToggle`;
* `deleteSelectedRoles` and `removeRole`;
* `RoleRemoved` and `RemoveFailed` (a call's answer, with its `then`/`catch`).

JavaScript's `findIndex` and `splice(i, 1)` are modelled by what they do,
negative indexes included (`FindIndex`, `JsSplice`).

A row is a `ProjectRole` object, modelled as its role name and the page load
that created it. `SelectionModel` is built without `compareWith`, so it
compares rows by reference. The same role loaded twice gives two different
rows, and both can be selected. `findIndex` in `deleteSelectedRoles` compares
names. `deleteSelectedRoles` sends one call per selected row, so a role
selected on two loads is deleted twice: the second call fails and the batch
rejects. The row checkbox is in the template, which is not in the sample;
`ToggleRow` is `selection.toggle(row)` on a displayed row.

`UserWaits` is an assumption about the user, not about the code. When it is
TRUE, the user starts nothing while a call is unanswered. The code does not
enforce this: there is no loading flag. The runs with `UserWaits = FALSE` show
what happens without it.

### AuthInterceptor (`AuthHeaders.tla`, `AuthContract.tla`, `AuthInterceptor.tla`, `MC_AuthInterceptor.tla`)

The Authorization entry is one of: none, empty string, the caller's own
credential, or `Bearer(t)`. `Bearer(t)` stands for `'Bearer ' + t`, which is
injective in `t`. `intercept(r)` is lines 21-28 in one step, because the
function is synchronous up to `next.handle`. `handle(r)` is the awaited answer.
The login flow (`StoreToken`, `ClearToken`, `TokenExpires`) is outside the
sampled code and is modelled from spec.md 3.

**The contract.** `AuthContract` knows nothing of phases. It keeps three
partial functions:
* `waiting`: calls not yet handed on, with the caller's entry;
* `handedOn`: calls the next handler has, with the entry they carry;
* `replies`: answered calls, with their answer.

`Send(r)` moves a call from `waiting` to `handedOn` with the promised entry
(`Promised`). `Answer(r)` adds the backend's verdict.

**The mapping.** `AuthInterceptor` defines `Contract == INSTANCE
AuthContract WITH ...`. It maps:
* `store` to `stored` and `accepted` to `valid`;
* each stage to `meta` (or `answer`) restricted to the calls in the
  matching phase (`Restrict`, `InPhase`).

The run checks `Contract!Spec` as a property, fairness included. So every
interceptor step is a contract step or a stutter, and every call is
answered.

### Validators and FormGroup (`Validators.tla`, `FormGroup.tla`, `MC_FormGroup.tla`)

**Values.**
* A text value is a sequence of characters, one representative per class the
  regular expressions distinguish: `a`, `A`, `0`, `1`, `+`, space, `#`.
* A list value is a sequence of chip entries (`""`, `" "`, `"r"`) with their
  trimmed forms.
* JavaScript's `null`, `undefined` and a thrown TypeError are model values.
* An errors object is a TLA+ function from keys to payloads.

**E-mail.** E-mail values are sequences over `a`, `0`, `+`, `-`, `.` and `@`.
`EmailTest` translates Angular's `EMAIL_REGEXP` one group at a time:
* a length of at most 254, and at most 64 before the `@`;
* a local part of atext atoms joined by single dots;
* a host of labels joined by single dots, where each label starts and ends
  with a letter or digit and has hyphens only inside.

`DotSeparated` is the recursive `x(\.x)*`. `emailValidator` passes
`Validators.email`'s `{ email: true }` through `i18nErr` with the key
`ERRORS.NOTANEMAIL` and no params. The form_group run checks the pattern
against `AddressShape` in FormGroup. That rule is stated differently: by
character positions, with exactly one `@`, and without recursion.

**Keys and i18nErr.** `i18nErr` is translated literally:
* the error key is `i18nKey.toLowerCase().replaceAll('.', '')`, computed word
  by word (`ErrorKey`);
* the literal is `{...err, invalid: true, [key]: payload}`, and a later key of
  a literal wins; so the payload wins over `invalid`, and both win over the
  keys of `err` (`@@` keeps its left operand's value).

**Composition.** `Compose` is Angular's `Validators.compose`: later results
win, and an empty merge is `null`.

**FormGroup.** A group of controls, each with its list of validator names
(`ChecksOf`). The actions and state are:
* `Init`: errors are computed without a parent, as the group constructor
  does, so `passwordConfirmValidator` first returns `null`.
* `setValue(ctl, v)`: re-runs that control's validators only, as Angular
  does, with the sibling's current value.
* `confirmChecked`: records whether the confirmation's errors were computed
  since the password last changed.

**Reference rules.** The properties compare every control's errors with rules
written independently of the validators: `Fails`, `CheckKey` and
`PwNotEqual`. `DigitsAndSpaces` is `RECURSIVE`.

### MemberCreateDialog (`MemberCreateDialog.tla`, `MC_MemberCreateDialog.tla`)

**State.** `creationType`, `memberRoleOptions`, `roles` and
`showCreationTypeSelector` are the component's fields. `pending` holds the
unanswered role-list calls. `result` is how the dialog closed.

**loadRoles.** `SwitchCall` evaluates the `switch` as JavaScript does: the
first case whose label equals the value, in source order. So the duplicated
`PROJECT_GRANTED` label is in the model as it is in the code.

**Constructor.** `Init` reproduces the `if (this.creationType)` truthiness
test. The type selector lives in the template, which is not in the sample;
it is modelled as setting `creationType` and calling `loadRoles`.

### AppCreate (`AppCreate.tla`, `MC_AppCreate.tla`)

**State.**
* The controls of the first two form groups: `name`, `applicationType`,
  `authMethodType`.
* The option flags as sets: `responseChecked`, `grantChecked`,
  `grantDisabled`, `authDisabled`.
* The request object `oidcApp`, and `loading`.
* `calls`: unanswered `CreateOIDCApp` calls.
* `secretDialog` and `navigatedTo`.

**The first-group handler.** `FirstGroupChanged` is the whole
`firstFormGroup.valueChanges` handler:
* the branch for the application type;
* the nested `authMethodType.setValue(NONE)`, whose own subscription runs
  synchronously;
* `changeResponseType`, `changeGrant`, and the name and type copies.

It runs on every change of the group, a name edit included.

**Other actions.** The template's checkboxes call `toggleGrant` and
`toggleResponseType`, which are followed by `changeGrant` and
`changeResponseType`. `addUri` and `removeUri` are translated with `trim`,
the empty test and `indexOf`/`splice`. `saveOIDCApp` is answered by
`CreateAnswered` (the `then` branch and `showSavedDialog`) or `CreateFailed`.

**The save button.** The template, with its linear `mat-stepper`, is not in
the sample. `SaveReachable` states what that stepper allows: the save button
can be pressed only past a valid first step (`FirstGroupValid`, which is the
`Validators.required` of `name` and `applicationType`) and while no secret
dialog covers the page. `saveOIDCApp` itself does not check `loading`, so two
saves can be in flight together.

**Two dialogs.** With two saves in flight, each answer with an OIDC config
opens a secret dialog, so the code can stack two dialogs. The model keeps
only the last one in `secretDialog`. Either dialog's close navigates away,
and no property reads which dialog is open.
`Init` includes `ngOnInit`: `route.params` emits at once, and `getData`
copies the project id into `projectId` and `oidcApp.projectId`. `getData(p)`
is a later emission, when the router reuses the component for another
project. `close` is `location.back()`.

### DomainVerification (`DomainVerification.tla`)

**State.**
* `load` is where `loadTokens` is: awaiting the HTTP token, awaiting the
  DNS token, resolved or rejected.
* `http` and `dns` are the component's fields.
* `link` records that the download link's `href` was set.
* `open`, `validating` and `nValidates` track the dialog and the validate
  calls.

**Actions.**
* `HttpGenerated` and `DnsGenerated` are the two awaits. `DnsGenerated`
  includes the constructor's `then`, which sets the link.
* `GenerationFailed` is a rejection of either await. It has no `catch`.
* `validate`, `Validated`, `ValidationFailed` and `closeDialog` are the
  dialog's other operations.

The blob and the DOM lookup are abstracted to the `link` flag.

### PasswordIamPolicy (`PasswordIamPolicy.tla`)

**State.**
* `serviceType`, `org` and `iamData` are the component's fields. `iamData` is
  `Undefined` until an answer arrives.
* `custom` is the backend's knowledge that the org has its own policy.
* `gets` and `saves` hold the unanswered calls.
* `thrown` records a TypeError raised by `savePolicy`.

**Actions.**
* `routeEmission` is one `route.data` emission: the `switchMap` to
  `route.params`, then the subscriber's `getData`.
  The emitted `serviceType` may be MGMT, ADMIN or undefined:
  `password-iam-policy-routing.module.ts` puts none in its routes' data, so
  the value is inherited from a parent route outside the sample, or missing.
* `getData` sends no call for ADMIN without an org, nor for an undefined
  service type.
* `GetAnswered` and `GetFailed` are the answers. There is no `catch`.
* `savePolicy` reads `pb_default` for MGMT, and throws before any call when
  `iamData` is undefined or no org is stored. With an undefined service type
  no case matches and it does nothing.
* `SaveAnswered` is the backend: a create makes the policy custom. Its
  success and failure are not told apart, because both branches of
  `savePolicy` only show a toast and keep `iamData`.

### DetailForm (`DetailForm.tla`)

The component through Angular's lifecycle. `phase` is "constructed",
"bound", "initialized" or "destroyed".

**State.**
* `disabled` and `profile` are the inputs.
* `ctlDisabled` and `value` are the form controls. A value records where it
  came from: the constructor's default, a profile, or `Typed` by the user.
* `sub` is the language subscription.
* `changedLanguage` and `submitData` are the outputs.

**Actions.**
* `Init` is the constructor. It builds the flags with `BuiltDisabled` from
  `disabled`, which still holds its initializer `false`:
  * `userName` is boxed as disabled;
  * the gender state `{ value: 0 }` is not boxed, so that object is the
    control's value (`UnboxedGender`) and its `{ disabled }` argument is
    ignored.
* `BindInputs` is Angular's first binding. `ngOnInit` patches the form with
  the profile, then subscribes, so the patch is not emitted.
  `FormGroup.patchValue` sets only the controls named by an own key of the
  object (`PatchValue`). The parent and the profile's runtime shape are not
  in the sample, so the keys of each profile are the constant `ProfileKeys`.
* `RebindInputs` is a later binding. There is no `ngOnChanges`, so only the
  fields change.
* `Edit` is a user edit. An edit of the language emits on `changedLanguage`.
* `submitForm` emits the value of the enabled controls. `ngOnDestroy`
  unsubscribes.

`BindInputs(TRUE, p)` followed by `ngOnInit` reaches a state in which every
editable control is enabled.

## 4. Runs

| Run | Expect | What it shows |
|---|---|---|
| roles_user_waits | pass | One role per page, user waits: the table never shows a role twice (TypeOK), and no role the backend has is ever hidden (NoLostRole). |
| roles_index_shift | violation | Deleting r1 and r2 from page r1,r2,r3 leaves r2 shown and hides r3. |
| roles_partial_failure | violation | One call of a multi-delete fails after another succeeded: the deleted role stays shown. |
| roles_page_order | violation | The first page's answer arrives after page 2's: the paginator says 2, the table shows 1. |
| auth_contract | pass | The interceptor refines the contract on two concurrent calls with token changes. |
| form_group | pass | Every control's errors hold exactly the keys of the reference rules its value breaks, Angular's e-mail pattern included (ErrorsMatchRules), and an edited confirmation shows exactly the mismatch until the password changes (MismatchShownAfterConfirmEdit). |
| form_confirm_stale | violation | The password changes after the confirmation was validated: the confirmation shows no mismatch although the two values differ. |
| member_roles | violation | A project-owned dialog never gets the project member roles: the trace picks IAM then PROJECT_OWNED and shows IAM roles. |
| app_create | pass | Whatever the user does, each save sends what the form shows, and every spinner-on is followed by a state where all `CreateOIDCApp` calls are answered and `loading` is off. |
| app_create_auth_methods | violation | WEB then NATIVE disables every auth method. |
| policy_create_twice | violation | A second save after a successful create sends CreateOrgIamPolicy again. |
| dv_partial_failure | violation | The HTTP token is generated and the DNS generation fails: no download link for the HTTP token. |

Every property of a passing run has a mutant in `PROJECT.json`: a plausible
bug in one mapped definition (a dropped test, a missing reset, an unfiltered
list) that TLC shows violates it.

## 5. Bounds

| Model | Bounds | Why they are enough |
|---|---|---|
| ProjectRoles | three roles, one or three per page; at most three deletions and three page loads | Each violation needs at most two of each. Three loads (the first page, another page, the first again) make the same role arrive as a second row object, so it can be selected twice and a page answer can be applied over a page already shown. |
| AuthInterceptor | three concurrent calls, two tokens, four token-store changes | A store change can fall between the two steps of each call, and three calls can each see a different token (t1, t2, none). No symmetry: the property is temporal. |
| FormGroup | texts up to two characters plus three `00`-prefixed ones, `MinLen = 2`; six chip lists (none, one, two, with a blank or an empty entry); twelve e-mail values | The regular-expression classes, the minimum length both ways, and blank and non-blank entries. The e-mail values cover each branch of the pattern, accepted and refused: a missing local part or host, a dot at the local part's start, a hyphen or dot at a label's edge, dotted local parts and hosts, a digit host. |
| MemberCreateDialog | `MaxChoices = 2` | Two selections are needed for an answer to be overtaken. |
| AppCreate | one name, two chip inputs (one blank), `MaxUris = 1`, `MaxSaves = 2`, two projects and one change of project | Two saves can be in flight together, both URI lists can hold a chip, and the project can change between a save and its answer. |
| DomainVerification | `MaxValidates = 2` | The failure needs only the two token generations. |
| PasswordIamPolicy | `MaxEmissions = 2`, `MaxSaves = 2` | A save, its answer and a second save is the shortest trace. |

## 6. Fairness

* Backend answers are weakly fair: `WF` on `intercept`/`handle` per call, on each role-list call and on
  each `CreateOIDCApp` call, and on DomainVerification's generations and
  validations. Every backend call in this code eventually
  resolves or rejects, because the transport beneath it times out.
* User actions carry no fairness.
* ProjectRoles, FormGroup and PasswordIamPolicy check only safety and have
  no fairness.
* The AppCreate runs disable deadlock checking: after navigation the page is
  left, and nothing more happens. The same holds for PasswordIamPolicy once
  its bounds are used up.

## 7. Not modelled

* **No runtime behaviour.** Module wiring, the documentation site and the e2e
  helpers have none to check. The one fact taken from the wiring is that the
  password/IAM policy routes give no `serviceType` (see PasswordIamPolicy).
* **Forward values only.** `SettingsListComponent` only forwards values; its
  one method, `changeSelection`, is private and never called.
* **DetailForm has no run.** Both of its hazards show in a short trace, with
  nothing racing:
  * the `disabled` input that the constructor reads before binding;
  * the missing `ngOnChanges`.

  A component test reaches each directly. The twelve runs go to multi-step
  cases instead.
* **DOM attributes only.** The login-page scripts toggle DOM attributes.
  Their hazards are also listed:
  * the e-mail pattern's exponential backtracking;
  * a checkbox state that the browser restores without a change event.
* **Data not in the sample.** The data source and templates are not in the
  sample. Their effects (replace the rows, toggle a row or an option, pick a
  type) are modelled as the code calls them and marked spec-modelled.
* **AppCreate's navigation target.** Navigation records the app id, not the
  project of its URL.
* **Policy value.** The policy's `userLoginMustBeDomain` is abstracted away:
  no decision in the code reads it.
* **Dropped violation runs.** Earlier violation runs were dropped to keep the
  project to twelve runs. Each showed a single-step case that a unit test
  reaches directly:
  * `arrayLengthValidator` throws on a null list;
  * `masterToggle` selects across pages;
  * a `removeRole` answer races a page load;
  * an empty Authorization entry is overwritten. `ImplementsContract` fails at
    once when callers may pass an empty entry.

  Their hazards remain listed.
