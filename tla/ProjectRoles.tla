---------------------------- MODULE ProjectRoles ----------------------------
(***************************************************************************)
(* ProjectRolesComponent (console/src/app/modules/project-roles/           *)
(* project-roles.component.ts): the paged table of a project's roles, its  *)
(* multi-selection, and the two ways of deleting roles (one row, or every  *)
(* selected role).  Deletions and page loads are asynchronous backend      *)
(* calls; their answers run as promise callbacks in any order.             *)
(*                                                                         *)
(* The displayed array is rolesSubject.value of ProjectRolesDataSource.    *)
(* A page load replaces that array by a new one; the delete callbacks      *)
(* splice an array in place by a 0-based index, with JavaScript's splice   *)
(* semantics.                                                              *)
(*                                                                         *)
(* A row is a ProjectRole object: its name and the page load that created *)
(* it.  SelectionModel keeps the objects in a Set without compareWith, so *)
(* it tells rows apart by reference: the same role loaded twice is two    *)
(* different rows.                                                         *)
(***************************************************************************)
EXTENDS Integers, Sequences, SequencesExt, FiniteSets

CONSTANTS
    Roles,      \* role names of the project (model values)
    RoleOrder,  \* the order in which the backend lists the project's roles
    RoleGroup,  \* RoleGroup[r]: the group role r belongs to
    PageSize,   \* paginator page size
    UserWaits,  \* TRUE: the user starts nothing while a call is unanswered
    MaxOps,     \* bound: deletions the user starts (removeRole, deleteSelectedRoles)
    MaxLoads    \* bound: page loads requested, the one of ngOnInit included

ASSUME /\ RoleOrder \in Seq(Roles) /\ IsInjective(RoleOrder) /\ ToSet(RoleOrder) = Roles
       /\ PageSize \in Nat \ {0}
       /\ UserWaits \in BOOLEAN
       /\ MaxOps \in Nat /\ MaxLoads \in Nat \ {0}

VARIABLES
    server,     \* roles the backend still has
    rows,       \* dataSource.rolesSubject.value: the displayed array of rows
    gen,        \* identity of that array: the number of arrays loaded so far
    selection,  \* selection.selected: rows, in the order they were selected
    pageIndex,  \* paginator.pageIndex
    loads,      \* pages whose ListProjectRoles call is unanswered
    nLoads,     \* page loads requested so far
    ops,        \* ops[k]: the k-th deletion the user started and its promise
    calls,      \* RemoveProjectRole calls not yet answered: [op, slot, role]
    loaded,     \* observer: the role names the last page load displayed
    shownPage   \* observer: the page the last page load displayed

vars == <<server, rows, gen, selection, pageIndex, loads, nLoads, ops, calls,
          loaded, shownPage>>

Pages == 0 .. ((Len(RoleOrder) - 1) \div PageSize)

OpStatus == {"pending", "resolved", "rejected"}

\* A ProjectRole object: `load` is the page load whose answer created it.
Row == [name: Roles, load: Nat]

\* `waiting` holds the slots (positions in the selection, or 1 for
\* removeRole) whose RemoveProjectRole call Promise.all still waits for.
Op == [kind: {"batch", "single"}, arr: Nat, index: Int, indexes: Seq(Int),
       waiting: SUBSET Nat, status: OpStatus]

Names(s) == {s[i].name : i \in DOMAIN s}

-----------------------------------------------------------------------------
(***************************************************************************)
(* Helpers: the backend's page, and Array.prototype.findIndex / splice.    *)
(***************************************************************************)

\* ListProjectRoles(projectId, limit, offset): the roles of the page, in order.
PageOf(s, p) ==
    LET listed == SelectSeq(RoleOrder, LAMBDA r : r \in s)
    IN  SubSeq(listed, p * PageSize + 1, IF (p + 1) * PageSize < Len(listed)
                                         THEN (p + 1) * PageSize ELSE Len(listed))

\* arr.findIndex(iter => iter.name === r): 0-based, -1 when absent.
FindIndex(s, r) == SelectInSeq(s, LAMBDA x : x.name = r) - 1

\* arr.splice(i, 1): a negative index counts from the end, an index past
\* the end removes nothing.
JsSplice(s, i) ==
    LET start == IF i >= 0 THEN i ELSE Len(s) + i
    IN  IF start \in 0 .. Len(s) - 1 THEN RemoveAt(s, start + 1) ELSE s

\* selection.select(...vs): appends the rows not yet selected (the same
\* object; a row of another load with the same name is a new value).
SelectValues(sel, vs) == sel \o SelectSeq(vs, LAMBDA r : ~Contains(sel, r))

isAllSelected == Len(selection) = Len(rows)

\* The user's inputs come one at a time after every answer when UserWaits.
Idle == loads = {} /\ \A k \in 1 .. Len(ops) : ops[k].status # "pending"

UserMayAct == ~UserWaits \/ Idle

-----------------------------------------------------------------------------
Init ==
    /\ server = Roles
    /\ rows = <<>>
    /\ gen = 0
    /\ selection = <<>>
    /\ pageIndex = 0
    /\ loads = {0}          \* ngOnInit: dataSource.loadRoles(projectId, 0, 25)
    /\ nLoads = 1
    /\ ops = <<>>
    /\ calls = {}
    /\ loaded = <<>>
    /\ shownPage = 0

(***************************************************************************)
(* Page loads.                                                             *)
(***************************************************************************)

\* paginator.page -> loadRolesPage(): a new ListProjectRoles call.
LoadRolesPage(p) ==
    /\ UserMayAct
    /\ nLoads < MaxLoads
    /\ p # pageIndex
    /\ pageIndex' = p
    /\ loads' = loads \cup {p}
    /\ nLoads' = nLoads + 1
    /\ UNCHANGED <<server, rows, gen, selection, ops, calls, loaded, shownPage>>

\* Variant that appends the page to the displayed array instead of replacing
\* it; TypeOK must detect it (a role shown twice).
LoadRolesResponseAppending(p) ==
    /\ p \in loads
    /\ rows' = rows \o [i \in DOMAIN PageOf(server, p) |->
                           [name |-> PageOf(server, p)[i], load |-> gen + 1]]
    /\ gen' = gen + 1
    /\ loads' = loads \ {p}
    /\ loaded' = PageOf(server, p)
    /\ shownPage' = p
    /\ UNCHANGED <<server, selection, pageIndex, nLoads, ops, calls>>

\* The answer of a ListProjectRoles call: rolesSubject.next(a new array).
LoadRolesResponse(p) ==
    /\ p \in loads
    /\ rows' = [i \in DOMAIN PageOf(server, p) |->
                   [name |-> PageOf(server, p)[i], load |-> gen + 1]]
    /\ gen' = gen + 1
    /\ loads' = loads \ {p}
    /\ loaded' = PageOf(server, p)
    /\ shownPage' = p
    /\ UNCHANGED <<server, selection, pageIndex, nLoads, ops, calls>>

(***************************************************************************)
(* Selection (the table's checkboxes and group buttons).                   *)
(***************************************************************************)

\* selection.toggle(row); selection.changed -> changedSelection.emit.
ToggleRow(i) ==
    /\ UserMayAct
    /\ selection' = IF Contains(selection, rows[i])
                    THEN Remove(selection, rows[i])
                    ELSE Append(selection, rows[i])
    /\ UNCHANGED <<server, rows, gen, pageIndex, loads, nLoads, ops, calls, loaded, shownPage>>

selectAllOfGroup(g) ==
    /\ UserMayAct
    /\ selection' = SelectValues(selection, SelectSeq(rows, LAMBDA x : RoleGroup[x.name] = g))
    /\ UNCHANGED <<server, rows, gen, pageIndex, loads, nLoads, ops, calls, loaded, shownPage>>

masterToggle ==
    /\ UserMayAct
    /\ \/ isAllSelected /\ selection' = <<>>
       \/ ~isAllSelected /\ selection' = SelectValues(selection, rows)
    /\ UNCHANGED <<server, rows, gen, pageIndex, loads, nLoads, ops, calls, loaded, shownPage>>

(***************************************************************************)
(* Deletions: the calls and their promise callbacks.                       *)
(***************************************************************************)

\* deleteSelectedRoles(): remembers oldState and the indexes of the selected
\* roles in it, then one RemoveProjectRole call per selected role under
\* Promise.all, one call per selected row: a role selected in two loads is
\* deleted twice.  (With nothing selected Promise.all([]) only clears the
\* empty selection again, a step that changes nothing.)
deleteSelectedRoles ==
    /\ UserMayAct
    /\ Len(ops) < MaxOps
    /\ selection # <<>>
    /\ ops' = Append(ops, [kind |-> "batch", arr |-> gen, index |-> -1,
                           indexes |-> [k \in 1 .. Len(selection) |-> FindIndex(rows, selection[k].name)],
                           waiting |-> DOMAIN selection, status |-> "pending"])
    /\ calls' = calls \cup {[op |-> Len(ops) + 1, slot |-> k, role |-> selection[k].name] :
                            k \in DOMAIN selection}
    /\ UNCHANGED <<server, rows, gen, selection, pageIndex, loads, nLoads, loaded, shownPage>>

\* removeRole(role, index): the row's index as the template passes it.
removeRole(index) ==
    /\ UserMayAct
    /\ Len(ops) < MaxOps
    /\ index \in 0 .. Len(rows) - 1
    /\ ops' = Append(ops, [kind |-> "single", arr |-> gen, index |-> index,
                           indexes |-> <<>>, waiting |-> {1}, status |-> "pending"])
    /\ calls' = calls \cup {[op |-> Len(ops) + 1, slot |-> 1, role |-> rows[index + 1].name]}
    /\ UNCHANGED <<server, rows, gen, selection, pageIndex, loads, nLoads, loaded, shownPage>>

\* Variant without the `index > -1` test: splice(-1, 1) then removes the
\* last row.  NoLostRole must detect it.
SpliceUnguarded(s, index) == JsSplice(s, index)

SpliceIfFound(s, index) == IF index > -1 THEN JsSplice(s, index) ELSE s

\* then() of deleteSelectedRoles: splice oldState at each remembered index
\* in turn, then clear the selection.  oldState is the displayed array only
\* if no page load replaced it meanwhile.
DeleteSelectedThen(op) ==
    /\ rows' = IF op.arr = gen THEN FoldLeft(SpliceIfFound, rows, op.indexes) ELSE rows
    /\ selection' = <<>>

\* then() of removeRole: splice the current array at the clicked index.
RemoveRoleThen(op) ==
    /\ rows' = JsSplice(rows, op.index)
    /\ UNCHANGED selection

\* The RemoveProjectRole call of slot j succeeded: the settlement of its promise.
Succeeded(k, j) ==
    LET op == ops[k]
        last == op.status = "pending" /\ op.waiting = {j}
        resolved == [ops EXCEPT ![k].waiting = {}, ![k].status = "resolved"]
    IN
    \/ /\ op.status # "pending"                 \* the promise already rejected
       /\ UNCHANGED <<ops, rows, selection>>
    \/ /\ op.status = "pending"
       /\ op.waiting # {j}                      \* Promise.all still waits
       /\ ops' = [ops EXCEPT ![k].waiting = op.waiting \ {j}]
       /\ UNCHANGED <<rows, selection>>
    \/ last /\ op.kind = "batch" /\ ops' = resolved /\ DeleteSelectedThen(op)
    \/ last /\ op.kind = "single" /\ ops' = resolved /\ RemoveRoleThen(op)

\* The backend deletes the role and answers.
RoleRemoved(c) ==
    /\ c \in calls
    /\ c.role \in server
    /\ server' = server \ {c.role}
    /\ calls' = calls \ {c}
    /\ Succeeded(c.op, c.slot)
    /\ UNCHANGED <<gen, pageIndex, loads, nLoads, loaded, shownPage>>

\* The call fails (the role is already deleted, or the transport fails): catch() shows
\* a toast; Promise.all rejects at its first failure.
RemoveFailed(c) ==
    /\ c \in calls
    /\ calls' = calls \ {c}
    /\ ops' = IF ops[c.op].status = "pending"
              THEN [ops EXCEPT ![c.op].status = "rejected"] ELSE ops
    /\ UNCHANGED <<server, rows, gen, selection, pageIndex, loads, nLoads, loaded, shownPage>>

-----------------------------------------------------------------------------
Next ==
    \/ \E p \in Pages : LoadRolesPage(p) \/ LoadRolesResponse(p)
    \/ \E i \in 1 .. Len(rows) : ToggleRow(i)
    \/ \E g \in {RoleGroup[r] : r \in Names(rows)} : selectAllOfGroup(g)
    \/ masterToggle
    \/ deleteSelectedRoles
    \/ \E i \in 0 .. Len(rows) - 1 : removeRole(i)
    \/ \E c \in calls : RoleRemoved(c) \/ RemoveFailed(c)

Spec == Init /\ [][Next]_vars

-----------------------------------------------------------------------------
(***************************************************************************)
(* Properties.                                                             *)
(***************************************************************************)

\* Types, and: the displayed array never shows a role twice, whatever the
\* page loads and splices did to it.
TypeOK ==
    /\ server \subseteq Roles
    /\ rows \in Seq(Row) /\ Cardinality(Names(rows)) = Len(rows)
    /\ selection \in Seq(Row)
    /\ pageIndex \in Pages /\ loads \subseteq Pages /\ shownPage \in Pages
    /\ gen \in Nat /\ nLoads \in 0 .. MaxLoads
    /\ ops \in Seq(Op) /\ Len(ops) <= MaxOps
    /\ calls \subseteq [op: 1 .. Len(ops), slot: Nat, role: Roles]

\* The delete callbacks (removeRole, deleteSelectedRoles) hide only roles
\* the backend deleted: every role of the last loaded page that the backend
\* still has is still displayed.
NoLostRole ==
    \A r \in ToSet(loaded) : r \in server => r \in Names(rows)

\* Once every deletion has settled and no page load is unanswered, the table
\* shows no role the backend has deleted.
NoGhostRoleWhenIdle ==
    Idle => Names(rows) \subseteq server

\* Once every page load has been answered, the table shows the page the
\* paginator is on.
ShownPageIsPaginatorPage ==
    loads = {} => shownPage = pageIndex

=============================================================================
