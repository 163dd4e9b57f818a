-------------------------------- MODULE UsersPage --------------------------------
(***************************************************************************)
(* The Users page of the client (src/backend/ui/src/routes/Users.tsx) with *)
(* its tables and dialogs, the requests they send and what the server does *)
(* with them.  The page has two sections, PostgreSQL users and accounts of *)
(* the dashboard, each with a list and the same four dialogs; they share   *)
(* nothing, and a dialog is modal, so one section is followed at a time.   *)
(*                                                                         *)
(* A dialog may be closed while its request is on its way: the buttons     *)
(* Cancel and Done are never disabled.  The answer then finds the page in  *)
(* another state than the one it was asked in.                             *)
(***************************************************************************)
EXTENDS Naturals, QueryCache

CONSTANTS
    Users,          \* names of users
    NoUser,         \* no user
    NoRow,          \* what is stored of a user that does not exist
    NoSecret,       \* no password to show
    Dbs,            \* databases a user may be given
    ListedDbs,      \* the databases the page was told of
    Ips,            \* addresses a user may be bound to
    UserPlans       \* bounds: the section, the kinds of dialogs that are opened,
                    \* the changes by this and other administrators, the visits

ASSUME ListedDbsAssumption == ListedDbs \subseteq Dbs
ASSUME NoUserAssumption == NoUser \notin Users
ASSUME UserPlansAssumption ==
    UserPlans \subseteq [section : {"pg", "auth"},
                         uses : SUBSET {"create", "edit", "reset", "delete"},
                         ops : Nat, visits : Nat]

VARIABLES
    userPlan,   \* the plan that is followed
    rows,       \* what the server has stored for each user
    unsure,     \* users last changed by someone else, or without a good answer
    userList,   \* the cached list of the section
    userOps,    \* requests on their way
    issued,     \* number of them so far
    mounted,    \* is the page shown
    visits,     \* number of visits
    createBox, editBox, resetBox, deleteBox, creds     \* the dialogs

userVars == <<userPlan, rows, unsure, userList, userOps, issued, mounted, visits,
              createBox, editBox, resetBox, deleteBox, creds>>

boxes == <<createBox, editBox, resetBox, deleteBox, creds>>
pageVars == <<userPlan, mounted, visits>>

section == userPlan.section
uses == userPlan.uses

AnyIp == "any"       \* 0.0.0.0/0

(* What is stored about a user.  A PostgreSQL user has databases and       *)
(* addresses, an account has databases only if it is a developer's.        *)
PgValues == [role : {"pg"}, dbs : SUBSET Dbs, ips : SUBSET (Ips \cup {AnyIp})]
AuthValues == {v \in [role : {"dev", "viewer"}, dbs : SUBSET Dbs, ips : {{}}] :
                 v.role = "dev" \/ v.dbs = {}}
UserValues == PgValues \cup AuthValues
Lists == [Users -> UserValues \cup {NoRow}]

OpIds == 0..userPlan.ops
UserRequests == [kind : {"create", "edit", "reset", "delete"}, user : Users,
                 value : UserValues \cup {NoRow}, secret : BOOLEAN, id : OpIds,
                 live : BOOLEAN, done : BOOLEAN]
Secrets == [user : Users, pw : OpIds]

(* The password of a user is known by the request that set it. *)
UsersTypeOK ==
    /\ userPlan \in UserPlans
    /\ rows \in [Users -> [value : UserValues \cup {NoRow}, pw : OpIds]]
    /\ unsure \subseteq Users
    /\ userList \in Entries(Lists)
    /\ userOps \subseteq UserRequests
    /\ issued \in OpIds
    /\ mounted \in BOOLEAN
    /\ visits \in 0..userPlan.visits
    /\ createBox \in [open : BOOLEAN, user : Users \cup {NoUser}]
    /\ editBox \in [open : BOOLEAN, target : Users \cup {NoUser}, form : UserValues,
                    same : BOOLEAN]
    /\ resetBox \in [open : BOOLEAN, target : Users \cup {NoUser},
                     result : Secrets \cup {NoSecret}, early : BOOLEAN]
    /\ deleteBox \in Confirms(Users, NoUser)
    /\ creds \in Secrets \cup {NoSecret}

---------------------------------------------------------------------------
(* The controls of the forms. *)

(* "Select All" takes every listed database; it is called "Deselect All",  *)
(* and empties the selection, if as many are selected as are listed        *)
AllSelected(sel) == ListedDbs # {} /\ Cardinality(sel) = Cardinality(ListedDbs)

ToggleAll(sel) == IF AllSelected(sel) THEN {} ELSE ListedDbs

ToggleDb(sel, d) == IF d \in sel THEN sel \ {d} ELSE sel \cup {d}

DbChoices(sel) == {ToggleDb(sel, d) : d \in ListedDbs} \cup {ToggleAll(sel)}

(* an address is added once, or removed *)
IpChoices(ips) == {ips \cup {i} : i \in Ips} \cup {ips \ {i} : i \in ips}

(* a role other than developer takes the databases along *)
RoleChoices(v) == {[v EXCEPT !.role = r, !.dbs = IF r = "dev" THEN @ ELSE {}] :
                     r \in {"dev", "viewer"}}

(* Every form that one action of the user makes of v *)
Typed(v) ==
    IF v.role = "pg"
    THEN {[v EXCEPT !.dbs = D] : D \in DbChoices(v.dbs)}
         \cup {[v EXCEPT !.ips = I] : I \in IpChoices(v.ips)}
    ELSE RoleChoices(v)
         \cup {[v EXCEPT !.dbs = D] : D \in IF v.role = "dev" THEN DbChoices(v.dbs) ELSE {}}

EmptyForm == IF section = "pg" THEN [role |-> "pg", dbs |-> {}, ips |-> {}]
                               ELSE [role |-> "viewer", dbs |-> {}, ips |-> {}]

(* the submit button of a form that needs databases *)
Complete(v) == v.role \in {"pg", "dev"} => v.dbs # {}

(* What is sent: a PostgreSQL user without addresses is open to any *)
Sent(v) == IF v.role = "pg" /\ v.ips = {} THEN [v EXCEPT !.ips = {AnyIp}] ELSE v

---------------------------------------------------------------------------
(* What the page is asked to do.  A row's buttons and the buttons above a  *)
(* list work while no dialog is open; the credentials cover the others.    *)

NoBoxOpen == ~createBox.open /\ ~editBox.open /\ ~resetBox.open
             /\ deleteBox.target = NoUser /\ creds = NoSecret

\* Mutant: the buttons of a row that is gone.
AnyRow(u) == userList.data # NoData

InList(u) == userList.data # NoData /\ userList.data[u] # NoRow

(* the buttons at the end of a row *)
RowButtons(u) == mounted /\ NoBoxOpen /\ InList(u)

IsPending(kind) == \E o \in userOps : o.kind = kind /\ o.live

(* Does a request set a password?  A reset of a PostgreSQL user need not:  *)
(* the form can be sent with none typed and none to be generated           *)
SetsSecret(kind) ==
    IF kind = "reset" /\ section = "pg" THEN BOOLEAN ELSE {kind \in {"create", "reset"}}

Submit(kind, u, v) ==
    /\ ~IsPending(kind)
    /\ issued < userPlan.ops
    /\ issued' = issued + 1
    /\ \E s \in SetsSecret(kind) :
         userOps' = userOps \cup {[kind |-> kind, user |-> u, value |-> v, secret |-> s,
                                   id |-> issued + 1, live |-> TRUE, done |-> FALSE]}

OpenCreate ==
    /\ mounted /\ NoBoxOpen /\ "create" \in uses
    /\ createBox' = [createBox EXCEPT !.open = TRUE]
    /\ UNCHANGED <<rows, unsure, userList, userOps, issued, editBox, resetBox, deleteBox,
                   creds, pageVars>>

TypeCreate(u) ==
    /\ createBox.open /\ creds = NoSecret
    /\ createBox' = [createBox EXCEPT !.user = u]
    /\ UNCHANGED <<rows, unsure, userList, userOps, issued, editBox, resetBox, deleteBox,
                   creds, pageVars>>

(* Of the other fields only what is sent matters: some complete form *)
SubmitCreate ==
    /\ createBox.open /\ creds = NoSecret
    /\ createBox.user # NoUser
    /\ \E v \in Typed(EmptyForm) :
         Complete(v) /\ Submit("create", createBox.user, Sent(v))
    /\ UNCHANGED <<rows, unsure, userList, boxes, pageVars>>

(* Cancel keeps what was typed *)
CloseCreate ==
    /\ createBox.open /\ creds = NoSecret
    /\ createBox' = [createBox EXCEPT !.open = FALSE]
    /\ UNCHANGED <<rows, unsure, userList, userOps, issued, editBox, resetBox, deleteBox,
                   creds, pageVars>>

(* The form takes the values of the row if the row is another object than  *)
(* the one it was opened for last: an edit that was given up comes back if *)
(* the list has not changed the row since.                                 *)
FilledFor(u) ==
    IF editBox.target = u /\ editBox.same
    THEN [editBox EXCEPT !.open = TRUE]
    ELSE [open |-> TRUE, target |-> u, form |-> userList.data[u], same |-> TRUE]

OpenEdit(u) ==
    /\ RowButtons(u) /\ "edit" \in uses
    /\ editBox' = FilledFor(u)
    /\ UNCHANGED <<rows, unsure, userList, userOps, issued, createBox, resetBox, deleteBox,
                   creds, pageVars>>

TypeEdit ==
    /\ editBox.open /\ creds = NoSecret
    /\ \E v \in Typed(editBox.form) : editBox' = [editBox EXCEPT !.form = v]
    /\ UNCHANGED <<rows, unsure, userList, userOps, issued, createBox, resetBox, deleteBox,
                   creds, pageVars>>

(* A PostgreSQL user may be left without databases, a developer may not *)
SubmitEdit ==
    /\ editBox.open /\ creds = NoSecret
    /\ editBox.form.role = "dev" => Complete(editBox.form)
    /\ Submit("edit", editBox.target, Sent(editBox.form))
    /\ UNCHANGED <<rows, unsure, userList, boxes, pageVars>>

CloseEdit ==
    /\ editBox.open /\ creds = NoSecret
    /\ editBox' = [editBox EXCEPT !.open = FALSE]
    /\ UNCHANGED <<rows, unsure, userList, userOps, issued, createBox, resetBox, deleteBox,
                   creds, pageVars>>

OpenReset(u) ==
    /\ RowButtons(u) /\ "reset" \in uses
    /\ resetBox' = [resetBox EXCEPT !.open = TRUE, !.target = u]
    /\ UNCHANGED <<rows, unsure, userList, userOps, issued, createBox, editBox, deleteBox,
                   creds, pageVars>>

\* Mutant: the form stays when there is a password.
SubmitResetAgain ==
    /\ resetBox.open /\ creds = NoSecret
    /\ Submit("reset", resetBox.target, NoRow)
    /\ UNCHANGED <<rows, unsure, userList, boxes, pageVars>>

(* The form is there until there is a password to show *)
SubmitReset ==
    /\ resetBox.open /\ creds = NoSecret /\ resetBox.result = NoSecret
    /\ Submit("reset", resetBox.target, NoRow)
    /\ UNCHANGED <<rows, unsure, userList, boxes, pageVars>>

\* Mutant: the password is not dropped.
ClosedResetOnly == [resetBox EXCEPT !.open = FALSE]

ClosedReset == [resetBox EXCEPT !.open = FALSE, !.result = NoSecret]

(* Cancel or Done: the typed and the shown password are dropped *)
CloseReset ==
    /\ resetBox.open /\ creds = NoSecret
    /\ resetBox' = [ClosedReset EXCEPT !.early = @ \/ IsPending("reset")]
    /\ UNCHANGED <<rows, unsure, userList, userOps, issued, createBox, editBox, deleteBox,
                   creds, pageVars>>

OpenDelete(u) ==
    /\ RowButtons(u) /\ "delete" \in uses
    /\ deleteBox' = AskToConfirm(deleteBox, u)
    /\ UNCHANGED <<rows, unsure, userList, userOps, issued, createBox, editBox, resetBox,
                   creds, pageVars>>

TypeDeleteUser ==
    /\ deleteBox.target # NoUser /\ creds = NoSecret
    /\ deleteBox' = TypeDelete(deleteBox)
    /\ UNCHANGED <<rows, unsure, userList, userOps, issued, createBox, editBox, resetBox,
                   creds, pageVars>>

(* the request is sent, the target and the typed text are dropped *)
ConfirmDelete ==
    /\ creds = NoSecret
    /\ MayConfirm(deleteBox, NoUser, IsPending("delete"))
    /\ Submit("delete", deleteBox.target, NoRow)
    /\ deleteBox' = CloseConfirm(deleteBox, NoUser)
    /\ UNCHANGED <<rows, unsure, userList, createBox, editBox, resetBox, creds, pageVars>>

\* Mutant: the typed text stays.
CancelDeleteOnly ==
    /\ deleteBox.target # NoUser /\ creds = NoSecret
    /\ deleteBox' = [deleteBox EXCEPT !.target = NoUser]
    /\ UNCHANGED <<rows, unsure, userList, userOps, issued, createBox, editBox, resetBox,
                   creds, pageVars>>

CancelDelete ==
    /\ deleteBox.target # NoUser /\ creds = NoSecret
    /\ deleteBox' = CloseConfirm(deleteBox, NoUser)
    /\ UNCHANGED <<rows, unsure, userList, userOps, issued, createBox, editBox, resetBox,
                   creds, pageVars>>

CloseCreds ==
    /\ creds # NoSecret
    /\ creds' = NoSecret
    /\ UNCHANGED <<rows, unsure, userList, userOps, issued, createBox, editBox, resetBox,
                   deleteBox, pageVars>>

(* the Refresh button *)
RefreshUsers ==
    /\ mounted /\ NoBoxOpen
    /\ userList' = Invalidate(userList, TRUE)
    /\ UNCHANGED <<rows, unsure, userOps, issued, boxes, pageVars>>

---------------------------------------------------------------------------
(* The server.  A new row needs a free name, an edit or a reset an         *)
(* existing one; an account must exist to be deleted.                      *)

Refused(o) ==
    \/ o.kind = "create" /\ rows[o.user].value # NoRow
    \/ o.kind \in {"edit", "reset"} /\ rows[o.user].value = NoRow
    \/ o.kind = "delete" /\ section = "auth" /\ rows[o.user].value = NoRow

(* A PostgreSQL user has one row of managed_users per database *)
OnlyRole(v) == v # NoRow /\ v.role = "pg" /\ v.dbs = {}

(* without databases only the role is left, the addresses are forgotten *)
Stored(v) == IF OnlyRole(v) THEN [v EXCEPT !.ips = {AnyIp}] ELSE v

Applied(o) ==
    CASE o.kind = "create" -> [value |-> o.value, pw |-> o.id]
      [] o.kind = "edit"   -> [rows[o.user] EXCEPT !.value = Stored(o.value)]
      [] o.kind = "reset"  -> [rows[o.user] EXCEPT !.pw = IF o.secret THEN o.id ELSE @]
      [] o.kind = "delete" -> [value |-> NoRow, pw |-> 0]

Handle(o) ==
    /\ ~o.done /\ ~Refused(o)
    /\ rows' = [rows EXCEPT ![o.user] = Applied(o)]
    /\ unsure' = unsure \cup {o.user}
    /\ userOps' = (userOps \ {o}) \cup {[o EXCEPT !.done = TRUE]}
    /\ UNCHANGED <<userList, issued, boxes, pageVars>>

(* another administrator changes or deletes a user, maybe in a dialog that *)
(* was opened while the user was still listed                              *)
OtherChanges(u) ==
    /\ issued < userPlan.ops
    /\ issued' = issued + 1
    /\ rows[u].value # NoRow
    /\ \E v \in Typed(rows[u].value) \cup {NoRow} :
         rows' = [rows EXCEPT ![u].value = IF v = NoRow THEN NoRow ELSE Stored(Sent(v))]
    /\ unsure' = unsure \cup {u}
    /\ UNCHANGED <<userList, userOps, boxes, pageVars>>

---------------------------------------------------------------------------
(* Answers.  The callbacks belong to the mutation and run even if the page *)
(* is gone; what they do to the state of a page that is gone is lost.      *)

Secret(o) == [user |-> o.user, pw |-> o.id]

(* onSuccess of the four mutations: whatever dialog of the kind is open by *)
(* now is closed, whatever was typed into a new create form is dropped     *)
ShowSuccess(o) ==
    /\ createBox' = IF o.kind = "create"
                    THEN [open |-> FALSE, user |-> NoUser]
                    ELSE createBox
    /\ creds' = IF o.kind = "create" THEN Secret(o) ELSE creds
    /\ editBox' = IF o.kind = "edit" THEN [editBox EXCEPT !.open = FALSE] ELSE editBox
    /\ resetBox' = IF o.kind = "reset" /\ o.secret
                   THEN [resetBox EXCEPT !.result = Secret(o)]
                   ELSE resetBox
    /\ UNCHANGED deleteBox

\* Mutant: the list is not asked for anew.
SucceedQuietly(o) ==
    /\ o.done
    /\ userOps' = userOps \ {o}
    /\ unsure' = unsure \ {o.user}
    /\ IF o.live THEN ShowSuccess(o) ELSE UNCHANGED boxes
    /\ UNCHANGED <<rows, userList, issued, pageVars>>

SucceedUserOp(o) ==
    /\ o.done
    /\ userOps' = userOps \ {o}
    /\ unsure' = unsure \ {o.user}
    /\ userList' = Invalidate(userList, mounted)
    /\ IF o.live THEN ShowSuccess(o) ELSE UNCHANGED boxes
    /\ UNCHANGED <<rows, issued, pageVars>>

(* onError: a message.  The request was refused or not handled, or it was  *)
(* handled and its answer is lost on the way.                              *)
FailUserOp(o) ==
    /\ userOps' = userOps \ {o}
    /\ UNCHANGED <<rows, unsure, userList, issued, boxes, pageVars>>

(* The list of PostgreSQL users joins their rows with the roles: a user    *)
(* who has no database left is not in it.  That of the accounts has all.   *)
Listed(v) == IF OnlyRole(v) THEN NoRow ELSE v

ReadUsers ==
    /\ userList.fetch = "sent"
    /\ userList' = Read(userList, [u \in Users |-> Listed(rows[u].value)])
    /\ UNCHANGED <<rows, unsure, userOps, issued, boxes, pageVars>>

(* The new list replaces the old one; a row keeps its object if nothing in *)
(* it changed and it is at the same place, from which the creation, change *)
(* or deletion of another user may have moved it.                          *)
SameRow(u) == u # NoUser /\ InList(u) /\ userList.answer[u] = userList.data[u]

UsersArrive ==
    /\ userList.fetch = "read"
    /\ userList' = Arrive(userList)
    /\ \E inPlace \in {TRUE, userList.answer = userList.data} :
         editBox' = [editBox EXCEPT !.same = @ /\ inPlace /\ SameRow(editBox.target)]
    /\ UNCHANGED <<rows, unsure, userOps, issued, createBox, resetBox, deleteBox, creds,
                   pageVars>>

UsersFail ==
    /\ userList.fetch # "idle"
    /\ userList' = FetchFails(userList)
    /\ UNCHANGED <<rows, unsure, userOps, issued, boxes, pageVars>>

(* The window gets the focus back after the data have aged *)
FocusUsers ==
    /\ mounted /\ userList.fetch = "idle"
    /\ userList' = Observe(Age(userList))
    /\ UNCHANGED <<rows, unsure, userOps, issued, boxes, pageVars>>

---------------------------------------------------------------------------
(* Leaving the page drops its state; the cache and the requests stay.      *)

ClosedBoxes ==
    /\ createBox' = [open |-> FALSE, user |-> NoUser]
    /\ editBox' = [open |-> FALSE, target |-> NoUser, form |-> EmptyForm, same |-> FALSE]
    /\ resetBox' = [open |-> FALSE, target |-> NoUser, result |-> NoSecret, early |-> FALSE]
    /\ deleteBox' = NothingToConfirm(NoUser)
    /\ creds' = NoSecret

LeaveUsers ==
    /\ mounted
    /\ mounted' = FALSE
    /\ userOps' = {[o EXCEPT !.live = FALSE] : o \in userOps}
    /\ ClosedBoxes
    /\ UNCHANGED <<userPlan, rows, unsure, userList, issued, visits>>

EnterUsers ==
    /\ ~mounted /\ visits < userPlan.visits
    /\ mounted' = TRUE
    /\ visits' = visits + 1
    /\ userList' = Observe(userList)
    /\ UNCHANGED <<userPlan, rows, unsure, userOps, issued, boxes>>

UsersInit ==
    /\ userPlan \in UserPlans
    /\ \E v \in {IF section = "pg" THEN [role |-> "pg", dbs |-> ListedDbs, ips |-> {AnyIp}]
                                   ELSE [role |-> "dev", dbs |-> ListedDbs, ips |-> {}]} :
         rows = [u \in Users |-> [value |-> v, pw |-> 0]]
    /\ unsure = {} /\ userOps = {} /\ issued = 0
    /\ userList = Unasked /\ mounted = FALSE /\ visits = 0
    /\ createBox = [open |-> FALSE, user |-> NoUser]
    /\ editBox = [open |-> FALSE, target |-> NoUser, form |-> EmptyForm, same |-> FALSE]
    /\ resetBox = [open |-> FALSE, target |-> NoUser, result |-> NoSecret, early |-> FALSE]
    /\ deleteBox = NothingToConfirm(NoUser)
    /\ creds = NoSecret

UsersNext ==
    \/ EnterUsers \/ LeaveUsers \/ FocusUsers \/ RefreshUsers
    \/ OpenCreate \/ SubmitCreate \/ CloseCreate \/ CloseCreds
    \/ \E u \in Users : TypeCreate(u) \/ OpenEdit(u) \/ OpenReset(u) \/ OpenDelete(u)
                        \/ OtherChanges(u)
    \/ TypeEdit \/ SubmitEdit \/ CloseEdit
    \/ SubmitReset \/ CloseReset
    \/ TypeDeleteUser \/ ConfirmDelete \/ CancelDelete
    \/ \E o \in userOps : Handle(o) \/ SucceedUserOp(o) \/ FailUserOp(o)
    \/ ReadUsers \/ UsersArrive \/ UsersFail

UsersSpec == UsersInit /\ [][UsersNext]_userVars

---------------------------------------------------------------------------
(* With no request on its way, a list that counts as up to date shows what *)
(* the server would list now, also after requests of an earlier visit.     *)
(* Excepted are users another administrator changed or whose last request  *)
(* was not answered (unsure), and a list that was on its way when a change *)
(* was answered and was not asked for anew (overtaken): the very first     *)
(* one, or one the admin did not wait for.                                 *)
UsersInSync ==
    Fresh(userList) /\ userOps = {} /\ ~userList.overtaken =>
        \A u \in Users \ unsure : userList.data[u] = Listed(rows[u].value)

(* A password is shown under the name of the user it belongs to, as long   *)
(* as the dialog is never closed before the answer came                    *)
PasswordOfUser ==
    resetBox.open /\ resetBox.result # NoSecret /\ ~resetBox.early =>
        resetBox.result.user = resetBox.target

(* A password that cannot be shown again stays until it was seen: no later *)
(* answer puts another one in its place                                    *)
ShownUntilClosed ==
    [][ /\ creds # NoSecret => creds' \in {creds, NoSecret}
        /\ resetBox.result # NoSecret => resetBox'.result \in {resetBox.result, NoSecret}
      ]_userVars

(* DELETE is typed for each deletion anew *)
UserDeletionTyped == Confirmed(deleteBox, NoUser)
=============================================================================
