----------------------------- MODULE UsersPageProofs -----------------------------
(***************************************************************************)
(* Theorems about UsersPage, for any number of users, databases, addresses *)
(* requests and visits.                                                    *)
(***************************************************************************)
EXTENDS UsersPage, QueryCacheProofs

-----------------------------------------------------------------------------
(* Forms *)

LEMMA SentTyped ==
    ASSUME NEW v \in UserValues
    PROVE  Sent(v) \in UserValues
  <1>1. CASE v.role = "pg" /\ v.ips = {}
    <2>1. v \in PgValues
      BY <1>1 DEF UserValues, AuthValues
    <2>2. [v EXCEPT !.ips = {AnyIp}] \in PgValues
      BY <2>1 DEF PgValues
    <2> QED  BY <1>1, <2>2 DEF Sent, UserValues
  <1>2. CASE ~(v.role = "pg" /\ v.ips = {})
    BY <1>2 DEF Sent
  <1> QED  BY <1>1, <1>2

LEMMA StoredTyped ==
    ASSUME NEW v \in UserValues \cup {NoRow}
    PROVE  Stored(v) \in UserValues \cup {NoRow}
  <1>1. CASE OnlyRole(v)
    <2>1. v \in PgValues
      BY <1>1 DEF OnlyRole, UserValues, AuthValues
    <2>2. [v EXCEPT !.ips = {AnyIp}] \in PgValues
      BY <2>1 DEF PgValues
    <2> QED  BY <1>1, <2>2 DEF Stored, UserValues
  <1>2. CASE ~OnlyRole(v)
    BY <1>2 DEF Stored
  <1> QED  BY <1>1, <1>2

LEMMA DbChoicesTyped ==
    ASSUME NEW sel \in SUBSET Dbs
    PROVE  DbChoices(sel) \subseteq SUBSET Dbs
  BY ListedDbsAssumption DEF DbChoices, ToggleDb, ToggleAll

LEMMA TypedTyped ==
    ASSUME NEW v \in UserValues
    PROVE  Typed(v) \subseteq UserValues
  <1>1. CASE v.role = "pg"
    <2>1. v \in PgValues
      BY <1>1 DEF UserValues, AuthValues
    <2>2. DbChoices(v.dbs) \subseteq SUBSET Dbs
      BY <2>1, DbChoicesTyped DEF PgValues
    <2>3. IpChoices(v.ips) \subseteq SUBSET (Ips \cup {AnyIp})
      BY <2>1 DEF PgValues, IpChoices
    <2>4. /\ \A D \in DbChoices(v.dbs) : [v EXCEPT !.dbs = D] \in PgValues
          /\ \A I \in IpChoices(v.ips) : [v EXCEPT !.ips = I] \in PgValues
      BY <2>1, <2>2, <2>3 DEF PgValues
    <2> QED  BY <1>1, <2>4 DEF Typed, UserValues
  <1>2. CASE v.role # "pg"
    <2>1. v \in AuthValues
      BY <1>2 DEF UserValues, PgValues
    <2>2. v.dbs \in SUBSET Dbs /\ DbChoices(v.dbs) \subseteq SUBSET Dbs
      BY <2>1, DbChoicesTyped DEF AuthValues
    <2>3. RoleChoices(v) \subseteq AuthValues
      BY <2>1 DEF RoleChoices, AuthValues
    <2>4. ASSUME v.role = "dev", NEW D \in DbChoices(v.dbs)
          PROVE  [v EXCEPT !.dbs = D] \in AuthValues
      BY <2>1, <2>2, <2>4 DEF AuthValues
    <2> QED  BY <1>2, <2>3, <2>4 DEF Typed, UserValues
  <1> QED  BY <1>1, <1>2

LEMMA EmptyFormTyped == EmptyForm \in UserValues
  BY DEF EmptyForm, UserValues, PgValues, AuthValues

-----------------------------------------------------------------------------
(* Types: a dialog that is open names a user, because it was opened from a *)
(* row, so the requests it sends do as well.                               *)

DialogsNameUsers ==
    /\ editBox.open => editBox.target \in Users
    /\ resetBox.open => resetBox.target \in Users

\* What the dialogs, the requests and the server hold.  (The list is below.)
StateTypes ==
    /\ userPlan \in UserPlans
    /\ rows \in [Users -> [value : UserValues \cup {NoRow}, pw : OpIds]]
    /\ unsure \subseteq Users
    /\ userOps \subseteq UserRequests
    /\ issued \in OpIds
    /\ mounted \in BOOLEAN
    /\ visits \in 0..userPlan.visits

BoxTypes ==
    /\ createBox \in [open : BOOLEAN, user : Users \cup {NoUser}]
    /\ editBox \in [open : BOOLEAN, target : Users \cup {NoUser}, form : UserValues,
                    same : BOOLEAN]
    /\ resetBox \in [open : BOOLEAN, target : Users \cup {NoUser},
                     result : Secrets \cup {NoSecret}, early : BOOLEAN]
    /\ deleteBox \in Confirms(Users, NoUser)
    /\ creds \in Secrets \cup {NoSecret}
    /\ DialogsNameUsers

UsersTypes == StateTypes /\ BoxTypes /\ userList \in Entries(Lists)

LEMMA PlanTyped ==
    ASSUME userPlan \in UserPlans
    PROVE  userPlan.ops \in Nat /\ userPlan.visits \in Nat
  BY UserPlansAssumption

LEMMA SubmitTyped ==
    ASSUME StateTypes, NEW k \in {"create", "edit", "reset", "delete"}, NEW u \in Users,
           NEW v \in UserValues \cup {NoRow}, Submit(k, u, v),
           UNCHANGED <<userPlan, rows, unsure, mounted, visits>>
    PROVE  StateTypes'
  <1>1. userPlan.ops \in Nat
    BY PlanTyped DEF StateTypes
  <1>2. issued' \in 0..userPlan.ops /\ issued + 1 \in 0..userPlan.ops
    BY <1>1 DEF StateTypes, OpIds, Submit
  <1>3. PICK s \in SetsSecret(k) :
           userOps' = userOps \cup {[kind |-> k, user |-> u, value |-> v, secret |-> s,
                                     id |-> issued + 1, live |-> TRUE, done |-> FALSE]}
    BY DEF Submit
  <1>4. userOps' \subseteq UserRequests
    <2>1. s \in BOOLEAN
      BY <1>3, Zenon DEF SetsSecret
    <2>2. [kind |-> k, user |-> u, value |-> v, secret |-> s, id |-> issued + 1,
           live |-> TRUE, done |-> FALSE] \in UserRequests
      BY <1>2, <2>1 DEF UserRequests, OpIds
    <2> QED  BY <1>3, <2>2 DEF StateTypes
  <1>5. UserRequests' = UserRequests /\ OpIds' = OpIds
    BY DEF UserRequests, OpIds
  <1> QED  BY <1>2, <1>4, <1>5 DEF StateTypes, OpIds

LEMMA AppliedTyped ==
    ASSUME StateTypes, NEW o \in userOps
    PROVE  Applied(o) \in [value : UserValues \cup {NoRow}, pw : OpIds]
  <1>1. /\ o \in UserRequests /\ rows[o.user] \in [value : UserValues \cup {NoRow}, pw : OpIds]
        /\ 0 \in OpIds
    <2>1. o \in UserRequests /\ o.user \in Users
      BY DEF StateTypes, UserRequests
    <2>2. 0 \in OpIds
      BY PlanTyped DEF StateTypes, OpIds
    <2> QED  BY <2>1, <2>2 DEF StateTypes
  <1>2. /\ o.kind \in {"create", "edit", "reset", "delete"}
        /\ o.value \in UserValues \cup {NoRow} /\ o.id \in OpIds
    BY <1>1 DEF UserRequests
  <1>3. \/ Applied(o) = [value |-> o.value, pw |-> o.id]
        \/ Applied(o) = [rows[o.user] EXCEPT !.value = Stored(o.value)]
        \/ Applied(o) = [rows[o.user] EXCEPT !.pw = IF o.secret THEN o.id ELSE @]
        \/ Applied(o) = [value |-> NoRow, pw |-> 0]
    BY <1>2, Zenon DEF Applied
  <1>4. Stored(o.value) \in UserValues \cup {NoRow}
    BY <1>2, StoredTyped
  <1> QED  BY <1>1, <1>2, <1>3, <1>4

LEMMA UserRequestTyped ==
    ASSUME NEW o \in UserRequests
    PROVE  /\ [o EXCEPT !.done = TRUE] \in UserRequests
           /\ [o EXCEPT !.live = FALSE] \in UserRequests
  BY DEF UserRequests

LEMMA StateTypesStep ==
    ASSUME UsersTypes, [UsersNext]_userVars
    PROVE  StateTypes'
  <1> USE DEF pageVars
  <1>0. StateTypes /\ BoxTypes /\ userPlan.ops \in Nat /\ userPlan.visits \in Nat
    BY PlanTyped DEF UsersTypes, StateTypes
  <1>u. userPlan' = userPlan /\ OpIds' = OpIds /\ UserRequests' = UserRequests
    <2>1. userPlan' = userPlan
      BY DEF UsersNext, userVars, EnterUsers, LeaveUsers, FocusUsers, RefreshUsers, OpenCreate,
             SubmitCreate, CloseCreate, CloseCreds, TypeCreate, OpenEdit, OpenReset,
             OpenDelete, OtherChanges, TypeEdit, SubmitEdit, CloseEdit, SubmitReset,
             CloseReset, TypeDeleteUser, ConfirmDelete, CancelDelete, Handle, SucceedUserOp,
             FailUserOp, ReadUsers, UsersArrive, UsersFail
    <2> QED  BY <2>1 DEF OpIds, UserRequests
  <1>1. CASE UNCHANGED <<rows, unsure, userOps, issued, pageVars>>
    BY <1>0, <1>1, <1>u DEF StateTypes
  <1>2. CASE EnterUsers
    <2>1. visits' \in 0..userPlan.visits
      BY <1>0, <1>2 DEF EnterUsers, StateTypes
    <2> QED  BY <1>0, <1>2, <1>u, <2>1 DEF EnterUsers, StateTypes
  <1>3. CASE LeaveUsers
    BY <1>0, <1>3, <1>u, UserRequestTyped DEF LeaveUsers, StateTypes
  <1>4. CASE SubmitCreate
    <2>1. PICK v \in Typed(EmptyForm) : Submit("create", createBox.user, Sent(v))
      BY <1>4 DEF SubmitCreate
    <2>2. Sent(v) \in UserValues
      BY TypedTyped, SentTyped, EmptyFormTyped
    <2>3. createBox.user \in Users
      BY <1>0, <1>4 DEF SubmitCreate, BoxTypes
    <2> QED  BY <1>0, <1>4, <2>1, <2>2, <2>3, SubmitTyped DEF SubmitCreate
  <1>5. CASE SubmitEdit
    <2>1. editBox.target \in Users /\ Sent(editBox.form) \in UserValues
      BY <1>0, <1>5, SentTyped DEF SubmitEdit, BoxTypes, DialogsNameUsers
    <2> QED  BY <1>0, <1>5, <2>1, SubmitTyped DEF SubmitEdit
  <1>6. CASE SubmitReset
    <2>1. resetBox.target \in Users
      BY <1>0, <1>6 DEF SubmitReset, BoxTypes, DialogsNameUsers
    <2> QED  BY <1>0, <1>6, <2>1, SubmitTyped DEF SubmitReset
  <1>7. CASE ConfirmDelete
    <2>1. deleteBox.target \in Users
      BY <1>0, <1>7 DEF ConfirmDelete, MayConfirm, BoxTypes, Confirms
    <2> QED  BY <1>0, <1>7, <2>1, SubmitTyped DEF ConfirmDelete
  <1>8. ASSUME NEW o \in userOps, Handle(o)
        PROVE  StateTypes'
    <2>1. o \in UserRequests /\ o.user \in Users
      BY <1>0 DEF StateTypes, UserRequests
    <2>2. rows' \in [Users -> [value : UserValues \cup {NoRow}, pw : OpIds]]
      BY <1>0, <1>8, <2>1, AppliedTyped DEF Handle, StateTypes
    <2>3. userOps' \subseteq UserRequests
      BY <1>0, <1>8, <2>1, UserRequestTyped DEF Handle, StateTypes
    <2> QED  BY <1>0, <1>8, <1>u, <2>1, <2>2, <2>3 DEF Handle, StateTypes
  <1>9. ASSUME NEW u \in Users, OtherChanges(u)
        PROVE  StateTypes'
    <2>1. rows[u] \in [value : UserValues \cup {NoRow}, pw : OpIds]
      BY <1>0 DEF StateTypes
    <2>2. PICK v \in Typed(rows[u].value) \cup {NoRow} :
             rows' = [rows EXCEPT ![u].value = IF v = NoRow THEN NoRow ELSE Stored(Sent(v))]
      BY <1>9 DEF OtherChanges
    <2>3. (IF v = NoRow THEN NoRow ELSE Stored(Sent(v))) \in UserValues \cup {NoRow}
      <3>1. CASE v = NoRow
        BY <3>1
      <3>2. CASE v # NoRow
        <4>1. Sent(v) \in UserValues
          BY <1>9, <2>1, <2>2, <3>2, TypedTyped, SentTyped DEF OtherChanges
        <4> QED  BY <3>2, <4>1, StoredTyped
      <3> QED  BY <3>1, <3>2
    <2>4. rows' \in [Users -> [value : UserValues \cup {NoRow}, pw : OpIds]]
      BY <1>0, <2>2, <2>3 DEF StateTypes
    <2>5. issued' \in OpIds
      BY <1>0, <1>9 DEF OtherChanges, StateTypes, OpIds
    <2> QED  BY <1>0, <1>9, <1>u, <2>4, <2>5 DEF OtherChanges, StateTypes
  <1>10. ASSUME NEW o \in userOps, SucceedUserOp(o) \/ FailUserOp(o)
         PROVE  StateTypes'
    <2>1. /\ userOps' \subseteq userOps /\ unsure' \subseteq unsure
          /\ UNCHANGED <<rows, issued, pageVars>>
      BY <1>10 DEF SucceedUserOp, FailUserOp
    <2> QED  BY <1>0, <1>u, <2>1 DEF StateTypes
  <1>11. \/ UNCHANGED <<rows, unsure, userOps, issued, pageVars>>
         \/ EnterUsers \/ LeaveUsers \/ SubmitCreate \/ SubmitEdit \/ SubmitReset
         \/ ConfirmDelete
         \/ \E o \in userOps : Handle(o) \/ SucceedUserOp(o) \/ FailUserOp(o)
         \/ \E u \in Users : OtherChanges(u)
    BY DEF UsersNext, userVars, FocusUsers, RefreshUsers, OpenCreate, CloseCreate, CloseCreds,
           TypeCreate, OpenEdit, OpenReset, OpenDelete, TypeEdit, CloseEdit, CloseReset,
           TypeDeleteUser, CancelDelete, ReadUsers, UsersArrive, UsersFail
  <1> QED
    BY <1>1, <1>2, <1>3, <1>4, <1>5, <1>6, <1>7, <1>8, <1>9, <1>10, <1>11

LEMMA SecretTyped ==
    ASSUME StateTypes, NEW o \in userOps
    PROVE  Secret(o) \in Secrets
  BY DEF StateTypes, UserRequests, Secret, Secrets

LEMMA EntryTyped ==
    ASSUME userList \in Entries(Lists), NEW u \in Users, InList(u)
    PROVE  userList.data[u] \in UserValues
  BY DEF Entries, Lists, InList

LEMMA ShowSuccessTyped ==
    ASSUME UsersTypes, NEW o \in userOps, ShowSuccess(o), UNCHANGED userPlan
    PROVE  BoxTypes'
  <1>0. BoxTypes /\ Secret(o) \in Secrets /\ Secrets' = Secrets
    BY SecretTyped DEF UsersTypes, Secrets, OpIds
  <1>1. createBox' \in [open : BOOLEAN, user : Users \cup {NoUser}]
    <2>1. createBox' \in {createBox, [open |-> FALSE, user |-> NoUser]}
      BY Zenon DEF ShowSuccess
    <2>2. createBox \in [open : BOOLEAN, user : Users \cup {NoUser}]
      BY <1>0 DEF BoxTypes
    <2>3. [open |-> FALSE, user |-> NoUser] \in [open : BOOLEAN, user : Users \cup {NoUser}]
      OBVIOUS
    <2> QED  BY <2>1, <2>2, <2>3
  <1>2. /\ editBox' \in {editBox, [editBox EXCEPT !.open = FALSE]}
        /\ resetBox' \in {resetBox, [resetBox EXCEPT !.result = Secret(o)]}
        /\ creds' \in {creds, Secret(o)}
        /\ deleteBox' = deleteBox
    BY Zenon DEF ShowSuccess
  <1> QED  BY <1>0, <1>1, <1>2, ZenonT(60) DEF BoxTypes, DialogsNameUsers

LEMMA BoxTypesStep ==
    ASSUME UsersTypes, [UsersNext]_userVars
    PROVE  BoxTypes'
  <1> USE DEF pageVars, boxes
  <1>u. Secrets' = Secrets
    <2>1. userPlan' = userPlan
      BY DEF UsersNext, userVars, EnterUsers, LeaveUsers, FocusUsers, RefreshUsers, OpenCreate,
             SubmitCreate, CloseCreate, CloseCreds, TypeCreate, OpenEdit, OpenReset,
             OpenDelete, OtherChanges, TypeEdit, SubmitEdit, CloseEdit, SubmitReset,
             CloseReset, TypeDeleteUser, ConfirmDelete, CancelDelete, Handle, SucceedUserOp,
             FailUserOp, ReadUsers, UsersArrive, UsersFail
    <2> QED  BY <2>1 DEF Secrets, OpIds
  <1>0. StateTypes /\ BoxTypes /\ userList \in Entries(Lists)
    BY DEF UsersTypes
  <1>c. /\ NothingToConfirm(NoUser) \in Confirms(Users, NoUser)
        /\ CloseConfirm(deleteBox, NoUser) \in Confirms(Users, NoUser)
        /\ \A u \in Users : AskToConfirm(deleteBox, u) \in Confirms(Users, NoUser)
        /\ TypeDelete(deleteBox) \in Confirms(Users, NoUser)
    BY <1>0, ConfirmTyped DEF BoxTypes
  <1>1. CASE UNCHANGED boxes
    BY <1>0, <1>1, <1>u DEF BoxTypes, DialogsNameUsers
  <1>2. CASE LeaveUsers
    <2>1. ClosedBoxes
      BY <1>2 DEF LeaveUsers
    <2>2. EmptyForm \in UserValues
      BY EmptyFormTyped
    <2>3. createBox' \in [open : BOOLEAN, user : Users \cup {NoUser}]
      BY <2>1 DEF ClosedBoxes
    <2>4. /\ editBox' \in [open : BOOLEAN, target : Users \cup {NoUser}, form : UserValues,
                           same : BOOLEAN]
          /\ ~editBox'.open
      BY <2>1, <2>2 DEF ClosedBoxes
    <2>5. /\ resetBox' \in [open : BOOLEAN, target : Users \cup {NoUser},
                            result : Secrets \cup {NoSecret}, early : BOOLEAN]
          /\ ~resetBox'.open
      BY <2>1 DEF ClosedBoxes
    <2>6. deleteBox' \in Confirms(Users, NoUser) /\ creds' \in Secrets \cup {NoSecret}
      BY <2>1, <1>c DEF ClosedBoxes
    <2> QED  BY <1>u, <2>3, <2>4, <2>5, <2>6 DEF BoxTypes, DialogsNameUsers
  <1>3. ASSUME NEW u \in Users,
               OpenCreate \/ TypeCreate(u) \/ CloseCreate \/ CloseCreds
        PROVE  BoxTypes'
    BY <1>0, <1>3, <1>u
    DEF OpenCreate, TypeCreate, CloseCreate, CloseCreds, BoxTypes, DialogsNameUsers
  <1>4. CASE OpenCreate \/ CloseCreate \/ CloseCreds
    BY <1>0, <1>4, <1>u DEF OpenCreate, CloseCreate, CloseCreds, BoxTypes, DialogsNameUsers
  <1>5. ASSUME NEW u \in Users, OpenEdit(u)
        PROVE  BoxTypes'
    <2>1. userList.data[u] \in UserValues
      BY <1>0, <1>5, EntryTyped DEF OpenEdit, RowButtons
    <2>2. /\ FilledFor(u) \in [open : BOOLEAN, target : Users \cup {NoUser}, form : UserValues,
                               same : BOOLEAN]
          /\ FilledFor(u).target \in Users
      BY <1>0, <2>1 DEF FilledFor, BoxTypes
    <2> QED  BY <1>0, <1>5, <1>u, <2>2 DEF OpenEdit, BoxTypes, DialogsNameUsers
  <1>6. CASE TypeEdit
    <2>1. PICK v \in Typed(editBox.form) : editBox' = [editBox EXCEPT !.form = v]
      BY <1>6 DEF TypeEdit
    <2>2. v \in UserValues
      BY <1>0, <2>1, TypedTyped DEF BoxTypes
    <2>3. /\ editBox' \in [open : BOOLEAN, target : Users \cup {NoUser}, form : UserValues,
                           same : BOOLEAN]
          /\ editBox'.open = editBox.open /\ editBox'.target = editBox.target
      BY <1>0, <2>1, <2>2 DEF BoxTypes
    <2> QED  BY <1>0, <1>6, <1>u, <2>3 DEF TypeEdit, BoxTypes, DialogsNameUsers
  <1>7. CASE CloseEdit
    BY <1>0, <1>7, <1>u DEF CloseEdit, BoxTypes, DialogsNameUsers
  <1>8. ASSUME NEW u \in Users, OpenReset(u)
        PROVE  BoxTypes'
    BY <1>0, <1>8, <1>u DEF OpenReset, BoxTypes, DialogsNameUsers
  <1>9. CASE CloseReset
    <2>1. (resetBox.early \/ IsPending("reset")) \in BOOLEAN
      BY <1>0 DEF BoxTypes, IsPending
    <2>2. resetBox' = [ClosedReset EXCEPT !.early = resetBox.early \/ IsPending("reset")]
      BY <1>0, <1>9 DEF CloseReset, ClosedReset, BoxTypes
    <2> QED
      BY <1>0, <1>9, <1>u, <2>1, <2>2 DEF CloseReset, ClosedReset, BoxTypes, DialogsNameUsers
  <1>10. ASSUME NEW u \in Users, OpenDelete(u)
         PROVE  BoxTypes'
    BY <1>0, <1>10, <1>u, <1>c DEF OpenDelete, BoxTypes, DialogsNameUsers
  <1>11. CASE TypeDeleteUser \/ CancelDelete \/ ConfirmDelete
    BY <1>0, <1>11, <1>u, <1>c
    DEF TypeDeleteUser, CancelDelete, ConfirmDelete, BoxTypes, DialogsNameUsers
  <1>12. ASSUME NEW o \in userOps, SucceedUserOp(o), o.live
         PROVE  BoxTypes'
    BY <1>12, ShowSuccessTyped DEF SucceedUserOp
  <1>13. ASSUME NEW o \in userOps, SucceedUserOp(o), ~o.live
         PROVE  BoxTypes'
    BY <1>13, <1>1 DEF SucceedUserOp
  <1>14. CASE UsersArrive
    <2>1. PICK inPlace \in {TRUE, userList.answer = userList.data} :
             editBox' = [editBox EXCEPT !.same =
                           editBox.same /\ inPlace /\ SameRow(editBox.target)]
      BY <1>0, <1>14 DEF UsersArrive, BoxTypes
    <2>2. (editBox.same /\ inPlace /\ SameRow(editBox.target)) \in BOOLEAN
      OBVIOUS
    <2> QED
      BY <1>0, <1>14, <1>u, <2>1, <2>2 DEF UsersArrive, BoxTypes, DialogsNameUsers
  <1>15. \/ UNCHANGED boxes
         \/ LeaveUsers \/ OpenCreate \/ CloseCreate \/ CloseCreds \/ TypeEdit \/ CloseEdit
         \/ CloseReset \/ TypeDeleteUser \/ CancelDelete \/ ConfirmDelete \/ UsersArrive
         \/ \E u \in Users : TypeCreate(u) \/ OpenEdit(u) \/ OpenReset(u) \/ OpenDelete(u)
         \/ \E o \in userOps : SucceedUserOp(o)
    BY DEF UsersNext, userVars, EnterUsers, FocusUsers, RefreshUsers, SubmitCreate, SubmitEdit,
           SubmitReset, OtherChanges, Handle, FailUserOp, ReadUsers, UsersFail
  <1> QED
    BY <1>1, <1>2, <1>3, <1>4, <1>5, <1>6, <1>7, <1>8, <1>9, <1>10, <1>11, <1>12, <1>13,
       <1>14, <1>15

-----------------------------------------------------------------------------
(* The list *)

\* The lists a page may show: right about every user but those last changed
\* by someone else or without a good answer.
AcceptableLists == {d \in Lists : \A u \in Users \ unsure : d[u] = Listed(rows[u].value)}

ListVouches == Vouched(userList, AcceptableLists)

LEMMA HandledListVouches ==
    ASSUME UsersTypes, ListVouches, NEW u \in Users, NEW x,
           rows' = [rows EXCEPT ![u] = x], unsure' = unsure \cup {u}
    PROVE  Vouched(userList, AcceptableLists')
  <1>1. \A k \in Users \ unsure' : rows'[k] = rows[k]
    BY DEF UsersTypes, StateTypes
  <1>2. AcceptableLists \subseteq AcceptableLists'
    BY <1>1 DEF AcceptableLists, Lists
  <1> QED  BY <1>2, VouchedMonotone DEF ListVouches

LEMMA ListStep ==
    ASSUME UsersTypes, ListVouches, [UsersNext]_userVars
    PROVE  userList' \in Entries(Lists) /\ ListVouches'
  <1> DEFINE Goal == userList' \in Entries(Lists) /\ ListVouches'
  <1>0. /\ userList \in Entries(Lists) /\ Vouched(userList, AcceptableLists)
        /\ StateTypes
    BY DEF UsersTypes, ListVouches
  <1>1. ASSUME UNCHANGED <<rows, unsure, userList>>
        PROVE  Goal
    BY <1>0, <1>1 DEF ListVouches, AcceptableLists
  <1>2. ASSUME UNCHANGED <<rows, unsure>>, NEW q \in Entries(Lists), userList' = q,
               Vouched(q, AcceptableLists)
        PROVE  Goal
    BY <1>2 DEF ListVouches, AcceptableLists
  <1>3. CASE EnterUsers
    BY <1>0, <1>2, <1>3, ObserveVouched DEF EnterUsers
  <1>4. CASE FocusUsers
    <2>1. Age(userList) \in Entries(Lists) /\ Vouched(Age(userList), AcceptableLists)
      BY <1>0, AgeVouched
    <2> QED  BY <1>2, <1>4, <2>1, ObserveVouched DEF FocusUsers
  <1>5. CASE RefreshUsers
    BY <1>0, <1>2, <1>5, InvalidateVouched DEF RefreshUsers
  <1>6. ASSUME NEW o \in userOps, Handle(o)
        PROVE  Goal
    <2>1. o.user \in Users
      BY <1>0 DEF StateTypes, UserRequests
    <2>2. Vouched(userList, AcceptableLists')
      BY <1>6, <2>1, HandledListVouches DEF Handle
    <2> QED  BY <1>0, <1>6, <2>2 DEF Handle, ListVouches
  <1>7. ASSUME NEW u \in Users, OtherChanges(u)
        PROVE  Goal
    <2>1. PICK x : rows' = [rows EXCEPT ![u] = x]
      BY <1>7 DEF OtherChanges
    <2>2. Vouched(userList, AcceptableLists')
      BY <1>7, <2>1, HandledListVouches DEF OtherChanges
    <2> QED  BY <1>0, <1>7, <2>2 DEF OtherChanges, ListVouches
  <1>8. ASSUME NEW o \in userOps, SucceedUserOp(o)
        PROVE  Goal
    <2>1. mounted \in BOOLEAN /\ userList' = Invalidate(userList, mounted)
      BY <1>0, <1>8 DEF StateTypes, SucceedUserOp
    <2> QED  BY <1>0, <2>1, InvalidateVouched DEF ListVouches
  <1>9. CASE ReadUsers
    <2> DEFINE d == [u \in Users |-> Listed(rows[u].value)]
    <2>1. d \in Lists
      <3>1. \A u \in Users : rows[u].value \in UserValues \cup {NoRow}
        BY <1>0 DEF StateTypes
      <3>2. \A u \in Users : Listed(rows[u].value) \in UserValues \cup {NoRow}
        BY <3>1, Zenon DEF Listed
      <3> QED  BY <3>2 DEF Lists
    <2>2. d \in AcceptableLists
      BY <2>1 DEF AcceptableLists
    <2>3. userList' = Read(userList, d)
      BY <1>9 DEF ReadUsers
    <2> HIDE DEF d
    <2> QED  BY <1>0, <1>2, <1>9, <2>1, <2>2, <2>3, ReadVouched DEF ReadUsers
  <1>10. CASE UsersArrive
    BY <1>0, <1>2, <1>10, ArriveVouched DEF UsersArrive
  <1>11. CASE UsersFail
    BY <1>0, <1>2, <1>11, FetchFailsVouched DEF UsersFail
  <1>12. \/ UNCHANGED <<rows, unsure, userList>>
         \/ EnterUsers \/ FocusUsers \/ RefreshUsers \/ ReadUsers \/ UsersArrive \/ UsersFail
         \/ \E o \in userOps : Handle(o) \/ SucceedUserOp(o)
         \/ \E u \in Users : OtherChanges(u)
    BY DEF UsersNext, userVars, LeaveUsers, OpenCreate, CloseCreate, CloseCreds, TypeCreate,
           OpenEdit, OpenReset, OpenDelete, TypeEdit, CloseEdit, CloseReset, TypeDeleteUser,
           CancelDelete, SubmitCreate, SubmitEdit, SubmitReset, ConfirmDelete, FailUserOp
  <1> QED
    BY <1>1, <1>3, <1>4, <1>5, <1>6, <1>7, <1>8, <1>9, <1>10, <1>11, <1>12

UsersInv == UsersTypes /\ ListVouches

LEMMA UsersInvInit == UsersInit => UsersInv
  <1> SUFFICES ASSUME UsersInit PROVE UsersInv
    OBVIOUS
  <1>1. userPlan \in UserPlans /\ userPlan.ops \in Nat /\ userPlan.visits \in Nat
    BY PlanTyped DEF UsersInit
  <1>2. userList \in Entries(Lists) /\ ListVouches
    BY UnaskedVouched DEF UsersInit, ListVouches
  <1>3. PICK v \in {IF section = "pg" THEN [role |-> "pg", dbs |-> ListedDbs, ips |-> {AnyIp}]
                                     ELSE [role |-> "dev", dbs |-> ListedDbs, ips |-> {}]} :
            rows = [u \in Users |-> [value |-> v, pw |-> 0]]
    BY DEF UsersInit
  <1>4. v \in UserValues
    BY <1>3, ListedDbsAssumption DEF UserValues, PgValues, AuthValues
  <1>5. 0 \in OpIds
    BY <1>1 DEF OpIds
  <1>6. rows \in [Users -> [value : UserValues \cup {NoRow}, pw : OpIds]]
    BY <1>3, <1>4, <1>5
  <1>7. visits \in 0..userPlan.visits
    BY <1>1 DEF UsersInit
  <1>8. StateTypes
    BY <1>1, <1>5, <1>6, <1>7 DEF UsersInit, StateTypes
  <1>9. /\ editBox \in [open : BOOLEAN, target : Users \cup {NoUser}, form : UserValues,
                        same : BOOLEAN]
        /\ ~editBox.open
    BY EmptyFormTyped DEF UsersInit
  <1>10. /\ resetBox \in [open : BOOLEAN, target : Users \cup {NoUser},
                          result : Secrets \cup {NoSecret}, early : BOOLEAN]
         /\ ~resetBox.open
    BY DEF UsersInit
  <1>11. createBox \in [open : BOOLEAN, user : Users \cup {NoUser}]
    BY DEF UsersInit
  <1>12. deleteBox \in Confirms(Users, NoUser) /\ creds \in Secrets \cup {NoSecret}
    BY DEF UsersInit, NothingToConfirm, Confirms
  <1>13. BoxTypes
    BY <1>9, <1>10, <1>11, <1>12 DEF BoxTypes, DialogsNameUsers
  <1> QED  BY <1>2, <1>8, <1>13 DEF UsersInv, UsersTypes

LEMMA UsersInvStep ==
    ASSUME UsersInv, [UsersNext]_userVars
    PROVE  UsersInv'
  BY StateTypesStep, BoxTypesStep, ListStep DEF UsersInv, UsersTypes

\* Every dialog, request and row has its type, and a request that was sent
\* from a dialog names a user.
THEOREM UsersTypeCorrect == UsersSpec => []UsersTypeOK
  <1>1. UsersInv => UsersTypeOK
    BY DEF UsersInv, UsersTypes, StateTypes, BoxTypes, UsersTypeOK
  <1> QED  BY <1>1, UsersInvInit, UsersInvStep, PTL DEF UsersSpec

\* With no request on its way, a list of users that counts as up to date
\* shows what the server would list, PostgreSQL users without databases left
\* out; except for users whose last change another administrator made or was
\* not answered, and for a list on its way at an answer and not asked anew.
THEOREM UsersListed == UsersSpec => []UsersInSync
  <1>1. UsersInv => UsersInSync
    BY DEF UsersInv, ListVouches, Vouched, AcceptableLists, UsersInSync
  <1> QED  BY <1>1, UsersInvInit, UsersInvStep, PTL DEF UsersSpec

-----------------------------------------------------------------------------
(* Passwords.  A page waits for at most one request of a kind at a time,   *)
(* and it is sent while no password of that kind is shown; so the answer   *)
(* never meets one.                                                        *)

OneAwaited ==
    \A o1, o2 \in userOps : o1.live /\ o2.live /\ o1.kind = o2.kind => o1 = o2

NoneShown ==
    \A o \in userOps : o.live =>
        /\ o.kind = "create" => creds = NoSecret
        /\ o.kind = "reset" => resetBox.result = NoSecret

\* Unless the dialog was closed early, it is open as long as an answer is
\* awaited or a password is shown, for the user it was asked for.
ResetInv ==
    ~resetBox.early =>
        /\ \A o \in userOps : o.live /\ o.kind = "reset"
                               => resetBox.open /\ resetBox.target = o.user
        /\ resetBox.result # NoSecret
             => resetBox.open /\ resetBox.result.user = resetBox.target

SecretsInv == OneAwaited /\ NoneShown /\ ResetInv

\* Nothing is taken back, and the dialogs that show passwords are as they were.
LEMMA SecretsKept ==
    ASSUME SecretsInv, UNCHANGED <<resetBox, creds>>,
           userOps' \subseteq userOps
    PROVE  SecretsInv'
  BY DEF SecretsInv, OneAwaited, NoneShown, ResetInv

LEMMA SecretsSubmit ==
    ASSUME UsersTypes, SecretsInv, UNCHANGED <<resetBox, creds>>,
           NEW k \in {"create", "edit", "reset", "delete"}, NEW u, NEW v, Submit(k, u, v),
           k = "create" => creds = NoSecret,
           k = "reset" => resetBox.result = NoSecret /\ resetBox.open /\ resetBox.target = u
    PROVE  SecretsInv'
  <1>0. PICK s \in SetsSecret(k) :
           userOps' = userOps \cup {[kind |-> k, user |-> u, value |-> v, secret |-> s,
                                     id |-> issued + 1, live |-> TRUE, done |-> FALSE]}
    BY DEF Submit
  <1> DEFINE n == [kind |-> k, user |-> u, value |-> v, secret |-> s, id |-> issued + 1,
                   live |-> TRUE, done |-> FALSE]
  <1>1. /\ userOps' = userOps \cup {n} /\ n.kind = k /\ n.user = u /\ n.live
        /\ \A o \in userOps : ~(o.live /\ o.kind = k)
    BY <1>0 DEF Submit, IsPending
  <1> HIDE DEF n
  <1>2. OneAwaited'
    BY <1>1 DEF SecretsInv, OneAwaited
  <1>3. NoneShown'
    BY <1>1 DEF SecretsInv, NoneShown
  <1>4. ResetInv'
    BY <1>1 DEF SecretsInv, ResetInv
  <1> QED  BY <1>2, <1>3, <1>4 DEF SecretsInv

\* The server's handling changes nothing of a request but "done".
LEMMA SecretsHandled ==
    ASSUME UsersTypes, SecretsInv, NEW o \in userOps, Handle(o)
    PROVE  SecretsInv'
  <1> DEFINE d == [o EXCEPT !.done = TRUE]
  <1>1. /\ d.kind = o.kind /\ d.user = o.user /\ d.live = o.live
        /\ userOps' = (userOps \ {o}) \cup {d}
        /\ UNCHANGED <<resetBox, creds>>
    BY DEF UsersTypes, StateTypes, UserRequests, Handle, boxes
  <1> HIDE DEF d
  <1>2. OneAwaited'
    BY <1>1 DEF SecretsInv, OneAwaited
  <1>3. NoneShown'
    BY <1>1 DEF SecretsInv, NoneShown
  <1>4. ResetInv'
    BY <1>1 DEF SecretsInv, ResetInv
  <1> QED  BY <1>2, <1>3, <1>4 DEF SecretsInv

LEMMA SecretsAnswered ==
    ASSUME UsersTypes, SecretsInv, NEW o \in userOps, o.live, SucceedUserOp(o)
    PROVE  /\ SecretsInv'
           /\ creds # NoSecret => creds' = creds
           /\ resetBox.result # NoSecret => resetBox'.result = resetBox.result
  <1>1. /\ userOps' = userOps \ {o} /\ ShowSuccess(o)
        /\ resetBox \in [open : BOOLEAN, target : Users \cup {NoUser},
                         result : Secrets \cup {NoSecret}, early : BOOLEAN]
    BY DEF SucceedUserOp, UsersTypes, BoxTypes
  <1>2. \A p \in userOps' : p \in userOps /\ ~(p.live /\ p.kind = o.kind)
    BY <1>1 DEF SecretsInv, OneAwaited
  <1>3. CASE o.kind = "reset"
    <2>1. /\ resetBox' \in {resetBox, [resetBox EXCEPT !.result = Secret(o)]}
          /\ creds' = creds
      BY <1>1, <1>3, Zenon DEF ShowSuccess
    <2>2. /\ resetBox'.open = resetBox.open /\ resetBox'.target = resetBox.target
          /\ resetBox'.early = resetBox.early
          /\ resetBox'.result = resetBox.result \/ resetBox'.result.user = o.user
      BY <1>1, <2>1 DEF Secret
    <2> QED
      BY <1>1, <1>2, <1>3, <2>1, <2>2 DEF SecretsInv, OneAwaited, NoneShown, ResetInv
  <1>4. CASE o.kind # "reset"
    <2>1. resetBox' = resetBox /\ (o.kind # "create" => creds' = creds)
      BY <1>1, <1>4, Zenon DEF ShowSuccess
    <2>2. creds # NoSecret => creds' = creds
      BY <2>1 DEF SecretsInv, NoneShown
    <2>3. OneAwaited'
      BY <1>2 DEF SecretsInv, OneAwaited
    <2>4. NoneShown'
      <3>1. ASSUME NEW p \in userOps', p.live
            PROVE  /\ p.kind = "create" => creds' = NoSecret
                   /\ p.kind = "reset" => resetBox'.result = NoSecret
        <4>1. p \in userOps /\ p.kind # o.kind
          BY <1>2, <3>1
        <4> QED  BY <2>1, <3>1, <4>1 DEF SecretsInv, NoneShown
      <3> QED  BY <3>1 DEF NoneShown
    <2>5. ResetInv'
      BY <1>2, <2>1 DEF SecretsInv, ResetInv
    <2> QED  BY <2>1, <2>2, <2>3, <2>4, <2>5 DEF SecretsInv
  <1> QED  BY <1>3, <1>4

\* What a step does to the passwords that are shown.
ShownKept ==
    /\ creds # NoSecret => creds' \in {creds, NoSecret}
    /\ resetBox.result # NoSecret => resetBox'.result \in {resetBox.result, NoSecret}

LEMMA SecretsStep ==
    ASSUME UsersTypes, SecretsInv, [UsersNext]_userVars
    PROVE  SecretsInv' /\ ShownKept
  <1> USE DEF boxes
  <1>0. resetBox \in [open : BOOLEAN, target : Users \cup {NoUser},
                     result : Secrets \cup {NoSecret}, early : BOOLEAN]
    BY DEF UsersTypes, BoxTypes
  <1>1. CASE UNCHANGED <<resetBox, creds>> /\ userOps' \subseteq userOps
    BY <1>1, SecretsKept DEF ShownKept
  <1>2. CASE LeaveUsers
    <2>1. \A o \in userOps' : ~o.live
      BY <1>2 DEF LeaveUsers, UsersTypes, StateTypes, UserRequests
    <2>2. creds' = NoSecret /\ resetBox'.result = NoSecret
      BY <1>2 DEF LeaveUsers, ClosedBoxes
    <2> QED  BY <2>1, <2>2 DEF SecretsInv, OneAwaited, NoneShown, ResetInv, ShownKept
  <1>3. CASE SubmitCreate
    <2>1. PICK v : Submit("create", createBox.user, v)
      BY <1>3 DEF SubmitCreate
    <2> QED  BY <1>3, <2>1, SecretsSubmit DEF SubmitCreate, ShownKept
  <1>4. CASE SubmitEdit
    BY <1>4, SecretsSubmit DEF SubmitEdit, ShownKept
  <1>5. CASE SubmitReset
    BY <1>5, SecretsSubmit DEF SubmitReset, ShownKept
  <1>6. CASE ConfirmDelete
    BY <1>6, SecretsSubmit DEF ConfirmDelete, ShownKept
  <1>7. ASSUME NEW u \in Users, OpenReset(u)
        PROVE  SecretsInv' /\ ShownKept
    <2>1. /\ ~resetBox.open /\ UNCHANGED <<userOps, creds>>
          /\ resetBox'.result = resetBox.result /\ resetBox'.early = resetBox.early
      BY <1>0, <1>7 DEF OpenReset, RowButtons, NoBoxOpen
    <2> QED  BY <2>1 DEF SecretsInv, OneAwaited, NoneShown, ResetInv, ShownKept
  <1>8. CASE CloseReset
    <2>1. /\ UNCHANGED <<userOps, creds>> /\ resetBox'.result = NoSecret
          /\ resetBox'.early = (resetBox.early \/ IsPending("reset"))
      BY <1>0, <1>8 DEF CloseReset, ClosedReset
    <2> QED
      BY <2>1 DEF IsPending, SecretsInv, OneAwaited, NoneShown, ResetInv, ShownKept
  <1>9. CASE CloseCreds
    BY <1>9 DEF CloseCreds, SecretsInv, OneAwaited, NoneShown, ResetInv, ShownKept
  <1>10. ASSUME NEW o \in userOps, Handle(o)
         PROVE  SecretsInv' /\ ShownKept
    BY <1>10, SecretsHandled DEF Handle, ShownKept
  <1>11. ASSUME NEW o \in userOps, o.live, SucceedUserOp(o)
         PROVE  SecretsInv' /\ ShownKept
    BY <1>11, SecretsAnswered DEF ShownKept
  <1>12. ASSUME NEW o \in userOps, ~o.live, SucceedUserOp(o)
         PROVE  UNCHANGED <<resetBox, creds>> /\ userOps' \subseteq userOps
    BY <1>12 DEF SucceedUserOp
  <1>13. \/ UNCHANGED <<resetBox, creds>> /\ userOps' \subseteq userOps
         \/ LeaveUsers \/ SubmitCreate \/ SubmitEdit \/ SubmitReset \/ ConfirmDelete
         \/ CloseReset \/ CloseCreds
         \/ \E u \in Users : OpenReset(u)
         \/ \E o \in userOps : Handle(o) \/ SucceedUserOp(o)
    BY DEF UsersNext, userVars, EnterUsers, FocusUsers, RefreshUsers, OpenCreate, CloseCreate,
           TypeCreate, OpenEdit, OpenDelete, TypeEdit, CloseEdit, TypeDeleteUser, CancelDelete,
           OtherChanges, FailUserOp, ReadUsers, UsersArrive, UsersFail
  <1> QED
    BY <1>1, <1>2, <1>3, <1>4, <1>5, <1>6, <1>7, <1>8, <1>9, <1>10, <1>11, <1>12, <1>13

LEMMA SecretsInit == UsersInit => SecretsInv
  BY DEF UsersInit, SecretsInv, OneAwaited, NoneShown, ResetInv

\* The password of a reset is shown under the name of the user it was made
\* for, unless the dialog was once closed before the answer came.
THEOREM PasswordsNamed == UsersSpec => []PasswordOfUser
  <1> DEFINE IInv == UsersInv /\ SecretsInv
  <1>1. UsersInit => IInv
    BY UsersInvInit, SecretsInit
  <1>2. IInv /\ [UsersNext]_userVars => IInv'
    BY UsersInvStep, SecretsStep DEF UsersInv
  <1>3. IInv => PasswordOfUser
    <2>1. UsersInv => resetBox.early \in BOOLEAN
      BY DEF UsersInv, UsersTypes, BoxTypes
    <2> QED  BY <2>1 DEF SecretsInv, ResetInv, PasswordOfUser
  <1> QED  BY <1>1, <1>2, <1>3, PTL DEF UsersSpec

\* No answer, however late, replaces a password that is still shown.
THEOREM PasswordsShown == UsersSpec => ShownUntilClosed
  <1> DEFINE IInv == UsersInv /\ SecretsInv
  <1>1. UsersInit => IInv
    BY UsersInvInit, SecretsInit
  <1>2. IInv /\ [UsersNext]_userVars => IInv'
    BY UsersInvStep, SecretsStep DEF UsersInv
  <1>3. IInv /\ [UsersNext]_userVars
          => [ /\ creds # NoSecret => creds' \in {creds, NoSecret}
               /\ resetBox.result # NoSecret => resetBox'.result \in {resetBox.result, NoSecret}
             ]_userVars
    BY SecretsStep DEF UsersInv, ShownKept
  <1> QED  BY <1>1, <1>2, <1>3, PTL DEF UsersSpec, ShownUntilClosed

-----------------------------------------------------------------------------
(* The confirmation of a deletion *)

TypedForTarget ==
    deleteBox.text = "DELETE" => deleteBox.target # NoUser /\ deleteBox.typed = deleteBox.target

LEMMA TypedForTargetStep ==
    ASSUME UsersTypes, TypedForTarget, [UsersNext]_userVars
    PROVE  TypedForTarget'
  <1>0. deleteBox \in Confirms(Users, NoUser)
    BY DEF UsersTypes, BoxTypes
  <1>1. CASE UNCHANGED deleteBox
    BY <1>1 DEF TypedForTarget
  <1>2. ASSUME deleteBox' = NothingToConfirm(NoUser)
        PROVE  TypedForTarget'
    BY <1>2, NothingConfirmed DEF TypedForTarget
  <1>3. ASSUME NEW u \in Users, OpenDelete(u)
        PROVE  TypedForTarget'
    BY <1>0, <1>3, NoUserAssumption
    DEF OpenDelete, RowButtons, NoBoxOpen, AskToConfirm, TypedForTarget, Confirms
  <1>4. CASE TypeDeleteUser
    BY <1>0, <1>4 DEF TypeDeleteUser, TypeDelete, TypedForTarget, Confirms
  <1>5. CASE ConfirmDelete \/ CancelDelete
    BY <1>2, <1>5 DEF ConfirmDelete, CancelDelete, CloseConfirm
  <1>6. CASE LeaveUsers
    BY <1>2, <1>6 DEF LeaveUsers, ClosedBoxes
  <1>7. ASSUME NEW o \in userOps, SucceedUserOp(o)
        PROVE  UNCHANGED deleteBox
    BY <1>7, Zenon DEF SucceedUserOp, ShowSuccess, boxes
  <1>8. \/ UNCHANGED deleteBox
        \/ TypeDeleteUser \/ ConfirmDelete \/ CancelDelete \/ LeaveUsers
        \/ \E u \in Users : OpenDelete(u)
        \/ \E o \in userOps : SucceedUserOp(o)
    BY DEF UsersNext, userVars, boxes, EnterUsers, FocusUsers, RefreshUsers, OpenCreate,
           CloseCreate, CloseCreds, TypeCreate, OpenEdit, OpenReset, TypeEdit, CloseEdit,
           CloseReset, SubmitCreate, SubmitEdit, SubmitReset, OtherChanges, Handle,
           FailUserOp, ReadUsers, UsersArrive, UsersFail
  <1> QED  BY <1>1, <1>3, <1>4, <1>5, <1>6, <1>7, <1>8

\* A user is deleted only if DELETE was typed while the dialog named that
\* user: no answer closes this dialog behind the admin's back.
THEOREM UserDeletionsTyped == UsersSpec => []UserDeletionTyped
  <1> DEFINE IInv == UsersInv /\ TypedForTarget
  <1>1. UsersInit => IInv
    <2>1. UsersInit => TypedForTarget
      BY NothingConfirmed DEF UsersInit, TypedForTarget
    <2> QED  BY <2>1, UsersInvInit
  <1>2. IInv /\ [UsersNext]_userVars => IInv'
    BY UsersInvStep, TypedForTargetStep DEF UsersInv
  <1>3. IInv => UserDeletionTyped
    BY DEF TypedForTarget, UserDeletionTyped, Confirmed
  <1> QED  BY <1>1, <1>2, <1>3, PTL DEF UsersSpec
=============================================================================
