--------------------------- MODULE DatabasesPageProofs ---------------------------
(***************************************************************************)
(* Theorems about DatabasesPage, for any number of databases, requests and *)
(* visits.                                                                 *)
(***************************************************************************)
EXTENDS DatabasesPage, QueryCacheProofs

\* The lists a page may show: right about every database that was not
\* created or deleted without a good answer.
Acceptable(s) ==
    {d \in SUBSET DbNames : \A n \in DbNames \ dbUnsure : (n \in d) = (n \in Listing(s))}

ListsVouch == \A s \in BOOLEAN : Vouched(dbLists[s], Acceptable(s))

\* An item for which DELETE was typed is the one the dialog names, if the
\* dialog is open, and is the only one ever typed for otherwise.
TypedOrCutShort ==
    ~cutShort /\ dropDb.text = "DELETE" =>
        dropDb.target # NoDb /\ dropDb.typed = dropDb.target

ListTypes == dbLists \in [BOOLEAN -> Entries(SUBSET DbNames)]

-----------------------------------------------------------------------------
(* The lists *)

\* A step that leaves the server alone and treats each list by an operation
\* that keeps what it vouches for.
LEMMA ListsKept ==
    ASSUME ListTypes, ListsVouch, NEW s \in BOOLEAN, NEW q \in Entries(SUBSET DbNames),
           Vouched(q, Acceptable(s)), dbLists' = [dbLists EXCEPT ![s] = q],
           UNCHANGED <<existing, dbUnsure>>
    PROVE  ListTypes' /\ ListsVouch'
  <1>1. \A t \in BOOLEAN : Acceptable(t)' = Acceptable(t)
    BY DEF Acceptable, Listing
  <1>2. \A t \in BOOLEAN : dbLists'[t] = IF t = s THEN q ELSE dbLists[t]
    BY DEF ListTypes
  <1> QED  BY <1>1, <1>2 DEF ListTypes, ListsVouch

LEMMA ListingTyped ==
    ASSUME DatabasesTypeOK, NEW s \in BOOLEAN
    PROVE  Listing(s) \in SUBSET DbNames /\ Listing(s) \in Acceptable(s)
  BY DEF DatabasesTypeOK, Listing, Acceptable

\* A database the server has handled joins those that nobody is sure of, so
\* what was acceptable stays so.
LEMMA HandledListsVouch ==
    ASSUME DatabasesTypeOK, ListsVouch, NEW o \in dbOps, HandleDbOp(o)
    PROVE  ListsVouch'
  <1>1. SUFFICES ASSUME NEW s \in BOOLEAN
                 PROVE  Vouched(dbLists[s], Acceptable(s)')
    BY DEF HandleDbOp, ListsVouch
  <1>2. Acceptable(s) \subseteq Acceptable(s)'
    <2>1. /\ dbUnsure' = dbUnsure \cup {o.name}
          /\ existing' \in {existing \cup {o.name}, existing \ {o.name}}
      BY DEF HandleDbOp
    <2>2. \A n \in DbNames \ dbUnsure' : (n \in Listing(s)') = (n \in Listing(s))
      BY <2>1 DEF Listing
    <2> QED  BY <2>1, <2>2 DEF Acceptable
  <1> QED  BY <1>1, <1>2, VouchedMonotone DEF ListsVouch

LEMMA InvalidatedListsVouch ==
    ASSUME ListTypes, dbMounted \in BOOLEAN, showSystem \in BOOLEAN, InvalidateDatabases
    PROVE  ListTypes' /\ ListsVouch'
  <1>1. ASSUME NEW s \in BOOLEAN
        PROVE  /\ dbLists'[s] \in Entries(SUBSET DbNames)
               /\ Vouched(dbLists'[s], Acceptable(s)')
    <2>1. /\ dbLists[s] \in Entries(SUBSET DbNames)
          /\ (dbMounted /\ s = showSystem) \in BOOLEAN
          /\ dbLists'[s] = Invalidate(dbLists[s], dbMounted /\ s = showSystem)
      BY DEF ListTypes, InvalidateDatabases
    <2> QED  BY <2>1, InvalidateVouched
  <1>2. dbLists' = [s \in BOOLEAN |-> dbLists'[s]]
    BY DEF InvalidateDatabases
  <1> QED  BY <1>1, <1>2 DEF ListTypes, ListsVouch

\* Every step but those of the server treats one list.
LEMMA ListsStep ==
    ASSUME DatabasesTypeOK, ListsVouch, [DatabasesNext]_dbVars
    PROVE  ListTypes' /\ ListsVouch'
  <1> USE DEF ListTypes
  <1>t. /\ ListTypes /\ dbMounted \in BOOLEAN /\ showSystem \in BOOLEAN
        /\ \A s \in BOOLEAN : /\ dbLists[s] \in Entries(SUBSET DbNames)
                              /\ Vouched(dbLists[s], Acceptable(s))
    BY DEF DatabasesTypeOK, ListsVouch
  <1>0. CASE UNCHANGED <<existing, dbUnsure, dbLists>>
    BY <1>0, <1>t DEF ListsVouch, Acceptable, Listing
  <1>1. CASE EnterDatabases
    BY <1>1, <1>t, ObserveVouched, ListsKept DEF EnterDatabases
  <1>2. CASE ToggleSystem
    <2> DEFINE s == ~showSystem
    <2>1. /\ s \in BOOLEAN /\ UNCHANGED <<existing, dbUnsure>>
          /\ dbLists' = [dbLists EXCEPT ![s] = Observe(dbLists[s])]
      BY <1>2, <1>t DEF ToggleSystem
    <2> HIDE DEF s
    <2> QED  BY <2>1, <1>t, ObserveVouched, ListsKept
  <1>3. CASE RefreshDatabases
    <2>1. /\ Age(dbLists[showSystem]) \in Entries(SUBSET DbNames)
          /\ Vouched(Age(dbLists[showSystem]), Acceptable(showSystem))
      BY <1>t, AgeVouched
    <2>2. /\ Observe(Age(dbLists[showSystem])) \in Entries(SUBSET DbNames)
          /\ Vouched(Observe(Age(dbLists[showSystem])), Acceptable(showSystem))
      BY <2>1, ObserveVouched
    <2> QED  BY <1>3, <1>t, <2>2, ListsKept DEF RefreshDatabases
  <1>4. ASSUME NEW o \in dbOps, HandleDbOp(o)
        PROVE  ListTypes' /\ ListsVouch'
    <2>1. ListTypes'
      BY <1>4, <1>t DEF HandleDbOp
    <2> QED  BY <1>4, <2>1, HandledListsVouch
  <1>5. ASSUME NEW o \in dbOps, SucceedDbOp(o)
        PROVE  ListTypes' /\ ListsVouch'
    BY <1>5, <1>t, InvalidatedListsVouch DEF SucceedDbOp
  <1>6. ASSUME NEW s \in BOOLEAN, ReadDatabases(s)
        PROVE  ListTypes' /\ ListsVouch'
    <2>1. Listing(s) \in SUBSET DbNames /\ Listing(s) \in Acceptable(s)
      BY ListingTyped
    <2>2. /\ Read(dbLists[s], Listing(s)) \in Entries(SUBSET DbNames)
          /\ Vouched(Read(dbLists[s], Listing(s)), Acceptable(s))
      BY <1>t, <2>1, ReadVouched
    <2> QED  BY <1>6, <1>t, <2>2, ListsKept DEF ReadDatabases
  <1>7. ASSUME NEW s \in BOOLEAN, DatabasesArrive(s)
        PROVE  ListTypes' /\ ListsVouch'
    BY <1>7, <1>t, ArriveVouched, ListsKept DEF DatabasesArrive
  <1>8. ASSUME NEW s \in BOOLEAN, DatabasesFail(s)
        PROVE  ListTypes' /\ ListsVouch'
    BY <1>8, <1>t, FetchFailsVouched, ListsKept DEF DatabasesFail
  <1>9. \/ UNCHANGED <<existing, dbUnsure, dbLists>>
        \/ EnterDatabases \/ ToggleSystem \/ RefreshDatabases
        \/ \E o \in dbOps : HandleDbOp(o) \/ SucceedDbOp(o)
        \/ \E s \in BOOLEAN : ReadDatabases(s) \/ DatabasesArrive(s) \/ DatabasesFail(s)
    BY DEF DatabasesNext, dbVars, LeaveDatabases, OpenNewDb, SubmitNewDb, CloseNewDb,
           TypeNewDb, OpenDropDb, TypeDropDb, ConfirmDropDb, CancelDropDb, FailDbOp
  <1> QED  BY <1>0, <1>1, <1>2, <1>3, <1>4, <1>5, <1>6, <1>7, <1>8, <1>9

-----------------------------------------------------------------------------
(* The dialogs and the requests *)

LEMMA DbRequestTyped ==
    ASSUME NEW o \in DbRequests
    PROVE  /\ [o EXCEPT !.done = TRUE] \in DbRequests
           /\ [o EXCEPT !.live = FALSE] \in DbRequests
  BY DEF DbRequests

LEMMA SendTyped ==
    ASSUME DatabasesTypeOK, NEW k \in {"create", "delete"}, NEW n \in DbNames, SendDbOp(k, n)
    PROVE  dbIssued' \in 0..dbPlan.ops /\ \A o \in dbOps' : o \in DbRequests
  <1>1. dbPlan.ops \in Nat
    BY DbPlansAssumption DEF DatabasesTypeOK
  <1>2. dbIssued' \in 0..dbPlan.ops /\ dbIssued + 1 \in Nat
    BY <1>1 DEF DatabasesTypeOK, SendDbOp
  <1>3. [kind |-> k, name |-> n, id |-> dbIssued + 1, live |-> TRUE, done |-> FALSE] \in DbRequests
    BY <1>2 DEF DbRequests
  <1> QED  BY <1>2, <1>3 DEF DatabasesTypeOK, SendDbOp

LEMMA ListedDbNamesTyped ==
    ASSUME DatabasesTypeOK
    PROVE  ListedDbNames \subseteq DbNames
  BY DEF DatabasesTypeOK, ListedDbNames, Entries

\* Of the dialogs, the requests and the bounds: the rest of the types.
DialogTypes ==
    /\ existing \subseteq DbNames /\ dbUnsure \subseteq DbNames
    /\ showSystem \in BOOLEAN /\ dbPlan \in DbPlans
    /\ \A o \in dbOps : o \in DbRequests
    /\ dbIssued \in 0..dbPlan.ops
    /\ dbMounted \in BOOLEAN /\ dbVisits \in 0..dbPlan.visits
    /\ newDb \in [open : BOOLEAN, name : DbNames \cup {NoDb}]
    /\ dropDb \in Confirms(DbNames, NoDb)
    /\ cutShort \in BOOLEAN

LEMMA DialogTypesStep ==
    ASSUME DatabasesTypeOK, [DatabasesNext]_dbVars
    PROVE  DialogTypes'
  <1>0. /\ DialogTypes /\ dropDb \in Confirms(DbNames, NoDb)
        /\ \A o \in dbOps : o \in DbRequests
    BY DEF DatabasesTypeOK, DialogTypes
  <1>c. /\ NothingToConfirm(NoDb) \in Confirms(DbNames, NoDb)
        /\ CloseConfirm(dropDb, NoDb) \in Confirms(DbNames, NoDb)
        /\ \A n \in DbNames : AskToConfirm(dropDb, n) \in Confirms(DbNames, NoDb)
        /\ TypeDelete(dropDb) \in Confirms(DbNames, NoDb)
        /\ [dropDb EXCEPT !.target = NoDb] \in Confirms(DbNames, NoDb)
    BY <1>0, ConfirmTyped
  <1>1. CASE EnterDatabases
    <2>1. dbPlan.visits \in Nat
      BY <1>0, DbPlansAssumption DEF DialogTypes
    <2>2. dbVisits' \in 0..dbPlan.visits
      BY <1>0, <1>1, <2>1 DEF EnterDatabases, DialogTypes
    <2> QED  BY <1>0, <1>1, <2>2 DEF EnterDatabases, DialogTypes, dropVars
  <1>2. CASE LeaveDatabases
    BY <1>0, <1>2, <1>c, DbRequestTyped DEF LeaveDatabases, DialogTypes
  <1>3. CASE ToggleSystem \/ RefreshDatabases
    BY <1>0, <1>3 DEF ToggleSystem, RefreshDatabases, DialogTypes, dropVars, visitVars
  <1>4. CASE OpenNewDb \/ CloseNewDb
    BY <1>0, <1>4 DEF OpenNewDb, CloseNewDb, DialogTypes, dropVars, visitVars
  <1>5. ASSUME NEW n \in DbNames, TypeNewDb(n)
        PROVE  DialogTypes'
    BY <1>0, <1>5 DEF TypeNewDb, DialogTypes, dropVars, visitVars
  <1>6. CASE SubmitNewDb
    <2>1. newDb.name \in DbNames
      BY <1>0, <1>6 DEF SubmitNewDb, DialogTypes
    <2>2. dbIssued' \in 0..dbPlan.ops /\ \A o \in dbOps' : o \in DbRequests
      BY <1>6, <2>1, SendTyped DEF SubmitNewDb
    <2> QED  BY <1>0, <1>6, <2>2 DEF SubmitNewDb, DialogTypes, dropVars, visitVars
  <1>7. ASSUME NEW n \in DbNames, OpenDropDb(n)
        PROVE  DialogTypes'
    BY <1>0, <1>7, <1>c DEF OpenDropDb, DialogTypes, visitVars
  <1>8. CASE TypeDropDb \/ CancelDropDb
    BY <1>0, <1>8, <1>c DEF TypeDropDb, CancelDropDb, DialogTypes, visitVars
  <1>9. CASE ConfirmDropDb
    <2>1. dropDb.target \in DbNames
      BY <1>0, <1>9 DEF ConfirmDropDb, MayConfirm, Confirms
    <2>2. dbIssued' \in 0..dbPlan.ops /\ \A o \in dbOps' : o \in DbRequests
      BY <1>9, <2>1, SendTyped DEF ConfirmDropDb
    <2> QED  BY <1>0, <1>9, <2>2, <1>c DEF ConfirmDropDb, DialogTypes, visitVars
  <1>10. ASSUME NEW o \in dbOps, HandleDbOp(o)
         PROVE  DialogTypes'
    <2>1. o.name \in DbNames
      BY <1>0 DEF DbRequests
    <2> QED  BY <1>0, <1>10, <2>1, DbRequestTyped DEF HandleDbOp, DialogTypes, dropVars, visitVars
  <1>11. ASSUME NEW o \in dbOps, DropAnswered(o)
         PROVE  dropDb' \in Confirms(DbNames, NoDb) /\ cutShort' \in BOOLEAN
    BY <1>0, <1>11, <1>c DEF DropAnswered, DialogTypes, dropVars
  <1>12. ASSUME NEW o \in dbOps, SucceedDbOp(o) \/ FailDbOp(o)
         PROVE  DialogTypes'
    <2>1. dropDb' \in Confirms(DbNames, NoDb) /\ cutShort' \in BOOLEAN
      BY <1>11, <1>12 DEF SucceedDbOp, FailDbOp
    <2>2. newDb' \in [open : BOOLEAN, name : DbNames \cup {NoDb}]
      <3>1. newDb' \in {newDb, [open |-> FALSE, name |-> NoDb]}
        BY <1>12, Zenon DEF SucceedDbOp, FailDbOp
      <3>2. newDb \in [open : BOOLEAN, name : DbNames \cup {NoDb}]
        BY <1>0 DEF DialogTypes
      <3>3. [open |-> FALSE, name |-> NoDb] \in [open : BOOLEAN, name : DbNames \cup {NoDb}]
        OBVIOUS
      <3> QED  BY <3>1, <3>2, <3>3
    <2>3. /\ dbOps' \subseteq dbOps /\ dbUnsure' \subseteq dbUnsure
          /\ UNCHANGED <<existing, showSystem, dbIssued, visitVars>>
      BY <1>12 DEF SucceedDbOp, FailDbOp
    <2> QED  BY <1>0, <2>1, <2>2, <2>3 DEF DialogTypes, visitVars
  <1>13. ASSUME NEW s \in BOOLEAN, ReadDatabases(s) \/ DatabasesArrive(s) \/ DatabasesFail(s)
         PROVE  DialogTypes'
    BY <1>0, <1>13
    DEF ReadDatabases, DatabasesArrive, DatabasesFail, DialogTypes, dropVars, visitVars
  <1>14. CASE UNCHANGED dbVars
    BY <1>0, <1>14 DEF DialogTypes, dbVars
  <1> QED
    BY <1>1, <1>2, <1>3, <1>4, <1>5, <1>6, <1>7, <1>8, <1>9, <1>10, <1>12, <1>13, <1>14
    DEF DatabasesNext

\* The inductive invariant: the types, and what the two lists vouch for.
DatabasesInv == DatabasesTypeOK /\ ListsVouch

LEMMA DatabasesInvInit == DatabasesInit => DatabasesInv
  <1> SUFFICES ASSUME DatabasesInit PROVE DatabasesInv
    OBVIOUS
  <1>1. dbPlan.ops \in Nat /\ dbPlan.visits \in Nat /\ existing \subseteq DbNames
    BY DbPlansAssumption DEF DatabasesInit
  <1>2. /\ Unasked \in Entries(SUBSET DbNames)
        /\ \A s \in BOOLEAN : Vouched(Unasked, Acceptable(s))
    BY UnaskedVouched
  <1>3. NothingToConfirm(NoDb) \in Confirms(DbNames, NoDb)
    BY DEF NothingToConfirm, Confirms
  <1>4. dbLists \in [BOOLEAN -> Entries(SUBSET DbNames)] /\ ListsVouch
    BY <1>2 DEF DatabasesInit, ListsVouch
  <1>5. DialogTypes
    <2>1. dbIssued \in 0..dbPlan.ops /\ dbVisits \in 0..dbPlan.visits
      BY <1>1 DEF DatabasesInit
    <2>2. newDb \in [open : BOOLEAN, name : DbNames \cup {NoDb}]
      BY DEF DatabasesInit
    <2> QED  BY <1>1, <1>3, <2>1, <2>2 DEF DatabasesInit, DialogTypes
  <1> QED  BY <1>4, <1>5 DEF DatabasesInv, DatabasesTypeOK, DialogTypes

LEMMA DatabasesInvStep ==
    ASSUME DatabasesInv, [DatabasesNext]_dbVars
    PROVE  DatabasesInv'
  BY ListsStep, DialogTypesStep DEF DatabasesInv, DatabasesTypeOK, DialogTypes, ListTypes

\* The list, its dialogs and the requests have their types, whatever is
\* clicked and answered in whatever order.
THEOREM DatabasesTypeCorrect == DatabasesSpec => []DatabasesTypeOK
  <1>1. DatabasesInv => DatabasesTypeOK
    BY DEF DatabasesInv
  <1> QED  BY <1>1, DatabasesInvInit, DatabasesInvStep, PTL DEF DatabasesSpec

\* Each of the two cached lists, if it counts as up to date, agrees with the
\* server about every database whose creation or deletion was answered.
THEOREM DatabasesListed == DatabasesSpec => []DatabasesInSync
  <1>1. DatabasesInv => DatabasesInSync
    BY DEF DatabasesInv, ListsVouch, Vouched, Acceptable, DatabasesInSync
  <1> QED  BY <1>1, DatabasesInvInit, DatabasesInvStep, PTL DEF DatabasesSpec

-----------------------------------------------------------------------------
(* The confirmation of a deletion *)

LEMMA TypedOrCutShortStep ==
    ASSUME DatabasesTypeOK, TypedOrCutShort, [DatabasesNext]_dbVars
    PROVE  TypedOrCutShort'
  <1>0. dropDb \in Confirms(DbNames, NoDb)
    BY DEF DatabasesTypeOK
  <1>1. CASE UNCHANGED dropVars
    BY <1>1 DEF TypedOrCutShort, dropVars
  <1>2. CASE LeaveDatabases
    BY <1>2, NothingConfirmed DEF LeaveDatabases, TypedOrCutShort
  <1>3. ASSUME NEW n \in DbNames, OpenDropDb(n)
        PROVE  TypedOrCutShort'
    BY <1>0, <1>3 DEF OpenDropDb, NoDbBoxOpen, AskToConfirm, TypedOrCutShort, Confirms
  <1>4. CASE TypeDropDb
    BY <1>0, <1>4 DEF TypeDropDb, TypeDelete, TypedOrCutShort, Confirms
  <1>5. CASE ConfirmDropDb \/ CancelDropDb
    <2>1. dropDb' = NothingToConfirm(NoDb)
      BY <1>5 DEF ConfirmDropDb, CancelDropDb, CloseConfirm
    <2> QED  BY <2>1, NothingConfirmed DEF TypedOrCutShort
  <1>6. ASSUME NEW o \in dbOps, SucceedDbOp(o) \/ FailDbOp(o)
        PROVE  TypedOrCutShort'
    <2>1. DropAnswered(o)
      BY <1>6 DEF SucceedDbOp, FailDbOp
    <2> QED  BY <1>0, <2>1 DEF DropAnswered, dropVars, TypedOrCutShort, Confirms
  <1>7. \/ UNCHANGED dropVars
        \/ LeaveDatabases \/ TypeDropDb \/ ConfirmDropDb \/ CancelDropDb
        \/ \E n \in DbNames : OpenDropDb(n)
        \/ \E o \in dbOps : SucceedDbOp(o) \/ FailDbOp(o)
    BY DEF DatabasesNext, dbVars, dropVars, EnterDatabases, ToggleSystem, RefreshDatabases,
           OpenNewDb, SubmitNewDb, CloseNewDb, TypeNewDb, HandleDbOp, ReadDatabases,
           DatabasesArrive, DatabasesFail
  <1> QED  BY <1>1, <1>2, <1>3, <1>4, <1>5, <1>6, <1>7

\* A database is deleted only if DELETE was typed while the dialog named it,
\* unless an answer closed the dialog in which DELETE stood already: only
\* that way past handleClose leaves the text behind.
THEOREM DropsAreTyped == DatabasesSpec => []DropTypedOrCutShort
  <1> DEFINE IInv == DatabasesInv /\ TypedOrCutShort
  <1>1. DatabasesInit => IInv
    <2>1. DatabasesInit => TypedOrCutShort
      BY NothingConfirmed DEF DatabasesInit, TypedOrCutShort
    <2> QED  BY <2>1, DatabasesInvInit
  <1>2. IInv /\ [DatabasesNext]_dbVars => IInv'
    BY DatabasesInvStep, TypedOrCutShortStep DEF DatabasesInv
  <1>3. IInv => DropTypedOrCutShort
    BY DEF TypedOrCutShort, DropTypedOrCutShort, Confirmed, DatabasesInv, DatabasesTypeOK
  <1> QED  BY <1>1, <1>2, <1>3, PTL DEF DatabasesSpec
=============================================================================
