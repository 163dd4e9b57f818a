------------------------------ MODULE DatabasesPage ------------------------------
(***************************************************************************)
(* The list of databases (src/backend/ui/src/components/DatabasesTable.tsx)*)
(* with the dialogs that create and delete one.  The list exists twice in  *)
(* the cache, with and without the system databases; both are reached by   *)
(* an invalidation of "databases".                                         *)
(***************************************************************************)
EXTENDS Naturals, QueryCache

CONSTANTS
    DbNames,        \* names of databases
    SystemDbs,      \* the protected ones among them
    NoDb,           \* no database
    DbPlans         \* bounds: the databases there are at first, the role of the
                    \* user, what is used of the page, how many requests and visits

ASSUME SystemDbsAssumption == SystemDbs \subseteq DbNames
ASSUME NoDbAssumption == NoDb \notin DbNames
ASSUME DbPlansAssumption ==
    DbPlans \subseteq [existing : {E \in SUBSET DbNames : SystemDbs \subseteq E},
                       admin : BOOLEAN,
                       uses : SUBSET {"create", "delete", "system"}, ops : Nat, visits : Nat]

VARIABLES
    existing,       \* the databases of the server
    dbUnsure,       \* those last created or deleted without a good answer
    dbLists,        \* the two cached lists: without and with system databases
    showSystem,     \* which of them is shown
    dbPlan,         \* the plan that is followed
    dbOps,          \* requests on their way
    dbIssued,       \* number of them so far
    dbMounted, dbVisits,
    newDb,          \* the dialog that creates
    dropDb,         \* the dialog that confirms a deletion
    cutShort        \* was it closed by an answer while DELETE stood in it

dbVars == <<existing, dbUnsure, dbLists, showSystem, dbPlan, dbOps, dbIssued,
            dbMounted, dbVisits, newDb, dropDb, cutShort>>

dropVars == <<dropDb, cutShort>>
visitVars == <<dbPlan, dbMounted, dbVisits>>

DbRequests == [kind : {"create", "delete"}, name : DbNames, id : Nat,
               live : BOOLEAN, done : BOOLEAN]

DatabasesTypeOK ==
    /\ existing \subseteq DbNames
    /\ dbUnsure \subseteq DbNames
    /\ dbLists \in [BOOLEAN -> Entries(SUBSET DbNames)]
    /\ showSystem \in BOOLEAN /\ dbPlan \in DbPlans
    /\ \A o \in dbOps : o \in DbRequests
    /\ dbIssued \in 0..dbPlan.ops
    /\ dbMounted \in BOOLEAN /\ dbVisits \in 0..dbPlan.visits
    /\ newDb \in [open : BOOLEAN, name : DbNames \cup {NoDb}]
    /\ dropDb \in Confirms(DbNames, NoDb)
    /\ cutShort \in BOOLEAN

(* GET /databases *)
Listing(system) == IF system THEN existing ELSE existing \ SystemDbs

ListedDbNames == IF dbLists[showSystem].data = NoData THEN {} ELSE dbLists[showSystem].data

DbPending(kind) == \E o \in dbOps : o.kind = kind /\ o.live

SendDbOp(kind, n) ==
    /\ ~DbPending(kind)
    /\ dbIssued < dbPlan.ops
    /\ dbIssued' = dbIssued + 1
    /\ dbOps' = dbOps \cup {[kind |-> kind, name |-> n, id |-> dbIssued + 1,
                             live |-> TRUE, done |-> FALSE]}

\* Mutant: only the list on the screen.
InvalidateShownList ==
    dbLists' = [dbLists EXCEPT ![showSystem] = Invalidate(@, dbMounted)]

(* invalidateQueries(["databases"]): both keys, of which one may be shown *)
InvalidateDatabases ==
    dbLists' = [s \in BOOLEAN |-> Invalidate(dbLists[s], dbMounted /\ s = showSystem)]

NoDbBoxOpen == ~newDb.open /\ dropDb.target = NoDb

---------------------------------------------------------------------------
(* The table and its buttons. *)

ToggleSystem ==
    /\ dbMounted /\ "system" \in dbPlan.uses /\ NoDbBoxOpen
    /\ showSystem' = ~showSystem
    /\ dbLists' = [dbLists EXCEPT ![~showSystem] = Observe(@)]
    /\ UNCHANGED <<existing, dbUnsure, dbOps, dbIssued, newDb, dropVars, visitVars>>

(* the Refresh button, and the window that gets the focus back *)
RefreshDatabases ==
    /\ dbMounted /\ NoDbBoxOpen
    /\ dbLists[showSystem].fetch = "idle"
    /\ dbLists' = [dbLists EXCEPT ![showSystem] = Observe(Age(@))]
    /\ UNCHANGED <<existing, dbUnsure, showSystem, dbOps, dbIssued, newDb, dropVars, visitVars>>

OpenNewDb ==
    /\ dbMounted /\ dbPlan.admin /\ "create" \in dbPlan.uses /\ NoDbBoxOpen
    /\ newDb' = [newDb EXCEPT !.open = TRUE]
    /\ UNCHANGED <<existing, dbUnsure, dbLists, showSystem, dbOps, dbIssued, dropVars, visitVars>>

TypeNewDb(n) ==
    /\ newDb.open
    /\ newDb' = [newDb EXCEPT !.name = n]
    /\ UNCHANGED <<existing, dbUnsure, dbLists, showSystem, dbOps, dbIssued, dropVars, visitVars>>

(* an empty or an ill-formed name is refused by the form *)
SubmitNewDb ==
    /\ newDb.open /\ newDb.name # NoDb
    /\ SendDbOp("create", newDb.name)
    /\ UNCHANGED <<existing, dbUnsure, dbLists, showSystem, newDb, dropVars, visitVars>>

CloseNewDb ==
    /\ newDb.open
    /\ newDb' = [newDb EXCEPT !.open = FALSE]
    /\ UNCHANGED <<existing, dbUnsure, dbLists, showSystem, dbOps, dbIssued, dropVars, visitVars>>

OpenDropDb(n) ==
    /\ dbMounted /\ dbPlan.admin /\ "delete" \in dbPlan.uses /\ NoDbBoxOpen
    /\ n \in ListedDbNames \ SystemDbs
    /\ dropDb' = AskToConfirm(dropDb, n)
    /\ UNCHANGED <<existing, dbUnsure, dbLists, showSystem, dbOps, dbIssued, newDb, cutShort, visitVars>>

TypeDropDb ==
    /\ dropDb.target # NoDb
    /\ dropDb' = TypeDelete(dropDb)
    /\ UNCHANGED <<existing, dbUnsure, dbLists, showSystem, dbOps, dbIssued, newDb, cutShort, visitVars>>

ConfirmDropDb ==
    /\ MayConfirm(dropDb, NoDb, DbPending("delete"))
    /\ SendDbOp("delete", dropDb.target)
    /\ dropDb' = CloseConfirm(dropDb, NoDb)
    /\ UNCHANGED <<existing, dbUnsure, dbLists, showSystem, newDb, cutShort, visitVars>>

\* Mutant: the typed text stays.
CancelDropOnly ==
    /\ dropDb.target # NoDb
    /\ dropDb' = [dropDb EXCEPT !.target = NoDb]
    /\ UNCHANGED <<existing, dbUnsure, dbLists, showSystem, dbOps, dbIssued, newDb, cutShort,
                   visitVars>>

CancelDropDb ==
    /\ dropDb.target # NoDb
    /\ dropDb' = CloseConfirm(dropDb, NoDb)
    /\ UNCHANGED <<existing, dbUnsure, dbLists, showSystem, dbOps, dbIssued, newDb, cutShort, visitVars>>

---------------------------------------------------------------------------
(* The server and the answers. *)

HandleDbOp(o) ==
    /\ ~o.done
    /\ (o.kind = "create") = (o.name \notin existing)
    /\ existing' = IF o.kind = "create" THEN existing \cup {o.name} ELSE existing \ {o.name}
    /\ dbUnsure' = dbUnsure \cup {o.name}
    /\ dbOps' = (dbOps \ {o}) \cup {[o EXCEPT !.done = TRUE]}
    /\ UNCHANGED <<dbLists, showSystem, dbIssued, newDb, dropVars, visitVars>>

(* Both callbacks of a deletion close the dialog that is open by now, past *)
(* its handleClose: what was typed into it stays.                          *)
DropAnswered(o) ==
    IF o.kind = "delete" /\ o.live
    THEN /\ dropDb' = [dropDb EXCEPT !.target = NoDb]
         /\ cutShort' = (cutShort \/ dropDb.text = "DELETE")
    ELSE UNCHANGED dropVars

SucceedDbOp(o) ==
    /\ o.done
    /\ dbOps' = dbOps \ {o}
    /\ dbUnsure' = dbUnsure \ {o.name}
    /\ InvalidateDatabases
    /\ newDb' = IF o.kind = "create" /\ o.live THEN [open |-> FALSE, name |-> NoDb] ELSE newDb
    /\ DropAnswered(o)
    /\ UNCHANGED <<existing, showSystem, dbIssued, visitVars>>

(* refused, not handled, or handled with the answer lost on the way *)
FailDbOp(o) ==
    /\ dbOps' = dbOps \ {o}
    /\ DropAnswered(o)
    /\ UNCHANGED <<existing, dbUnsure, dbLists, showSystem, dbIssued, newDb, visitVars>>

ReadDatabases(s) ==
    /\ dbLists[s].fetch = "sent"
    /\ dbLists' = [dbLists EXCEPT ![s] = Read(@, Listing(s))]
    /\ UNCHANGED <<existing, dbUnsure, showSystem, dbOps, dbIssued, newDb, dropVars, visitVars>>

DatabasesArrive(s) ==
    /\ dbLists[s].fetch = "read"
    /\ dbLists' = [dbLists EXCEPT ![s] = Arrive(@)]
    /\ UNCHANGED <<existing, dbUnsure, showSystem, dbOps, dbIssued, newDb, dropVars, visitVars>>

DatabasesFail(s) ==
    /\ dbLists[s].fetch # "idle"
    /\ dbLists' = [dbLists EXCEPT ![s] = FetchFails(@)]
    /\ UNCHANGED <<existing, dbUnsure, showSystem, dbOps, dbIssued, newDb, dropVars, visitVars>>

LeaveDatabases ==
    /\ dbMounted
    /\ dbMounted' = FALSE
    /\ showSystem' = FALSE
    /\ dbOps' = {[o EXCEPT !.live = FALSE] : o \in dbOps}
    /\ newDb' = [open |-> FALSE, name |-> NoDb]
    /\ dropDb' = NothingToConfirm(NoDb)
    /\ cutShort' = FALSE
    /\ UNCHANGED <<existing, dbUnsure, dbLists, dbPlan, dbIssued, dbVisits>>

EnterDatabases ==
    /\ ~dbMounted /\ dbVisits < dbPlan.visits
    /\ dbMounted' = TRUE
    /\ dbVisits' = dbVisits + 1
    /\ dbLists' = [dbLists EXCEPT ![FALSE] = Observe(@)]
    /\ UNCHANGED <<existing, dbUnsure, showSystem, dbPlan, dbOps, dbIssued, newDb, dropVars>>

DatabasesInit ==
    /\ dbPlan \in DbPlans /\ existing = dbPlan.existing
    /\ dbUnsure = {} /\ dbOps = {} /\ dbIssued = 0
    /\ dbLists = [s \in BOOLEAN |-> Unasked]
    /\ showSystem = FALSE
    /\ dbMounted = FALSE /\ dbVisits = 0
    /\ newDb = [open |-> FALSE, name |-> NoDb]
    /\ dropDb = NothingToConfirm(NoDb) /\ cutShort = FALSE

DatabasesNext ==
    \/ EnterDatabases \/ LeaveDatabases \/ ToggleSystem \/ RefreshDatabases
    \/ OpenNewDb \/ SubmitNewDb \/ CloseNewDb
    \/ \E n \in DbNames : TypeNewDb(n) \/ OpenDropDb(n)
    \/ TypeDropDb \/ ConfirmDropDb \/ CancelDropDb
    \/ \E o \in dbOps : HandleDbOp(o) \/ SucceedDbOp(o) \/ FailDbOp(o)
    \/ \E s \in BOOLEAN : ReadDatabases(s) \/ DatabasesArrive(s) \/ DatabasesFail(s)

DatabasesSpec == DatabasesInit /\ [][DatabasesNext]_dbVars

---------------------------------------------------------------------------
(* Each of the two lists, if it counts as up to date, shows the databases  *)
(* that were created and lacks those that were deleted, whichever of the   *)
(* lists was on the screen then                                            *)
DatabasesInSync ==
    \A s \in BOOLEAN :
        Fresh(dbLists[s]) /\ dbOps = {} /\ ~dbLists[s].overtaken =>
            \A n \in DbNames \ dbUnsure : (n \in dbLists[s].data) = (n \in Listing(s))

(* DELETE is typed for each database anew, unless the answer to the        *)
(* deletion before closed the dialog in which it was typed already         *)
DropTypedOrCutShort == cutShort \/ Confirmed(dropDb, NoDb)
=============================================================================
