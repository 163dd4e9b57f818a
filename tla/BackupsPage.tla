------------------------------- MODULE BackupsPage -------------------------------
(***************************************************************************)
(* The Backups page (src/backend/ui/src/routes/Backups.tsx) with its three *)
(* tabs, and the restore as the server carries it out                      *)
(* (src/backend/internal/handler/backup/handler.go).  A tab is taken down  *)
(* when another one is chosen: its state is lost, its requests are not.    *)
(*                                                                         *)
(* What a database holds is a set: the tables it had, and for every dump   *)
(* that pg_restore ran into it, that dump.                                 *)
(***************************************************************************)
EXTENDS Naturals, FiniteSets

CONSTANTS
    BackupDbs,      \* names of databases
    Files,          \* files that can be uploaded
    ValidFiles,     \* those pg_restore can list
    PublicDumps,    \* those that bring tables into the schema public
    DumpOf,         \* the database a valid file names, or NoName
    TableRows,      \* tables as <<schema, name>>
    NoName,         \* no database, no file
    Gone,           \* what a database that does not exist holds
    BackupPlans     \* bounds: the tab, what the databases hold at first, what is
                    \* chosen and uploaded, the numbers of requests, of changes by
                    \* others and of visits

ASSUME ValidFilesAssumption == ValidFiles \subseteq Files /\ PublicDumps \subseteq ValidFiles
ASSUME DumpOfAssumption == DumpOf \in [ValidFiles -> BackupDbs \cup {NoName}]
ASSUME NamesAssumption ==
    /\ IsFiniteSet(BackupDbs) /\ IsFiniteSet(TableRows)
    /\ NoName \notin BackupDbs \cup Files /\ Files \cap TableRows = {}
ASSUME BackupPlansAssumption ==
    BackupPlans \subseteq [tab : {"database", "tables", "restore"},
                          holds : [BackupDbs -> (SUBSET TableRows) \cup {Gone}],
                          uses : SUBSET (BackupDbs \cup Files \cup {"drop"}),
                          ops : Nat, others : Nat, visits : Nat]

VARIABLES
    bkPlan,         \* the plan that is followed
    holds,          \* what each database holds
    listedDbs,      \* the databases the page was told of
    listedTables,   \* the tables it was told of, for each database
    bkMounted, bkVisits, bkOthers,
    picked,         \* the ticked databases, or names of tables
    ofDb,           \* the database whose tables are shown
    movedSince,     \* did a list change after something was ticked
    loops,          \* backups under way: what is still to be fetched
    downloads,      \* the downloads that arrived
    restore,        \* the restore form
    inspections,    \* inspections under way
    restores,       \* restores under way
    bkIssued,       \* number of requests so far
    setBack,        \* was the form reset while an answer was awaited
    disturbed       \* the databases where restores overlapped, the check failed or
                    \* somebody made a table beside a restore or what it brought

bkVars == <<bkPlan, holds, listedDbs, listedTables, bkMounted, bkVisits, bkOthers, picked, ofDb,
            movedSince, loops, downloads, restore, inspections, restores, bkIssued, setBack,
            disturbed>>

listVars == <<listedDbs, listedTables, movedSince>>
tickVars == <<picked, ofDb, loops, downloads>>
restoreVars == <<restore, inspections, restores, setBack>>
bkVisitVars == <<bkPlan, bkMounted, bkVisits>>

Things == TableRows \cup Files

Existing == {d \in BackupDbs : holds[d] # Gone}
TablesOf(d) == IF holds[d] = Gone THEN {} ELSE holds[d] \cap TableRows

(* ListExistingTables looks at the schema public only *)
PublicThings(d) == IF holds[d] = Gone THEN {}
                   ELSE {x \in holds[d] : IF x \in Files THEN x \in PublicDumps ELSE x[1] = "public"}
NamesOf(T) == {t[2] : t \in T}

EmptyRestore == [file |-> NoName, result |-> NoName, target |-> NoName, filled |-> NoName,
                 drop |-> FALSE, message |-> "", about |-> NoName]

(* "result" is the file whose inspection is shown, "filled" the file whose *)
(* inspection filled in the target, "about" the file the message is about  *)
RestoreForms == [file : Files \cup {NoName}, result : Files \cup {NoName},
                 target : BackupDbs \cup {NoName}, filled : Files \cup {NoName},
                 drop : BOOLEAN, message : {"", "success", "error"},
                 about : Files \cup {NoName}]

Loops == [of : SUBSET BackupDbs, left : SUBSET BackupDbs, names : SUBSET NamesOf(TableRows),
          live : BOOLEAN]
(* "last" says that no other file was chosen since, "saw" is the target     *)
(* at the moment one was                                                   *)
Inspections == [file : Files, id : Nat, live : BOOLEAN, last : BOOLEAN,
                saw : BackupDbs \cup {NoName}]
Restores == [file : Files, db : BackupDbs, drop : BOOLEAN, id : Nat, live : BOOLEAN,
             at : {"sent", "checked", "dropped", "ready", "ok", "failed"}]

BackupsTypeOK ==
    /\ bkPlan \in BackupPlans
    /\ \A d \in BackupDbs : holds[d] = Gone \/ holds[d] \subseteq Things
    /\ listedDbs \subseteq BackupDbs
    /\ \A d \in BackupDbs : listedTables[d] \subseteq TableRows
    /\ bkMounted \in BOOLEAN /\ bkVisits \in 0..bkPlan.visits /\ bkOthers \in 0..bkPlan.others
    /\ picked \subseteq BackupDbs \cup NamesOf(TableRows)
    /\ ofDb \in BackupDbs \cup {NoName}
    /\ loops \subseteq Loops
    /\ downloads \subseteq {[db |-> d, names |-> N] :
                              d \in BackupDbs, N \in SUBSET NamesOf(TableRows)}
    /\ restore \in RestoreForms
    /\ \A i \in inspections : i \in Inspections
    /\ \A r \in restores : r \in Restores
    /\ bkIssued \in 0..bkPlan.ops
    /\ movedSince \in BOOLEAN /\ setBack \in BOOLEAN /\ disturbed \subseteq BackupDbs

---------------------------------------------------------------------------
(* The lists.  Each shows what the server had at some moment. *)

ListDbs ==
    /\ bkMounted /\ listedDbs # Existing
    /\ listedDbs' = Existing
    /\ movedSince' = (movedSince \/ picked # {})
    /\ UNCHANGED <<holds, listedTables, bkOthers, tickVars, restoreVars, bkIssued, disturbed,
                   bkVisitVars>>

ListTables ==
    /\ bkMounted /\ bkPlan.tab = "tables" /\ ofDb # NoName
    /\ listedTables[ofDb] # TablesOf(ofDb)
    /\ listedTables' = [listedTables EXCEPT ![ofDb] = TablesOf(ofDb)]
    /\ movedSince' = (movedSince \/ picked # {})
    /\ UNCHANGED <<holds, listedDbs, bkOthers, tickVars, restoreVars, bkIssued, disturbed,
                   bkVisitVars>>

(* the restores whose handler is still at work on a database *)
AtWork(d) == {r \in restores : r.db = d /\ r.at \notin {"ok", "failed"}}

(* someone creates or drops a database, or makes a table *)
OthersWork ==
    /\ bkOthers < bkPlan.others /\ bkOthers' = bkOthers + 1
    /\ \E d \in BackupDbs :
          \/ /\ holds' = [holds EXCEPT ![d] = IF @ = Gone THEN {} ELSE Gone]
             /\ UNCHANGED disturbed
          \/ \E t \in TableRows :
                /\ holds[d] # Gone
                /\ holds' = [holds EXCEPT ![d] = @ \cup {t}]
                /\ disturbed' = IF AtWork(d) # {} \/ holds[d] \cap Files # {}
                                THEN disturbed \cup {d} ELSE disturbed
    /\ UNCHANGED <<listVars, tickVars, restoreVars, bkIssued, bkVisitVars>>

---------------------------------------------------------------------------
(* The two tabs that back up. *)

(* what can be ticked: databases, or the names of the tables of one *)
Offered == IF bkPlan.tab = "database" THEN listedDbs
           ELSE IF ofDb = NoName THEN {} ELSE NamesOf(listedTables[ofDb])

(* how many entries the list has: two schemas may have a table of one name *)
Entered == IF bkPlan.tab = "database" THEN Cardinality(listedDbs)
           ELSE IF ofDb = NoName THEN 0 ELSE Cardinality(listedTables[ofDb])

AllTicked == Cardinality(picked) = Entered

Downloading == \E l \in loops : l.live

Tick(S) ==
    /\ bkMounted /\ bkPlan.tab # "restore"
    /\ picked' = S
    /\ movedSince' = (movedSince /\ S # {})
    /\ UNCHANGED <<holds, listedDbs, listedTables, bkOthers, ofDb, loops, downloads,
                   restoreVars, bkIssued, disturbed, bkVisitVars>>

ToggleItem(x) == x \in Offered /\ Tick(IF x \in picked THEN picked \ {x} ELSE picked \cup {x})

SelectAllItems == Offered # {} /\ Tick(IF AllTicked THEN {} ELSE Offered)

\* Mutant: the ticks of the database before stay.
ChooseDbOnly(d) ==
    /\ bkMounted /\ bkPlan.tab = "tables" /\ d \in listedDbs
    /\ ofDb' = d /\ movedSince' = FALSE
    /\ UNCHANGED <<holds, listedDbs, listedTables, bkOthers, picked, loops, downloads,
                   restoreVars, bkIssued, disturbed, bkVisitVars>>

ChooseDb(d) ==
    /\ bkMounted /\ bkPlan.tab = "tables" /\ d \in listedDbs
    /\ ofDb' = d /\ picked' = {} /\ movedSince' = FALSE
    /\ UNCHANGED <<holds, listedDbs, listedTables, bkOthers, loops, downloads, restoreVars,
                   bkIssued, disturbed, bkVisitVars>>

(* handleBackup takes the selection of this moment.  Databases are fetched *)
(* one after the other, tables all in one file.                            *)
StartBackup ==
    /\ bkMounted /\ bkPlan.tab # "restore" /\ picked # {} /\ ~Downloading
    /\ bkIssued < bkPlan.ops /\ bkIssued' = bkIssued + 1
    /\ loops' = loops \cup
         {IF bkPlan.tab = "database"
          THEN [of |-> picked \cap BackupDbs, left |-> picked \cap BackupDbs, names |-> {},
                live |-> TRUE]
          ELSE [of |-> {ofDb}, left |-> {ofDb}, names |-> picked, live |-> TRUE]}
    /\ UNCHANGED <<holds, listVars, bkOthers, picked, ofDb, downloads, restoreVars, disturbed,
                   bkVisitVars>>

(* One file arrives; pg_dump found the database, and some of the tables *)
FetchBackup(l) ==
    /\ \E d \in l.left :
          /\ d \in Existing
          /\ l.names # {} => l.names \cap NamesOf(TablesOf(d)) # {}
          /\ downloads' = downloads \cup {[db |-> d, names |-> l.names]}
          /\ loops' = (loops \ {l}) \cup
                      (IF l.left = {d} THEN {} ELSE {[l EXCEPT !.left = @ \ {d}]})
    /\ UNCHANGED <<holds, listVars, bkOthers, picked, ofDb, restoreVars, bkIssued, disturbed,
                   bkVisitVars>>

(* The first failure ends the loop, and nothing is said *)
FailBackup(l) ==
    /\ loops' = loops \ {l}
    /\ UNCHANGED <<holds, listVars, bkOthers, picked, ofDb, downloads, restoreVars, bkIssued,
                   disturbed, bkVisitVars>>

---------------------------------------------------------------------------
(* The tab that restores. *)

OnRestoreTab == bkMounted /\ bkPlan.tab = "restore"

RestoreIdle == <<holds, listVars, bkOthers, tickVars, disturbed, bkVisitVars>>

(* the target the callback of an inspection sees: only that of the last    *)
(* one is renewed when the tab is rendered                                 *)
TargetSeen(i) == IF i.last THEN restore.target ELSE i.saw
Superseded(i) == [i EXCEPT !.last = FALSE, !.saw = TargetSeen(i)]

(* handleFileChange: the message and the result go, the file is inspected *)
ChooseFile(f) ==
    /\ OnRestoreTab /\ restore.file = NoName /\ f \in bkPlan.uses
    /\ bkIssued < bkPlan.ops /\ bkIssued' = bkIssued + 1
    /\ restore' = [restore EXCEPT !.file = f, !.message = "", !.about = NoName,
                                  !.result = NoName]
    /\ inspections' = {Superseded(i) : i \in inspections} \cup
         {[file |-> f, id |-> bkIssued + 1, live |-> TRUE, last |-> TRUE, saw |-> NoName]}
    /\ UNCHANGED <<RestoreIdle, restores, setBack>>

\* Mutant: the result of the inspection stays.
ResetFileOnly ==
    /\ OnRestoreTab /\ restore.file # NoName
    /\ restore' = [restore EXCEPT !.file = NoName]
    /\ setBack' = (setBack \/ (\E i \in inspections : i.live) \/ (\E r \in restores : r.live))
    /\ UNCHANGED <<RestoreIdle, inspections, restores, bkIssued>>

(* the waste basket beside the file *)
ResetFile ==
    /\ OnRestoreTab /\ restore.file # NoName
    /\ restore' = EmptyRestore
    /\ setBack' = (setBack \/ (\E i \in inspections : i.live) \/ (\E r \in restores : r.live))
    /\ UNCHANGED <<RestoreIdle, inspections, restores, bkIssued>>

(* The callbacks belong to every inspection this tab started, the last or  *)
(* not; a target they see there already stays                              *)
InspectionOk(i) ==
    /\ i.file \in ValidFiles
    /\ inspections' = inspections \ {i}
    /\ restore' = IF ~i.live THEN restore
                  ELSE IF TargetSeen(i) = NoName /\ DumpOf[i.file] # NoName
                  THEN [restore EXCEPT !.result = i.file, !.message = "", !.about = NoName,
                                       !.target = DumpOf[i.file], !.filled = i.file]
                  ELSE [restore EXCEPT !.result = i.file, !.message = "", !.about = NoName]
    /\ UNCHANGED <<RestoreIdle, restores, bkIssued, setBack>>

InspectionFails(i) ==
    /\ inspections' = inspections \ {i}
    /\ restore' = IF i.live THEN [restore EXCEPT !.result = NoName, !.message = "error",
                                                 !.about = i.file]
                            ELSE restore
    /\ UNCHANGED <<RestoreIdle, restores, bkIssued, setBack>>

(* the select and the field "Or create new" *)
ChooseTarget(d) ==
    /\ OnRestoreTab /\ restore.result # NoName /\ d # restore.target /\ d \in bkPlan.uses
    /\ restore' = [restore EXCEPT !.target = d, !.filled = NoName]
    /\ UNCHANGED <<RestoreIdle, inspections, restores, bkIssued, setBack>>

SwitchDrop ==
    /\ OnRestoreTab /\ restore.result # NoName /\ "drop" \in bkPlan.uses
    /\ restore' = [restore EXCEPT !.drop = ~@]
    /\ UNCHANGED <<RestoreIdle, inspections, restores, bkIssued, setBack>>

StartRestore ==
    /\ OnRestoreTab /\ restore.result # NoName
    /\ restore.file # NoName /\ restore.target # NoName
    /\ ~\E r \in restores : r.live
    /\ bkIssued < bkPlan.ops /\ bkIssued' = bkIssued + 1
    /\ restores' = restores \cup
         {[file |-> restore.file, db |-> restore.target, drop |-> restore.drop,
           id |-> bkIssued + 1, live |-> TRUE, at |-> "sent"]}
    /\ disturbed' = IF AtWork(restore.target) # {} THEN disturbed \cup {restore.target}
                    ELSE disturbed
    /\ UNCHANGED <<holds, listVars, bkOthers, tickVars, bkVisitVars, restore, inspections,
                   setBack>>

---------------------------------------------------------------------------
(* RestoreBackup: the check, the drop, the creation and pg_restore are     *)
(* steps of their own; each but the check ends the handler if it fails.    *)
(* The statements are in the context of the request, pg_restore is not.    *)

Step(r, at, h) ==
    /\ restores' = (restores \ {r}) \cup {[r EXCEPT !.at = at]}
    /\ holds' = [holds EXCEPT ![r.db] = h]
    /\ UNCHANGED <<listVars, bkOthers, tickVars, bkVisitVars, restore, inspections, bkIssued,
                   setBack>>

\* Mutant: no check without "drop first".
CheckNothing(r) ==
    /\ r.at = "sent"
    /\ Step(r, IF r.drop THEN "checked" ELSE "ready", holds[r.db]) /\ UNCHANGED disturbed

(* Without "drop first" a database with tables is refused.  A check that   *)
(* fails, as it does where there is no such database and where the client  *)
(* has gone away, counts as passed.                                        *)
CheckTarget(r) ==
    /\ r.at = "sent"
    /\ \/ r.drop /\ Step(r, "checked", holds[r.db]) /\ UNCHANGED disturbed
       \/ /\ ~r.drop
          /\ Step(r, IF PublicThings(r.db) # {} THEN "failed" ELSE "ready", holds[r.db])
          /\ UNCHANGED disturbed
       \/ /\ ~r.drop /\ PublicThings(r.db) # {}
          /\ Step(r, "ready", holds[r.db])
          /\ disturbed' = disturbed \cup {r.db}

(* what a restore drops first is past what happened to it *)
DropTarget(r) ==
    /\ r.at = "checked"
    /\ Step(r, "dropped", Gone)
    /\ disturbed' = IF AtWork(r.db) = {r} THEN disturbed \ {r.db} ELSE disturbed

CreateTarget(r) ==
    /\ r.at = "dropped"
    /\ IF holds[r.db] = Gone THEN Step(r, "ready", {}) ELSE Step(r, "failed", holds[r.db])
    /\ UNCHANGED disturbed

(* a file that cannot be stored, a statement that fails, a client that has *)
(* gone away                                                               *)
StopRestore(r) ==
    /\ r.at \in {"sent", "checked", "dropped"}
    /\ Step(r, "failed", holds[r.db]) /\ UNCHANGED disturbed

(* pg_restore needs the database.  It goes on after an error, so that what *)
(* it could not do does not stop the rest; with errors the restore counts  *)
(* as failed, with nothing but warnings as done, whatever else is there.   *)
RunRestore(r) ==
    /\ r.at = "ready"
    /\ \E at \in {"ok", "failed"}, left \in {{}, {r.file} \cap ValidFiles} :
          /\ at = "ok" => holds[r.db] # Gone /\ left = {r.file} /\ r.file \notin holds[r.db]
          /\ Step(r, at, IF holds[r.db] = Gone THEN Gone ELSE holds[r.db] \cup left)
    /\ UNCHANGED disturbed

RestoreOk(r) ==
    /\ r.at = "ok"
    /\ restores' = restores \ {r}
    /\ restore' = IF r.live THEN [restore EXCEPT !.message = "success", !.about = r.file]
                            ELSE restore
    /\ UNCHANGED <<RestoreIdle, inspections, bkIssued, setBack>>

(* the handler failed somewhere, or its answer is lost *)
RestoreFails(r) ==
    /\ r.at \in {"ok", "failed"}
    /\ restores' = restores \ {r}
    /\ restore' = IF r.live THEN [restore EXCEPT !.message = "error", !.about = r.file]
                            ELSE restore
    /\ UNCHANGED <<RestoreIdle, inspections, bkIssued, setBack>>

(* The connection breaks: the tab says so, and the handler goes on *)
GiveUpRestore(r) ==
    /\ r.live /\ r.at \notin {"ok", "failed"}
    /\ restores' = (restores \ {r}) \cup {[r EXCEPT !.live = FALSE]}
    /\ restore' = [restore EXCEPT !.message = "error", !.about = r.file]
    /\ UNCHANGED <<RestoreIdle, inspections, bkIssued, setBack>>

---------------------------------------------------------------------------
(* The tab is taken down and chosen again. *)

LeaveBackups ==
    /\ bkMounted /\ bkMounted' = FALSE
    /\ picked' = {} /\ ofDb' = NoName /\ movedSince' = FALSE
    /\ restore' = EmptyRestore /\ setBack' = FALSE
    /\ loops' = {[l EXCEPT !.live = FALSE] : l \in loops}
    /\ inspections' = {[i EXCEPT !.live = FALSE] : i \in inspections}
    /\ restores' = {[r EXCEPT !.live = FALSE] : r \in restores}
    /\ UNCHANGED <<bkPlan, holds, listedDbs, listedTables, bkVisits, bkOthers, downloads, bkIssued,
                   disturbed>>

EnterBackups ==
    /\ ~bkMounted /\ bkVisits < bkPlan.visits
    /\ bkMounted' = TRUE /\ bkVisits' = bkVisits + 1
    /\ UNCHANGED <<bkPlan, holds, listVars, bkOthers, tickVars, restoreVars, bkIssued, disturbed>>

BackupsInit ==
    /\ bkPlan \in BackupPlans
    /\ holds = bkPlan.holds
    /\ listedDbs = {} /\ listedTables = [d \in BackupDbs |-> {}]
    /\ bkMounted = FALSE /\ bkVisits = 0 /\ bkOthers = 0
    /\ picked = {} /\ ofDb = NoName /\ movedSince = FALSE
    /\ loops = {} /\ downloads = {}
    /\ restore = EmptyRestore /\ inspections = {} /\ restores = {}
    /\ bkIssued = 0 /\ setBack = FALSE /\ disturbed = {}

BackupsNext ==
    \/ EnterBackups \/ LeaveBackups \/ ListDbs \/ ListTables \/ OthersWork
    \/ \E x \in Offered : ToggleItem(x)
    \/ SelectAllItems \/ StartBackup
    \/ \E d \in BackupDbs : ChooseDb(d) \/ ChooseTarget(d)
    \/ \E l \in loops : FetchBackup(l) \/ FailBackup(l)
    \/ \E f \in Files : ChooseFile(f)
    \/ ResetFile \/ SwitchDrop \/ StartRestore
    \/ \E i \in inspections : InspectionOk(i) \/ InspectionFails(i)
    \/ \E r \in restores : \/ CheckTarget(r) \/ DropTarget(r) \/ CreateTarget(r) \/ RunRestore(r)
                           \/ StopRestore(r) \/ RestoreOk(r) \/ RestoreFails(r) \/ GiveUpRestore(r)

BackupsSpec == BackupsInit /\ [][BackupsNext]_bkVars

---------------------------------------------------------------------------
(* What is ticked is on the list, so the tables of a database shown before *)
(* do not get into the file, and the tick at "Select all" says that all of *)
(* the list is selected, though only numbers are compared; if the list has *)
(* not changed under the selection                                         *)
TicksOfList ==
    bkMounted /\ ~movedSince =>
        /\ picked \subseteq Offered
        /\ (Offered # {} /\ AllTicked) => Offered \subseteq picked

(* The inspection that is shown, the target it filled in and the message   *)
(* are about the file that is shown, if the form was not reset while an    *)
(* answer was awaited                                                      *)
FormOfFile ==
    ~setBack => /\ restore.result \in {restore.file, NoName}
                /\ restore.filled \in {restore.file, NoName}
                /\ restore.about \in {restore.file, NoName}

(* A dump's tables of the schema public are the only ones of it in their   *)
(* database, through refused, failed, broken off and repeated restores.    *)
(* Excepted are databases where a check failed on tables that were there,  *)
(* where another restore was started before the first one had ended, also  *)
(* one given up by the tab, and where somebody made a table beside a       *)
(* restore or its dump; until a restore of its own drops them first.       *)
(* Tables of other schemas are not looked at: they may be mixed.           *)
RestoredApart ==
    \A d \in BackupDbs \ disturbed :
        \A f \in PublicThings(d) \cap Files : PublicThings(d) = {f}
=============================================================================
