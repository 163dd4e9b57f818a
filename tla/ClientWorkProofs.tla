---------------------------- MODULE ClientWorkProofs ----------------------------
(***************************************************************************)
(* Theorems about the pages a user works on: the backups, the audit log,   *)
(* one database and one of its tables, for every value of their constants, *)
(* and about ClientWork, which is made of them.                            *)
(*                                                                         *)
(* Each page has a type invariant of its own, stronger than the one TLC    *)
(* checks: what is cached has the type of what the server answers, what is *)
(* on its way has the fields its kind needs, and the lists are finite.     *)
(***************************************************************************)
EXTENDS ClientWork, QueryCacheProofs, FiniteSetTheorems, SequenceTheorems,
        FunctionTheorems

-----------------------------------------------------------------------------
(* Backups: types.  What is ticked belongs to the tab that is open, and    *)
(* what is ticked among tables belongs to a database.                      *)

BackupListTypes ==
    /\ bkPlan \in BackupPlans
    /\ holds \in [BackupDbs -> (SUBSET Things) \cup {Gone}]
    /\ listedDbs \subseteq BackupDbs
    /\ listedTables \in [BackupDbs -> SUBSET TableRows]
    /\ bkMounted \in BOOLEAN /\ bkVisits \in 0..bkPlan.visits /\ bkOthers \in 0..bkPlan.others

DownloadRecords == {[db |-> d, names |-> N] : d \in BackupDbs, N \in SUBSET NamesOf(TableRows)}

PickTypes ==
    /\ movedSince \in BOOLEAN
    /\ ofDb \in BackupDbs \cup {NoName}
    /\ IF bkPlan.tab = "database" THEN picked \subseteq BackupDbs
       ELSE picked \subseteq NamesOf(TableRows) /\ (picked # {} => ofDb \in BackupDbs)
    /\ loops \subseteq Loops
    /\ downloads \subseteq DownloadRecords

RestoreTypes ==
    /\ restore \in RestoreForms
    /\ inspections \subseteq Inspections
    /\ restores \subseteq Restores
    /\ bkIssued \in 0..bkPlan.ops
    /\ setBack \in BOOLEAN /\ disturbed \subseteq BackupDbs

BackupsTypes == BackupListTypes /\ PickTypes /\ RestoreTypes

LEMMA BackupsTypesSuffice == BackupsTypes => BackupsTypeOK
  BY DEF BackupsTypes, BackupListTypes, PickTypes, RestoreTypes, DownloadRecords, BackupsTypeOK

LEMMA BackupPlanFacts ==
    ASSUME bkPlan \in BackupPlans
    PROVE  /\ bkPlan.tab \in {"database", "tables", "restore"}
           /\ bkPlan.holds \in [BackupDbs -> (SUBSET TableRows) \cup {Gone}]
           /\ bkPlan.ops \in Nat /\ bkPlan.others \in Nat /\ bkPlan.visits \in Nat
  BY BackupPlansAssumption

LEMMA BackupPlanKept ==
    ASSUME [BackupsNext]_bkVars
    PROVE  bkPlan' = bkPlan
  BY DEF BackupsNext, bkVars, bkVisitVars, RestoreIdle, EnterBackups, LeaveBackups, ListDbs,
         ListTables, OthersWork, ToggleItem, SelectAllItems, Tick, StartBackup, ChooseDb,
         ChooseTarget, FetchBackup, FailBackup, ChooseFile, ResetFile, SwitchDrop,
         StartRestore, InspectionOk, InspectionFails, CheckTarget, DropTarget, CreateTarget,
         StopRestore, RunRestore, Step, RestoreOk, RestoreFails, GiveUpRestore

LEMMA NamesOfTables ==
    ASSUME NEW T \in SUBSET TableRows
    PROVE  NamesOf(T) \subseteq NamesOf(TableRows)
  BY DEF NamesOf

LEMMA OfferedTyped ==
    ASSUME BackupListTypes, PickTypes
    PROVE  IF bkPlan.tab = "database" THEN Offered \subseteq BackupDbs
           ELSE Offered \subseteq NamesOf(TableRows) /\ (Offered # {} => ofDb \in BackupDbs)
  <1>1. CASE bkPlan.tab = "database"
    BY <1>1 DEF Offered, BackupListTypes
  <1>2. CASE bkPlan.tab # "database" /\ ofDb = NoName
    BY <1>2 DEF Offered
  <1>3. CASE bkPlan.tab # "database" /\ ofDb # NoName
    <2>1. ofDb \in BackupDbs /\ listedTables[ofDb] \in SUBSET TableRows
      BY <1>3 DEF BackupListTypes, PickTypes
    <2>2. Offered = NamesOf(listedTables[ofDb])
      BY <1>3 DEF Offered
    <2> QED  BY <1>3, <2>1, <2>2, NamesOfTables
  <1> QED  BY <1>1, <1>2, <1>3

\* What the statements of a restore leave in a database.
LEMMA StepTyped ==
    ASSUME BackupsTypes, NEW r \in restores,
           NEW at \in {"checked", "dropped", "ready", "ok", "failed"},
           NEW h \in (SUBSET Things) \cup {Gone}, Step(r, at, h)
    PROVE  holds' \in [BackupDbs -> (SUBSET Things) \cup {Gone}] /\ restores' \subseteq Restores
  <1>1. r \in Restores /\ holds \in [BackupDbs -> (SUBSET Things) \cup {Gone}]
        /\ restores \subseteq Restores
    BY DEF BackupsTypes, BackupListTypes, RestoreTypes
  <1>2. [r EXCEPT !.at = at] \in Restores
    BY <1>1 DEF Restores
  <1>3. /\ restores' = (restores \ {r}) \cup {[r EXCEPT !.at = at]}
        /\ holds' = [holds EXCEPT ![r.db] = h]
    BY DEF Step
  <1>4. restores' \subseteq Restores
    BY <1>1, <1>2, <1>3
  <1>5. holds' \in [BackupDbs -> (SUBSET Things) \cup {Gone}]
    BY <1>1, <1>3
  <1> QED  BY <1>4, <1>5

ServerSteps(r) ==
    CheckTarget(r) \/ DropTarget(r) \/ CreateTarget(r) \/ StopRestore(r) \/ RunRestore(r)

LEMMA ServerStepIsStep ==
    ASSUME BackupsTypes, NEW r \in restores, ServerSteps(r)
    PROVE  /\ \E at \in {"checked", "dropped", "ready", "ok", "failed"},
                 h \in (SUBSET Things) \cup {Gone} : Step(r, at, h)
           /\ disturbed' \subseteq BackupDbs
  <1>1. /\ r \in Restores /\ holds[r.db] \in (SUBSET Things) \cup {Gone}
        /\ disturbed \subseteq BackupDbs /\ r.file \in Files /\ r.db \in BackupDbs
    BY DEF BackupsTypes, BackupListTypes, RestoreTypes, Restores
  <1>2. CASE CheckTarget(r)
    BY <1>1, <1>2 DEF CheckTarget
  <1>3. CASE DropTarget(r)
    BY <1>1, <1>3 DEF DropTarget
  <1>4. CASE CreateTarget(r)
    BY <1>1, <1>4 DEF CreateTarget
  <1>5. CASE RunRestore(r)
    <2>1. PICK at \in {"ok", "failed"}, left \in {{}, {r.file} \cap ValidFiles} :
            Step(r, at, IF holds[r.db] = Gone THEN Gone ELSE holds[r.db] \cup left)
      BY <1>5 DEF RunRestore
    <2>2. (IF holds[r.db] = Gone THEN Gone ELSE holds[r.db] \cup left)
            \in (SUBSET Things) \cup {Gone}
      BY <1>1 DEF Things
    <2> QED  BY <1>1, <1>5, <2>1, <2>2 DEF RunRestore
  <1>6. CASE StopRestore(r)
    BY <1>1, <1>6 DEF StopRestore
  <1> QED  BY <1>2, <1>3, <1>4, <1>5, <1>6 DEF ServerSteps

LEMMA BackupListTypesStep ==
    ASSUME BackupsTypes, [BackupsNext]_bkVars
    PROVE  BackupListTypes'
  <1>0. /\ BackupListTypes /\ bkPlan' = bkPlan /\ bkPlan.visits \in Nat /\ bkPlan.others \in Nat
    BY BackupPlanKept, BackupPlanFacts DEF BackupsTypes, BackupListTypes
  <1>1. CASE UNCHANGED <<holds, listedDbs, listedTables, bkMounted, bkVisits, bkOthers>>
    BY <1>0, <1>1 DEF BackupListTypes, Things
  <1>2. CASE EnterBackups \/ LeaveBackups
    <2>1. UNCHANGED <<holds, listedDbs, listedTables, bkOthers>>
      BY <1>2 DEF EnterBackups, LeaveBackups, listVars
    <2>2. bkMounted' = TRUE \/ bkMounted' = FALSE
      BY <1>2 DEF EnterBackups, LeaveBackups
    <2>3. bkVisits \in 0..bkPlan.visits
      BY <1>0 DEF BackupListTypes
    <2>4. bkVisits' \in 0..bkPlan.visits
      BY <1>0, <1>2, <2>3 DEF EnterBackups, LeaveBackups
    <2> QED  BY <1>0, <2>1, <2>2, <2>4 DEF BackupListTypes, Things
  <1>3. CASE ListDbs
    BY <1>0, <1>3 DEF BackupListTypes, ListDbs, Existing, bkVisitVars, Things
  <1>4. CASE ListTables
    <2>1. ofDb \in BackupDbs /\ TablesOf(ofDb) \in SUBSET TableRows
      BY <1>4 DEF ListTables, BackupsTypes, PickTypes, TablesOf
    <2> QED  BY <1>0, <1>4, <2>1 DEF BackupListTypes, ListTables, bkVisitVars, Things
  <1>5. CASE OthersWork
    <2>1. holds' \in [BackupDbs -> (SUBSET Things) \cup {Gone}]
      BY <1>0, <1>5 DEF BackupListTypes, OthersWork, Things
    <2> QED  BY <1>0, <1>5, <2>1 DEF BackupListTypes, OthersWork, bkVisitVars, listVars, Things
  <1>6. ASSUME NEW r \in restores, ServerSteps(r)
        PROVE  BackupListTypes'
    <2>1. PICK at \in {"checked", "dropped", "ready", "ok", "failed"},
               h \in (SUBSET Things) \cup {Gone} : Step(r, at, h)
      BY <1>6, ServerStepIsStep
    <2>2. holds' \in [BackupDbs -> (SUBSET Things) \cup {Gone}]
      BY <2>1, StepTyped
    <2> QED  BY <1>0, <2>1, <2>2 DEF BackupListTypes, Step, bkVisitVars, listVars, Things
  <1>7. \/ UNCHANGED <<holds, listedDbs, listedTables, bkMounted, bkVisits, bkOthers>>
        \/ EnterBackups \/ LeaveBackups \/ ListDbs \/ ListTables \/ OthersWork
        \/ \E r \in restores : ServerSteps(r)
    BY DEF BackupsNext, ServerSteps, bkVars, bkVisitVars, listVars, RestoreIdle, ToggleItem,
           SelectAllItems, Tick, StartBackup, ChooseDb, ChooseTarget, FetchBackup, FailBackup,
           ChooseFile, ResetFile, SwitchDrop, StartRestore, InspectionOk, InspectionFails,
           RestoreOk, RestoreFails, GiveUpRestore
  <1> QED  BY <1>1, <1>2, <1>3, <1>4, <1>5, <1>6, <1>7

LEMMA PickTypesStep ==
    ASSUME BackupsTypes, [BackupsNext]_bkVars
    PROVE  PickTypes'
  <1>0. /\ BackupListTypes /\ PickTypes /\ bkPlan' = bkPlan
        /\ bkPlan.tab \in {"database", "tables", "restore"}
        /\ NoName \notin BackupDbs
    BY BackupPlanKept, BackupPlanFacts, NamesAssumption DEF BackupsTypes, BackupListTypes
  <1>1. CASE UNCHANGED <<tickVars, movedSince>>
    BY <1>0, <1>1 DEF PickTypes, tickVars
  <1>2. ASSUME NEW S, Tick(S), S \subseteq picked \cup Offered
        PROVE  PickTypes'
    <2>1. IF bkPlan.tab = "database" THEN S \subseteq BackupDbs
          ELSE S \subseteq NamesOf(TableRows) /\ (S # {} => ofDb \in BackupDbs)
      BY <1>0, <1>2, OfferedTyped DEF PickTypes
    <2>2. /\ picked' = S /\ movedSince' \in BOOLEAN
          /\ UNCHANGED <<ofDb, loops, downloads>>
      BY <1>0, <1>2 DEF Tick, PickTypes
    <2> QED  BY <1>0, <2>1, <2>2 DEF PickTypes
  <1>3. CASE (\E x \in Offered : ToggleItem(x)) \/ SelectAllItems
    <2>1. PICK S : Tick(S) /\ S \subseteq picked \cup Offered
      BY <1>3 DEF ToggleItem, SelectAllItems
    <2> QED  BY <1>2, <2>1
  <1>4. CASE ListDbs \/ ListTables
    <2>1. UNCHANGED <<picked, ofDb, loops, downloads>>
      BY <1>4 DEF ListDbs, ListTables, tickVars
    <2>2. (movedSince \/ picked # {}) \in BOOLEAN
      BY <1>0 DEF PickTypes
    <2>3. movedSince' \in BOOLEAN
      BY <1>4, <2>2 DEF ListDbs, ListTables
    <2> QED  BY <1>0, <2>1, <2>3 DEF PickTypes
  <1>5. CASE LeaveBackups
    <2>1. loops' \subseteq Loops
      BY <1>0, <1>5 DEF LeaveBackups, PickTypes, Loops
    <2>2. /\ picked' = {} /\ ofDb' = NoName /\ movedSince' = FALSE /\ UNCHANGED downloads
      BY <1>5 DEF LeaveBackups
    <2> QED  BY <1>0, <2>1, <2>2 DEF PickTypes
  <1>6. ASSUME NEW d \in BackupDbs, ChooseDb(d)
        PROVE  PickTypes'
    <2>1. picked' = {} /\ ofDb' = d /\ movedSince' = FALSE /\ UNCHANGED <<loops, downloads>>
      BY <1>6 DEF ChooseDb
    <2> QED  BY <1>0, <2>1 DEF PickTypes
  <1>7. CASE StartBackup
    <2> DEFINE new == IF bkPlan.tab = "database"
                      THEN [of |-> picked \cap BackupDbs, left |-> picked \cap BackupDbs,
                            names |-> {}, live |-> TRUE]
                      ELSE [of |-> {ofDb}, left |-> {ofDb}, names |-> picked, live |-> TRUE]
    <2>1. new \in Loops
      BY <1>0, <1>7 DEF StartBackup, PickTypes, Loops
    <2>2. /\ loops' = loops \cup {new} /\ UNCHANGED <<movedSince, ofDb, picked, downloads>>
      BY <1>7 DEF StartBackup, listVars
    <2> HIDE DEF new
    <2> QED  BY <1>0, <2>1, <2>2 DEF PickTypes
  <1>8. ASSUME NEW l \in loops, FetchBackup(l)
        PROVE  PickTypes'
    <2>1. PICK d \in l.left :
            /\ downloads' = downloads \cup {[db |-> d, names |-> l.names]}
            /\ loops' = (loops \ {l}) \cup
                        (IF l.left = {d} THEN {} ELSE {[l EXCEPT !.left = @ \ {d}]})
      BY <1>8 DEF FetchBackup
    <2>2. l \in Loops /\ d \in BackupDbs /\ l.names \in SUBSET NamesOf(TableRows)
      BY <1>0 DEF PickTypes, Loops
    <2>3. [l EXCEPT !.left = @ \ {d}] \in Loops
      BY <2>2 DEF Loops
    <2>4. loops' \subseteq Loops
      BY <1>0, <2>1, <2>3 DEF PickTypes
    <2>5. UNCHANGED <<movedSince, ofDb, picked>>
      BY <1>8 DEF FetchBackup, listVars
    <2>6. downloads' \subseteq DownloadRecords
      BY <1>0, <2>1, <2>2 DEF PickTypes, DownloadRecords
    <2> QED  BY <1>0, <2>4, <2>5, <2>6 DEF PickTypes
  <1>9. ASSUME NEW l \in loops, FailBackup(l)
        PROVE  PickTypes'
    BY <1>0, <1>9 DEF FailBackup, PickTypes, listVars
  <1>10. \/ UNCHANGED <<tickVars, movedSince>>
         \/ (\E x \in Offered : ToggleItem(x)) \/ SelectAllItems
         \/ ListDbs \/ ListTables \/ LeaveBackups \/ (\E d \in BackupDbs : ChooseDb(d))
         \/ StartBackup \/ \E l \in loops : FetchBackup(l) \/ FailBackup(l)
    BY ZenonT(60) DEF BackupsNext, bkVars, bkVisitVars, listVars, tickVars, RestoreIdle, OthersWork,
           EnterBackups, ChooseTarget, ChooseFile, ResetFile, SwitchDrop, StartRestore,
           InspectionOk, InspectionFails, RestoreOk, RestoreFails, GiveUpRestore, CheckTarget,
           DropTarget, CreateTarget, StopRestore, RunRestore, Step
  <1> QED  BY <1>1, <1>3, <1>4, <1>5, <1>6, <1>7, <1>8, <1>9, <1>10

LEMMA RestoreTypesStep ==
    ASSUME BackupsTypes, [BackupsNext]_bkVars
    PROVE  RestoreTypes'
  <1>0. /\ RestoreTypes /\ bkPlan' = bkPlan /\ bkPlan.ops \in Nat
    BY BackupPlanKept, BackupPlanFacts DEF BackupsTypes, BackupListTypes
  <1>1. CASE /\ UNCHANGED <<restoreVars>> /\ bkIssued' \in 0..bkPlan.ops
             /\ disturbed' \subseteq BackupDbs
    BY <1>0, <1>1 DEF RestoreTypes, restoreVars
  <1>2. CASE OthersWork \/ StartBackup
    <2>1. UNCHANGED restoreVars
      BY <1>2 DEF OthersWork, StartBackup
    <2>2. bkIssued \in 0..bkPlan.ops /\ disturbed \subseteq BackupDbs
      BY <1>0 DEF RestoreTypes
    <2>3. bkIssued' \in 0..bkPlan.ops
      BY <1>0, <1>2, <2>2 DEF OthersWork, StartBackup
    <2>4. disturbed' \subseteq BackupDbs
      BY <1>2, <2>2 DEF OthersWork, StartBackup
    <2> QED  BY <1>1, <2>1, <2>2, <2>3, <2>4
  <1>3. CASE LeaveBackups
    <2>1. EmptyRestore \in RestoreForms
      BY DEF EmptyRestore, RestoreForms
    <2>2. inspections' \subseteq Inspections
      BY <1>0, <1>3 DEF LeaveBackups, RestoreTypes, Inspections
    <2>3. restores' \subseteq Restores
      BY <1>0, <1>3 DEF LeaveBackups, RestoreTypes, Restores
    <2> QED  BY <1>0, <1>3, <2>1, <2>2, <2>3 DEF LeaveBackups, RestoreTypes
  <1>4. ASSUME NEW f \in Files, ChooseFile(f)
        PROVE  RestoreTypes'
    <2>1. restore' \in RestoreForms
      BY <1>0, <1>4 DEF ChooseFile, RestoreTypes, RestoreForms
    <2>2. bkIssued' \in 0..bkPlan.ops /\ bkIssued + 1 \in Nat
      BY <1>0, <1>4 DEF ChooseFile, RestoreTypes
    <2>3. inspections' \subseteq Inspections
      <3> DEFINE new == [file |-> f, id |-> bkIssued + 1, live |-> TRUE, last |-> TRUE,
                         saw |-> NoName]
                 old == {Superseded(i) : i \in inspections}
      <3>1. new \in Inspections
        BY <2>2 DEF Inspections
      <3>2. old \subseteq Inspections
        <4>1. restore.target \in BackupDbs \cup {NoName} /\ inspections \subseteq Inspections
          BY <1>0 DEF RestoreTypes, RestoreForms
        <4>2. \A i \in inspections : TargetSeen(i) \in BackupDbs \cup {NoName}
          BY <4>1 DEF Inspections, TargetSeen
        <4>3. \A i \in inspections : Superseded(i) \in Inspections
          BY <4>1, <4>2 DEF Inspections, Superseded
        <4> QED  BY <4>3
      <3>3. inspections' = old \cup {new}
        BY <1>4 DEF ChooseFile
      <3> HIDE DEF new, old
      <3> QED  BY <3>1, <3>2, <3>3
    <2> QED  BY <1>0, <1>4, <2>1, <2>2, <2>3 DEF ChooseFile, RestoreTypes, RestoreIdle
  <1>5. CASE ResetFile
    <2>1. EmptyRestore \in RestoreForms
      BY DEF EmptyRestore, RestoreForms
    <2>2. setBack' \in BOOLEAN
      BY <1>0, <1>5 DEF ResetFile, RestoreTypes
    <2> QED  BY <1>0, <1>5, <2>1, <2>2 DEF ResetFile, RestoreTypes, RestoreIdle
  <1>6. ASSUME restore' \in RestoreForms, inspections' \subseteq inspections,
               restores' \subseteq restores, UNCHANGED <<bkIssued, setBack, disturbed>>
        PROVE  RestoreTypes'
    BY <1>0, <1>6 DEF RestoreTypes
  <1>7. ASSUME NEW i \in inspections, InspectionOk(i)
        PROVE  RestoreTypes'
    <2>1. i.file \in ValidFiles /\ i.file \in Files /\ DumpOf[i.file] \in BackupDbs \cup {NoName}
      BY <1>7, ValidFilesAssumption, DumpOfAssumption DEF InspectionOk
    <2>2. restore' \in RestoreForms
      BY <1>0, <1>7, <2>1 DEF InspectionOk, RestoreTypes, RestoreForms
    <2> QED  BY <1>6, <1>7, <2>2 DEF InspectionOk, RestoreIdle
  <1>8. ASSUME NEW i \in inspections, InspectionFails(i)
        PROVE  RestoreTypes'
    <2>1. i.file \in Files
      BY <1>0 DEF RestoreTypes, Inspections
    <2>2. restore' \in RestoreForms
      BY <1>0, <1>8, <2>1 DEF InspectionFails, RestoreTypes, RestoreForms
    <2> QED  BY <1>6, <1>8, <2>2 DEF InspectionFails, RestoreIdle
  <1>9. CASE SwitchDrop \/ \E d \in BackupDbs : ChooseTarget(d)
    <2>1. restore' \in RestoreForms
      BY <1>0, <1>9 DEF SwitchDrop, ChooseTarget, RestoreTypes, RestoreForms
    <2> QED  BY <1>6, <1>9, <2>1 DEF SwitchDrop, ChooseTarget, RestoreIdle
  <1>10. CASE StartRestore
    <2> DEFINE new == [file |-> restore.file, db |-> restore.target, drop |-> restore.drop,
                       id |-> bkIssued + 1, live |-> TRUE, at |-> "sent"]
    <2>1. bkIssued' \in 0..bkPlan.ops /\ bkIssued + 1 \in Nat
      BY <1>0, <1>10 DEF StartRestore, RestoreTypes
    <2>2. new \in Restores
      BY <1>0, <1>10, <2>1 DEF StartRestore, RestoreTypes, RestoreForms, Restores
    <2>3. disturbed' \subseteq BackupDbs
      BY <1>0, <1>10 DEF StartRestore, RestoreTypes, RestoreForms
    <2>4. restores' = restores \cup {new} /\ UNCHANGED <<restore, inspections, setBack>>
      BY <1>10 DEF StartRestore
    <2> HIDE DEF new
    <2> QED  BY <1>0, <2>1, <2>2, <2>3, <2>4 DEF RestoreTypes
  <1>11. ASSUME NEW r \in restores, ServerSteps(r)
         PROVE  RestoreTypes'
    <2>1. PICK at \in {"checked", "dropped", "ready", "ok", "failed"},
               h \in (SUBSET Things) \cup {Gone} : Step(r, at, h)
      BY <1>11, ServerStepIsStep
    <2>2. restores' \subseteq Restores
      BY <2>1, StepTyped
    <2>3. disturbed' \subseteq BackupDbs
      BY <1>11, ServerStepIsStep
    <2> QED  BY <1>0, <2>1, <2>2, <2>3 DEF RestoreTypes, Step
  <1>12. ASSUME NEW r \in restores, RestoreOk(r) \/ RestoreFails(r)
         PROVE  RestoreTypes'
    <2>1. r.file \in Files
      BY <1>0 DEF RestoreTypes, Restores
    <2>2. restore' \in RestoreForms
      BY <1>0, <1>12, <2>1, ZenonT(60) DEF RestoreOk, RestoreFails, RestoreTypes, RestoreForms
    <2> QED  BY <1>6, <1>12, <2>2 DEF RestoreOk, RestoreFails, RestoreIdle
  <1>14. ASSUME NEW r \in restores, GiveUpRestore(r)
         PROVE  RestoreTypes'
    <2>1. r.file \in Files /\ [r EXCEPT !.live = FALSE] \in Restores
      BY <1>0 DEF RestoreTypes, Restores
    <2>2. restore' \in RestoreForms
      BY <1>0, <1>14, <2>1 DEF GiveUpRestore, RestoreTypes, RestoreForms
    <2>3. restores' \subseteq Restores
      BY <1>0, <1>14, <2>1 DEF GiveUpRestore, RestoreTypes
    <2> QED  BY <1>0, <1>14, <2>2, <2>3 DEF GiveUpRestore, RestoreIdle, RestoreTypes
  <1>13. \/ UNCHANGED <<restoreVars, bkIssued, disturbed>>
         \/ OthersWork \/ StartBackup \/ LeaveBackups \/ (\E f \in Files : ChooseFile(f))
         \/ ResetFile \/ SwitchDrop \/ StartRestore \/ (\E d \in BackupDbs : ChooseTarget(d))
         \/ (\E i \in inspections : InspectionOk(i) \/ InspectionFails(i))
         \/ \E r \in restores :
               ServerSteps(r) \/ RestoreOk(r) \/ RestoreFails(r) \/ GiveUpRestore(r)
    BY DEF BackupsNext, ServerSteps, bkVars, restoreVars, EnterBackups, ListDbs, ListTables,
           ToggleItem, SelectAllItems, Tick, ChooseDb, FetchBackup, FailBackup
  <1> QED
    BY <1>0, <1>1, <1>2, <1>3, <1>4, <1>5, <1>7, <1>8, <1>9, <1>10, <1>11, <1>12, <1>13, <1>14
    DEF RestoreTypes

LEMMA BackupsTypesInit == BackupsInit => BackupsTypes
  <1> SUFFICES ASSUME BackupsInit PROVE BackupsTypes
    OBVIOUS
  <1>1. BackupListTypes
    <2>1. /\ bkPlan \in BackupPlans /\ holds = bkPlan.holds /\ listedDbs = {}
          /\ listedTables = [d \in BackupDbs |-> {}]
          /\ bkMounted = FALSE /\ bkVisits = 0 /\ bkOthers = 0
      BY DEF BackupsInit
    <2>2. holds \in [BackupDbs -> (SUBSET Things) \cup {Gone}]
      BY <2>1, BackupPlanFacts DEF Things
    <2>3. 0 \in 0..bkPlan.visits /\ 0 \in 0..bkPlan.others
      BY <2>1, BackupPlanFacts
    <2> QED  BY <2>1, <2>2, <2>3 DEF BackupListTypes
  <1>2. PickTypes
    <2>1. /\ picked = {} /\ ofDb = NoName /\ movedSince = FALSE /\ loops = {} /\ downloads = {}
      BY DEF BackupsInit
    <2> QED  BY <2>1 DEF PickTypes
  <1>3. RestoreTypes
    <2>1. /\ restore = EmptyRestore /\ inspections = {} /\ restores = {} /\ bkIssued = 0
          /\ setBack = FALSE /\ disturbed = {} /\ bkPlan.ops \in Nat
      BY BackupPlanFacts DEF BackupsInit
    <2>2. EmptyRestore \in RestoreForms
      BY DEF EmptyRestore, RestoreForms
    <2>3. 0 \in 0..bkPlan.ops
      BY <2>1
    <2> QED  BY <2>1, <2>2, <2>3 DEF RestoreTypes
  <1> QED  BY <1>1, <1>2, <1>3 DEF BackupsTypes

LEMMA BackupsTypesStep ==
    ASSUME BackupsTypes, [BackupsNext]_bkVars
    PROVE  BackupsTypes'
  BY BackupListTypesStep, PickTypesStep, RestoreTypesStep DEF BackupsTypes

\* Whatever is ticked, fetched, inspected and restored has its type.
THEOREM BackupsTypeCorrect == BackupsSpec => []BackupsTypeOK
  BY BackupsTypesInit, BackupsTypesStep, BackupsTypesSuffice, PTL DEF BackupsSpec

-----------------------------------------------------------------------------
(* What is ticked is on the list that is shown, unless the list changed    *)
(* since.                                                                  *)

TicksInv == ~movedSince => picked \subseteq Offered

LEMMA TicksStep ==
    ASSUME BackupsTypes, TicksInv, [BackupsNext]_bkVars
    PROVE  TicksInv'
  <1>0. bkPlan' = bkPlan /\ movedSince \in BOOLEAN
    BY BackupPlanKept DEF BackupsTypes, PickTypes
  <1>1. CASE UNCHANGED <<picked, ofDb, listVars>>
    BY <1>0, <1>1 DEF TicksInv, Offered, listVars, NamesOf
  <1>2. ASSUME NEW S, Tick(S), S \subseteq picked \cup Offered, S \subseteq Offered \/ movedSince
        PROVE  TicksInv'
    <2>1. picked' = S /\ (movedSince' <=> movedSince /\ S # {})
      BY <1>2 DEF Tick
    <2>2. Offered' = Offered
      BY <1>0, <1>2 DEF Tick, Offered, NamesOf
    <2> QED  BY <1>0, <1>2, <2>1, <2>2 DEF TicksInv
  <1>3. CASE (\E x \in Offered : ToggleItem(x)) \/ SelectAllItems
    <2>1. PICK S : Tick(S) /\ S \subseteq picked \cup Offered
      BY <1>3 DEF ToggleItem, SelectAllItems
    <2> QED  BY <1>0, <1>2, <2>1 DEF TicksInv
  <1>4. CASE ListDbs \/ ListTables
    <2>1. (movedSince' <=> movedSince \/ picked # {}) /\ picked' = picked
      BY <1>4 DEF ListDbs, ListTables, tickVars
    <2> QED  BY <2>1 DEF TicksInv
  <1>5. CASE LeaveBackups \/ \E d \in BackupDbs : ChooseDb(d)
    <2>1. picked' = {}
      BY <1>5 DEF LeaveBackups, ChooseDb
    <2> QED  BY <2>1 DEF TicksInv
  <1>6. \/ UNCHANGED <<picked, ofDb, listVars>>
        \/ (\E x \in Offered : ToggleItem(x)) \/ SelectAllItems
        \/ ListDbs \/ ListTables \/ LeaveBackups \/ (\E d \in BackupDbs : ChooseDb(d))
    BY ZenonT(60) DEF BackupsNext, bkVars, bkVisitVars, listVars, tickVars, RestoreIdle, OthersWork,
           EnterBackups, ChooseTarget, ChooseFile, ResetFile, SwitchDrop, StartRestore,
           StartBackup, FetchBackup, FailBackup, InspectionOk, InspectionFails, RestoreOk,
           RestoreFails, GiveUpRestore, CheckTarget, DropTarget, CreateTarget, StopRestore,
           RunRestore, Step
  <1> QED  BY <1>1, <1>3, <1>4, <1>5, <1>6

\* There are at most as many names as tables.
LEMMA NamesCounted ==
    ASSUME NEW T \in SUBSET TableRows
    PROVE  IsFiniteSet(T) /\ IsFiniteSet(NamesOf(T)) /\ Cardinality(NamesOf(T)) <= Cardinality(T)
  <1>1. IsFiniteSet(T)
    BY NamesAssumption, FS_Subset
  <1> DEFINE f == [t \in T |-> t[2]]
  <1>2. f \in Surjection(T, NamesOf(T))
    BY DEF Surjection, NamesOf
  <1> QED  BY <1>1, <1>2, FS_Surjection

\* As many ticks as entries are ticks at all of them.
LEMMA AllTickedMeansAll ==
    ASSUME BackupsTypes, picked \subseteq Offered, AllTicked, Offered # {}
    PROVE  Offered \subseteq picked
  <1>1. IsFiniteSet(Offered) /\ Cardinality(Offered) <= Entered /\ Entered \in Nat
    <2>1. CASE bkPlan.tab = "database"
      <3>1. IsFiniteSet(listedDbs)
        BY NamesAssumption, FS_Subset DEF BackupsTypes, BackupListTypes
      <3>2. Cardinality(listedDbs) \in Nat
        BY <3>1, FS_CardinalityType
      <3> QED  BY <2>1, <3>1, <3>2 DEF Offered, Entered
    <2>2. CASE bkPlan.tab # "database"
      <3>1. ofDb # NoName /\ Offered = NamesOf(listedTables[ofDb])
        BY <2>2 DEF Offered
      <3>2. listedTables[ofDb] \in SUBSET TableRows
        BY <3>1 DEF BackupsTypes, BackupListTypes, PickTypes
      <3>3. Entered = Cardinality(listedTables[ofDb])
        BY <2>2, <3>1 DEF Entered
      <3>4. Entered \in Nat
        BY <3>2, <3>3, NamesCounted, FS_CardinalityType
      <3> QED  BY <3>1, <3>2, <3>3, <3>4, NamesCounted
    <2> QED  BY <2>1, <2>2
  <1>2. Cardinality(picked) <= Cardinality(Offered) /\ Cardinality(Offered) \in Nat
    BY <1>1, FS_Subset, FS_CardinalityType
  <1>3. Cardinality(picked) = Cardinality(Offered)
    BY <1>1, <1>2 DEF AllTicked
  <1> QED  BY <1>1, <1>3, FS_Subset

\* The ticks are at entries of the list, and the tick at "Select all" means
\* all of them though only numbers are compared, also where two schemas have
\* a table of one name; if the list did not change after something was ticked.
THEOREM TicksKept == BackupsSpec => []TicksOfList
  <1> DEFINE IInv == BackupsTypes /\ TicksInv
  <1>1. BackupsInit => IInv
    BY BackupsTypesInit DEF BackupsInit, TicksInv
  <1>2. IInv /\ [BackupsNext]_bkVars => IInv'
    BY BackupsTypesStep, TicksStep
  <1>3. IInv => TicksOfList
    BY AllTickedMeansAll DEF TicksInv, TicksOfList
  <1> QED  BY <1>1, <1>2, <1>3, PTL DEF BackupsSpec

-----------------------------------------------------------------------------
(* Whatever is still awaited in the tab is about the file that is shown.   *)

FormInv ==
    ~setBack => /\ restore.result \in {restore.file, NoName}
                /\ restore.filled \in {restore.file, NoName}
                /\ restore.about \in {restore.file, NoName}
                /\ \A i \in inspections : i.live => i.file = restore.file
                /\ \A r \in restores : r.live => r.file = restore.file

LEMMA FormStep ==
    ASSUME BackupsTypes, FormInv, [BackupsNext]_bkVars
    PROVE  FormInv'
  <1>0. /\ restore \in RestoreForms /\ setBack \in BOOLEAN
        /\ restores \subseteq Restores /\ inspections \subseteq Inspections
    BY DEF BackupsTypes, RestoreTypes
  <1>1. CASE UNCHANGED restoreVars
    BY <1>1 DEF FormInv, restoreVars
  <1>2. CASE LeaveBackups
    <2>1. /\ \A i \in inspections' : ~i.live
          /\ \A r \in restores' : ~r.live
      <3>1. /\ \A i \in inspections : [i EXCEPT !.live = FALSE].live = FALSE
            /\ \A r \in restores : [r EXCEPT !.live = FALSE].live = FALSE
        BY <1>0 DEF Inspections, Restores
      <3> QED  BY <1>2, <3>1 DEF LeaveBackups
    <2>2. restore' = EmptyRestore
      BY <1>2 DEF LeaveBackups
    <2> QED  BY <2>1, <2>2 DEF FormInv, EmptyRestore
  <1>3. ASSUME NEW f \in Files, ChooseFile(f)
        PROVE  FormInv'
    <2>1. SUFFICES ASSUME ~setBack
                   PROVE  FormInv'
      BY <1>3 DEF ChooseFile, FormInv
    <2>2. /\ \A i \in inspections : ~i.live
          /\ \A r \in restores : ~r.live
      BY <1>0, <1>3, <2>1, NamesAssumption DEF ChooseFile, FormInv, Inspections, Restores
    <2>3. /\ restore'.file = f /\ restore'.result = NoName /\ restore'.about = NoName
          /\ restore'.filled = NoName
      BY <1>0, <1>3, <2>1 DEF ChooseFile, FormInv, RestoreForms
    <2>4. \A i \in inspections' : i.live => i.file = f
      <3>1. \A i \in inspections : Superseded(i).live = i.live
        BY <1>0 DEF Inspections, Superseded
      <3> QED  BY <1>3, <2>2, <3>1 DEF ChooseFile
    <2>5. restores' = restores
      BY <1>3 DEF ChooseFile
    <2> QED  BY <2>2, <2>3, <2>4, <2>5 DEF FormInv
  <1>4. CASE ResetFile
    <2>1. SUFFICES ASSUME ~setBack'
                   PROVE  FormInv'
      BY DEF FormInv
    <2>2. /\ \A i \in inspections : ~i.live
          /\ \A r \in restores : ~r.live
      BY <1>4, <2>1 DEF ResetFile
    <2>3. restore' = EmptyRestore /\ UNCHANGED <<inspections, restores>>
      BY <1>4 DEF ResetFile
    <2> QED  BY <2>2, <2>3 DEF FormInv, EmptyRestore
  <1>5. ASSUME NEW i \in inspections, InspectionOk(i) \/ InspectionFails(i)
        PROVE  FormInv'
    <2>1. /\ inspections' = inspections \ {i} /\ UNCHANGED <<restores, setBack>>
      BY <1>5 DEF InspectionOk, InspectionFails
    <2>2. CASE ~i.live
      <3>1. restore' = restore
        BY <1>5, <2>2 DEF InspectionOk, InspectionFails
      <3> QED  BY <2>1, <3>1 DEF FormInv
    <2>3. CASE i.live
      <3>1. restore'.file = restore.file
        BY <1>0, <1>5 DEF InspectionOk, InspectionFails, RestoreForms
      <3>2. /\ restore'.result \in {i.file, NoName}
            /\ restore'.filled \in {i.file, restore.filled}
            /\ restore'.about \in {i.file, NoName}
        BY <1>0, <1>5, <2>3, ZenonT(60) DEF InspectionOk, InspectionFails, RestoreForms
      <3> QED  BY <2>1, <2>3, <3>1, <3>2 DEF FormInv
    <2> QED  BY <1>0, <2>2, <2>3
  <1>6. ASSUME NEW r \in restores, RestoreOk(r) \/ RestoreFails(r)
        PROVE  FormInv'
    <2>1. /\ restores' = restores \ {r} /\ UNCHANGED <<inspections, setBack>>
      BY <1>6 DEF RestoreOk, RestoreFails
    <2>2. /\ restore'.file = restore.file /\ restore'.result = restore.result
          /\ restore'.filled = restore.filled
          /\ restore'.about \in {restore.about, IF r.live THEN r.file ELSE restore.about}
      BY <1>0, <1>6 DEF RestoreOk, RestoreFails, RestoreForms
    <2> QED  BY <2>1, <2>2 DEF FormInv
  <1>7. CASE SwitchDrop \/ \E d \in BackupDbs : ChooseTarget(d)
    <2>1. UNCHANGED <<inspections, restores, setBack>>
      BY <1>7 DEF SwitchDrop, ChooseTarget
    <2>2. /\ restore'.file = restore.file /\ restore'.result = restore.result
          /\ restore'.filled \in {restore.filled, NoName} /\ restore'.about = restore.about
      BY <1>0, <1>7 DEF SwitchDrop, ChooseTarget, RestoreForms
    <2> QED  BY <2>1, <2>2 DEF FormInv
  <1>8. CASE StartRestore
    <2>1. /\ restores' = restores \cup
               {[file |-> restore.file, db |-> restore.target, drop |-> restore.drop,
                 id |-> bkIssued + 1, live |-> TRUE, at |-> "sent"]}
          /\ UNCHANGED <<restore, inspections, setBack>>
      BY <1>8 DEF StartRestore
    <2> QED  BY <2>1 DEF FormInv
  <1>9. ASSUME NEW r \in restores, ServerSteps(r)
        PROVE  FormInv'
    <2>1. PICK at \in {"checked", "dropped", "ready", "ok", "failed"},
               h \in (SUBSET Things) \cup {Gone} : Step(r, at, h)
      BY <1>9, ServerStepIsStep
    <2>2. [r EXCEPT !.at = at].live = r.live /\ [r EXCEPT !.at = at].file = r.file
      BY <1>0 DEF Restores
    <2> DEFINE s == [r EXCEPT !.at = at]
    <2>3. /\ restores' = (restores \ {r}) \cup {s}
          /\ UNCHANGED <<restore, inspections, setBack>>
      BY <2>1 DEF Step
    <2> HIDE DEF s
    <2>4. s.live = r.live /\ s.file = r.file
      BY <2>2 DEF s
    <2> QED  BY <2>3, <2>4 DEF FormInv
  <1>11. ASSUME NEW r \in restores, GiveUpRestore(r)
         PROVE  FormInv'
    <2>1. [r EXCEPT !.live = FALSE].live = FALSE
      BY <1>0 DEF Restores
    <2>2. /\ restores' = (restores \ {r}) \cup {[r EXCEPT !.live = FALSE]} /\ r.live
          /\ UNCHANGED <<inspections, setBack>>
      BY <1>11 DEF GiveUpRestore
    <2>3. /\ restore'.file = restore.file /\ restore'.result = restore.result
          /\ restore'.filled = restore.filled /\ restore'.about = r.file
      BY <1>0, <1>11 DEF GiveUpRestore, RestoreForms
    <2> QED  BY <2>1, <2>2, <2>3 DEF FormInv
  <1>10. \/ UNCHANGED restoreVars
         \/ LeaveBackups \/ (\E f \in Files : ChooseFile(f))
         \/ ResetFile \/ SwitchDrop \/ StartRestore \/ (\E d \in BackupDbs : ChooseTarget(d))
         \/ (\E i \in inspections : InspectionOk(i) \/ InspectionFails(i))
         \/ \E r \in restores :
               ServerSteps(r) \/ RestoreOk(r) \/ RestoreFails(r) \/ GiveUpRestore(r)
    BY DEF BackupsNext, ServerSteps, bkVars, restoreVars, EnterBackups, ListDbs, ListTables,
           ToggleItem, SelectAllItems, Tick, ChooseDb, FetchBackup, FailBackup, OthersWork,
           StartBackup
  <1> QED  BY <1>1, <1>2, <1>3, <1>4, <1>5, <1>6, <1>7, <1>8, <1>9, <1>10, <1>11

\* The inspection that is shown, the target it filled in and the message are
\* about the file that is shown, whatever answer arrives, unless the form
\* was reset while one was awaited.
THEOREM FormKept == BackupsSpec => []FormOfFile
  <1> DEFINE IInv == BackupsTypes /\ FormInv
  <1>1. BackupsInit => IInv
    <2>1. ASSUME BackupsInit
          PROVE  FormInv
      <3>1. restore = EmptyRestore /\ inspections = {} /\ restores = {}
        BY <2>1 DEF BackupsInit
      <3> QED  BY <3>1 DEF FormInv, EmptyRestore
    <2> QED  BY <2>1, BackupsTypesInit
  <1>2. IInv /\ [BackupsNext]_bkVars => IInv'
    BY BackupsTypesStep, FormStep
  <1>3. IInv => FormOfFile
    BY DEF FormInv, FormOfFile
  <1> QED  BY <1>1, <1>2, <1>3, PTL DEF BackupsSpec

-----------------------------------------------------------------------------
(* In a database that was left alone one restore is at work at a time, and *)
(* once its check is passed no table of the schema public is there.        *)

Apart(d) ==
    d \notin disturbed =>
        /\ \A r1, r2 \in AtWork(d) : r1 = r2
        /\ \A r \in AtWork(d) : r.at = "ready" => PublicThings(d) = {}
        /\ \A f \in PublicThings(d) \cap Files : PublicThings(d) = {f}

RestoreInv == \A d \in BackupDbs : Apart(d)

\* The statements of a restore.
LEMMA RestoreStepKept ==
    ASSUME BackupsTypes, RestoreInv, NEW r \in restores, ServerSteps(r)
    PROVE  RestoreInv'
  <1>0. /\ restores \subseteq Restores /\ r.db \in BackupDbs /\ r.file \in Files
        /\ holds \in [BackupDbs -> (SUBSET Things) \cup {Gone}]
    BY DEF BackupsTypes, BackupListTypes, RestoreTypes, Restores
  <1>1. r \in AtWork(r.db)
    BY DEF AtWork, ServerSteps, CheckTarget, DropTarget, CreateTarget, StopRestore, RunRestore
  <1>2. ASSUME NEW at, NEW h, Step(r, at, h),
               \A d \in BackupDbs \ {r.db} : d \in disturbed => d \in disturbed',
               r.db \notin disturbed' =>
                  /\ \A s \in AtWork(r.db) : s = r
                  /\ at = "ready" => PublicThings(r.db)' = {}
                  /\ \A f \in PublicThings(r.db)' \cap Files : PublicThings(r.db)' = {f}
        PROVE  RestoreInv'
    <2> DEFINE s == [r EXCEPT !.at = at]
    <2>1. s.at = at /\ s.db = r.db
      BY <1>0 DEF Restores
    <2>2. restores' = (restores \ {r}) \cup {s} /\ holds' = [holds EXCEPT ![r.db] = h]
      BY <1>2 DEF Step
    <2> HIDE DEF s
    <2>3. ASSUME NEW d \in BackupDbs \ {r.db}
          PROVE  Apart(d)'
      <3>1. PublicThings(d)' = PublicThings(d)
        BY <1>0, <2>2 DEF PublicThings
      <3>2. AtWork(d)' = AtWork(d)
        BY <2>1, <2>2, <2>3 DEF AtWork
      <3> QED  BY <1>2, <2>3, <3>1, <3>2 DEF RestoreInv, Apart
    <2>4. Apart(r.db)'
      <3>1. \A q \in AtWork(r.db)' : q = s \/ (q \in AtWork(r.db) /\ q # r)
        BY <2>2 DEF AtWork
      <3> QED  BY <1>2, <2>1, <3>1 DEF Apart
    <2> QED  BY <2>3, <2>4 DEF RestoreInv
  <1>3. r.db \notin disturbed => /\ \A s \in AtWork(r.db) : s = r
                                 /\ r.at = "ready" => PublicThings(r.db) = {}
                                 /\ \A f \in PublicThings(r.db) \cap Files : PublicThings(r.db) = {f}
    BY <1>0, <1>1 DEF RestoreInv, Apart
  <1>4. ASSUME holds'[r.db] \in {Gone, {}}
        PROVE  PublicThings(r.db)' = {}
    BY <1>4 DEF PublicThings
  <1>5. ASSUME holds' = holds
        PROVE  PublicThings(r.db)' = PublicThings(r.db)
    BY <1>5 DEF PublicThings
  <1>6. CASE CheckTarget(r)
    <2>1. PICK at : /\ Step(r, at, holds[r.db])
                    /\ disturbed' \in {disturbed, disturbed \cup {r.db}}
                    /\ r.db \notin disturbed' /\ at = "ready" => PublicThings(r.db) = {}
      BY <1>6 DEF CheckTarget
    <2>2. holds' = holds
      BY <1>0, <2>1 DEF Step
    <2>3. PublicThings(r.db)' = PublicThings(r.db)
      BY <1>5, <2>2
    <2> QED  BY <1>2, <1>3, <2>1, <2>3
  <1>7. CASE DropTarget(r)
    <2>1. /\ Step(r, "dropped", Gone)
          /\ disturbed' = IF AtWork(r.db) = {r} THEN disturbed \ {r.db} ELSE disturbed
      BY <1>7 DEF DropTarget
    <2>2. holds'[r.db] = Gone
      BY <1>0, <2>1 DEF Step
    <2>3. PublicThings(r.db)' = {}
      BY <1>4, <2>2
    <2>4. r.db \notin disturbed' => \A s \in AtWork(r.db) : s = r
      BY <1>3, <2>1
    <2> QED  BY <1>2, <2>1, <2>3, <2>4
  <1>8. CASE CreateTarget(r)
    <2>1. CASE holds[r.db] = Gone
      <3>1. Step(r, "ready", {}) /\ disturbed' = disturbed
        BY <1>8, <2>1 DEF CreateTarget
      <3>2. holds'[r.db] = {}
        BY <1>0, <3>1 DEF Step
      <3>3. PublicThings(r.db)' = {}
        BY <1>4, <3>2
      <3> QED  BY <1>2, <1>3, <3>1, <3>3
    <2>2. CASE holds[r.db] # Gone
      <3>1. Step(r, "failed", holds[r.db]) /\ disturbed' = disturbed
        BY <1>8, <2>2 DEF CreateTarget
      <3>2. holds' = holds
        BY <1>0, <3>1 DEF Step
      <3>3. PublicThings(r.db)' = PublicThings(r.db)
        BY <1>5, <3>2
      <3> QED  BY <1>2, <1>3, <3>1, <3>3
    <2> QED  BY <2>1, <2>2
  <1>9. CASE StopRestore(r)
    <2>1. Step(r, "failed", holds[r.db]) /\ disturbed' = disturbed
      BY <1>9 DEF StopRestore
    <2>2. holds' = holds
      BY <1>0, <2>1 DEF Step
    <2>3. PublicThings(r.db)' = PublicThings(r.db)
      BY <1>5, <2>2
    <2> QED  BY <1>2, <1>3, <2>1, <2>3
  <1>10. CASE RunRestore(r)
    <2>1. PICK at \in {"ok", "failed"}, left \in {{}, {r.file} \cap ValidFiles} :
            Step(r, at, IF holds[r.db] = Gone THEN Gone ELSE holds[r.db] \cup left)
      BY <1>10 DEF RunRestore
    <2>2. disturbed' = disturbed /\ r.at = "ready"
      BY <1>10 DEF RunRestore
    <2>3. PublicThings(r.db)' \subseteq PublicThings(r.db) \cup {r.file}
      <3> DEFINE h == IF holds[r.db] = Gone THEN Gone ELSE holds[r.db] \cup left
      <3>1. holds'[r.db] = h
        BY <1>0, <2>1 DEF Step
      <3> HIDE DEF h
      <3>2. CASE holds[r.db] = Gone
        BY <3>1, <3>2 DEF h, PublicThings
      <3>3. CASE holds[r.db] # Gone
        <4>1. h = holds[r.db] \cup left /\ left \subseteq {r.file}
          BY <2>1, <3>3 DEF h
        <4> QED  BY <3>1, <3>3, <4>1 DEF PublicThings
      <3> QED  BY <3>2, <3>3
    <2>4. r.db \notin disturbed' =>
            \A f \in PublicThings(r.db)' \cap Files : PublicThings(r.db)' = {f}
      BY <1>3, <2>2, <2>3
    <2> QED  BY <1>2, <1>3, <2>1, <2>2, <2>4
  <1> QED  BY <1>6, <1>7, <1>8, <1>9, <1>10 DEF ServerSteps

LEMMA RestoreInvStep ==
    ASSUME BackupsTypes, RestoreInv, [BackupsNext]_bkVars
    PROVE  RestoreInv'
  <1>0. /\ restores \subseteq Restores
        /\ holds \in [BackupDbs -> (SUBSET Things) \cup {Gone}]
    BY DEF BackupsTypes, BackupListTypes, RestoreTypes
  <1>1. ASSUME restores' \subseteq restores, UNCHANGED <<holds, disturbed>>
        PROVE  RestoreInv'
    <2> SUFFICES ASSUME NEW d \in BackupDbs PROVE Apart(d)'
      BY DEF RestoreInv
    <2>1. PublicThings(d)' = PublicThings(d) /\ AtWork(d)' \subseteq AtWork(d)
      BY <1>1 DEF PublicThings, AtWork
    <2> QED  BY <1>1, <2>1 DEF RestoreInv, Apart
  <1>2. CASE OthersWork
    <2> SUFFICES ASSUME NEW d \in BackupDbs PROVE Apart(d)'
      BY DEF RestoreInv
    <2>1. restores' = restores
      BY <1>2 DEF OthersWork, restoreVars
    <2>2. AtWork(d)' = AtWork(d)
      BY <2>1 DEF AtWork
    <2>3. PICK e \in BackupDbs :
            \/ /\ holds' = [holds EXCEPT ![e] = IF @ = Gone THEN {} ELSE Gone]
               /\ UNCHANGED disturbed
            \/ \E t \in TableRows :
                 /\ holds[e] # Gone
                 /\ holds' = [holds EXCEPT ![e] = @ \cup {t}]
                 /\ disturbed' = IF AtWork(e) # {} \/ holds[e] \cap Files # {}
                                 THEN disturbed \cup {e} ELSE disturbed
      BY <1>2 DEF OthersWork
    <2>4. CASE d # e
      <3>1. PublicThings(d)' = PublicThings(d)
        BY <1>0, <2>3, <2>4 DEF PublicThings
      <3> QED  BY <2>2, <2>3, <2>4, <3>1 DEF RestoreInv, Apart
    <2>5. CASE d = e /\ UNCHANGED disturbed /\ holds'[d] \in {Gone, {}}
      <3>1. PublicThings(d)' = {}
        BY <2>5 DEF PublicThings
      <3> QED  BY <2>2, <2>5, <3>1 DEF RestoreInv, Apart
    <2>6. CASE d = e /\ AtWork(d) = {} /\ holds[d] \cap Files = {} /\ holds[d] # Gone
               /\ \E t \in TableRows : holds'[d] = holds[d] \cup {t}
      <3>1. PublicThings(d)' \cap Files = {}
        BY <2>6, NamesAssumption DEF PublicThings
      <3> QED  BY <2>2, <2>6, <3>1 DEF Apart
    <2>7. CASE d \in disturbed'
      BY <2>7 DEF Apart
    <2> QED  BY <1>0, <2>3, <2>4, <2>5, <2>6, <2>7
  <1>3. CASE StartRestore
    <2> SUFFICES ASSUME NEW d \in BackupDbs, d \notin disturbed' PROVE Apart(d)'
      BY DEF RestoreInv, Apart
    <2> DEFINE n == [file |-> restore.file, db |-> restore.target, drop |-> restore.drop,
                     id |-> bkIssued + 1, live |-> TRUE, at |-> "sent"]
    <2>1. /\ restores' = restores \cup {n} /\ n.at = "sent" /\ n.db = restore.target
          /\ UNCHANGED holds
          /\ disturbed' = IF AtWork(restore.target) # {} THEN disturbed \cup {restore.target}
                          ELSE disturbed
      BY <1>3 DEF StartRestore
    <2> HIDE DEF n
    <2>2. PublicThings(d)' = PublicThings(d)
      BY <2>1 DEF PublicThings
    <2>3. CASE d # restore.target
      <3>1. AtWork(d)' = AtWork(d)
        BY <2>1, <2>3 DEF AtWork
      <3> QED  BY <2>1, <2>2, <3>1 DEF RestoreInv, Apart
    <2>4. CASE d = restore.target
      <3>1. AtWork(d) = {} /\ d \notin disturbed
        BY <2>1, <2>4
      <3>2. AtWork(d)' \subseteq AtWork(d) \cup {n}
        BY <2>1 DEF AtWork
      <3> QED  BY <2>1, <2>2, <3>1, <3>2 DEF RestoreInv, Apart
    <2> QED  BY <2>3, <2>4
  <1>4. CASE LeaveBackups \/ \E r \in restores : GiveUpRestore(r)
    <2> SUFFICES ASSUME NEW d \in BackupDbs PROVE Apart(d)'
      BY DEF RestoreInv
    <2> DEFINE Left(r) == [r EXCEPT !.live = FALSE]
    <2>1. UNCHANGED <<holds, disturbed>>
      BY <1>4 DEF LeaveBackups, GiveUpRestore, RestoreIdle
    <2>2. PublicThings(d)' = PublicThings(d)
      BY <2>1 DEF PublicThings
    <2>3. \A r \in restores : Left(r).at = r.at /\ Left(r).db = r.db
      BY <1>0 DEF Restores
    <2>4. \/ restores' = {Left(r) : r \in restores}
          \/ \E r \in restores : restores' = (restores \ {r}) \cup {Left(r)}
      BY <1>4 DEF LeaveBackups, GiveUpRestore
    <2> HIDE DEF Left
    <2>5. \A s \in AtWork(d)' : \E r \in AtWork(d) : s.at = r.at /\ s \in {r, Left(r)}
      BY <2>3, <2>4 DEF AtWork
    <2>6. (\A r1, r2 \in AtWork(d) : r1 = r2) => (\A s1, s2 \in AtWork(d)' : s1 = s2)
      <3>1. SUFFICES ASSUME \A r1, r2 \in AtWork(d) : r1 = r2,
                            NEW s1 \in AtWork(d)', NEW s2 \in AtWork(d)'
                     PROVE  s1 = s2
        OBVIOUS
      <3>2. PICK r \in AtWork(d) : s1 \in {r, Left(r)} /\ s2 \in {r, Left(r)}
        BY <2>5, <3>1
      <3>3. r \in restores /\ r.db = d /\ r.at \notin {"ok", "failed"}
        BY <3>2 DEF AtWork
      <3>4. CASE restores' = {Left(q) : q \in restores}
        <4>1. \A s \in AtWork(d)' : s = Left(r)
          BY <2>3, <3>1, <3>2, <3>4 DEF AtWork
        <4> QED  BY <4>1
      <3>5. ASSUME NEW q \in restores, restores' = (restores \ {q}) \cup {Left(q)}
            PROVE  s1 = s2
        <4>1. CASE q \in AtWork(d)
          <5>1. q = r
            BY <3>1, <3>2, <4>1
          <5>2. \A s \in AtWork(d)' : s = Left(r)
            BY <3>1, <3>2, <3>5, <5>1 DEF AtWork
          <5> QED  BY <5>2
        <4>2. CASE q \notin AtWork(d)
          <5>1. \A s \in AtWork(d)' : s \in AtWork(d)
            BY <2>3, <3>5, <4>2 DEF AtWork
          <5> QED  BY <3>1, <5>1
        <4> QED  BY <4>1, <4>2
      <3> QED  BY <2>4, <3>4, <3>5
    <2> QED  BY <2>1, <2>2, <2>5, <2>6 DEF RestoreInv, Apart
  <1>5. \/ restores' \subseteq restores /\ UNCHANGED <<holds, disturbed>>
        \/ OthersWork \/ StartRestore \/ LeaveBackups
        \/ \E r \in restores : ServerSteps(r) \/ GiveUpRestore(r)
    BY DEF BackupsNext, ServerSteps, bkVars, restoreVars, RestoreIdle, EnterBackups, ListDbs,
           ListTables, ToggleItem, SelectAllItems, Tick, ChooseDb, FetchBackup, FailBackup,
           StartBackup, ChooseFile, ResetFile, SwitchDrop, ChooseTarget, InspectionOk,
           InspectionFails, RestoreOk, RestoreFails
  <1> QED  BY <1>1, <1>2, <1>3, <1>4, <1>5, RestoreStepKept

\* A dump's tables of the schema public are the only ones of it in their
\* database, through refused, failed, broken off and repeated restores,
\* except where a check failed on tables that were there, where restores
\* overlapped, and where somebody made a table beside a restore or its dump.
THEOREM RestoresApart == BackupsSpec => []RestoredApart
  <1> DEFINE IInv == BackupsTypes /\ RestoreInv
  <1>1. BackupsInit => IInv
    <2>1. ASSUME BackupsInit
          PROVE  RestoreInv
      <3>1. restores = {} /\ holds \in [BackupDbs -> (SUBSET TableRows) \cup {Gone}]
        BY <2>1, BackupPlanFacts DEF BackupsInit
      <3>2. \A d \in BackupDbs : PublicThings(d) \cap Files = {} /\ AtWork(d) = {}
        BY <3>1, NamesAssumption DEF PublicThings, AtWork
      <3> QED  BY <3>2 DEF RestoreInv, Apart
    <2> QED  BY <2>1, BackupsTypesInit
  <1>2. IInv /\ [BackupsNext]_bkVars => IInv'
    BY BackupsTypesStep, RestoreInvStep
  <1>3. IInv => RestoredApart
    BY DEF RestoreInv, Apart, RestoredApart
  <1> QED  BY <1>1, <1>2, <1>3, PTL DEF BackupsSpec

-----------------------------------------------------------------------------
(* The audit log: types.  Only pages that have a key are asked for.        *)

LogViews == [open : BOOLEAN, page : 0..LastPage, filter : [Filters -> FilterTexts \cup {""}]]

LogsTypes ==
    /\ logs \subseteq AuditLogEntry /\ IsFiniteSet(logs)
    /\ logsQ \in [LogKeys -> Entries(AuditLogResponse)]
    /\ \A k \in LogKeys : logsQ[k].fetch = "read" => logsQ[k].answer \in AuditLogResponse
    /\ logsView \in LogViews
    /\ logEvents \in 0..MaxLogEvents /\ purged \in BOOLEAN

LEMMA LogsNumbers == LogLimit \in Nat /\ LastPage \in Nat /\ MaxLogEvents \in Nat
  BY LogsAssumption

LEMMA LogsFacts ==
    /\ LogLimit \in Nat \ {0} /\ LastPage \in Nat /\ MaxLogEvents \in Nat
    /\ 0 \in 0..LastPage /\ 0 \in 0..MaxLogEvents
    /\ LaterLogs \subseteq [Filters -> LogTexts]
    /\ FirstLogs \subseteq AuditLogEntry /\ IsFiniteSet(FirstLogs)
    /\ NoFilter \in [Filters -> FilterTexts \cup {""}]
  <1>1. LogLimit \in Nat \ {0} /\ LastPage \in Nat /\ MaxLogEvents \in Nat
    BY LogsAssumption
  <1>2. 0 \in 0..LastPage /\ 0 \in 0..MaxLogEvents
    BY <1>1
  <1>3. LaterLogs \subseteq [Filters -> LogTexts] /\ IsFiniteSet(FirstLogs)
    BY Zenon, LogsAssumption
  <1>4. FirstLogs \subseteq AuditLogEntry
    <2> DEFINE Past == {t \in Int : t <= 0}
    <2>1. Past \subseteq Int
      OBVIOUS
    <2>2. FirstLogs \subseteq [at : Past, of : [Filters -> LogTexts]]
      BY Zenon, LogsAssumption
    <2> HIDE DEF Past
    <2> QED  BY <2>1, <2>2 DEF AuditLogEntry
  <1>5. NoFilter \in [Filters -> FilterTexts \cup {""}]
    BY DEF NoFilter
  <1> QED  BY <1>1, <1>2, <1>3, <1>4, <1>5

LEMMA LogKeyTyped == \A v \in LogViews : LogKey(v) \in LogKeys
  BY DEF LogViews, LogKey, LogKeys

LEMMA LogsTypesSuffice == LogsTypes => LogsPageTypeOK
  BY LogKeyTyped DEF LogsTypes, LogsPageTypeOK, LogViews

LEMMA FoundFinite ==
    ASSUME LogsTypes, NEW filter
    PROVE  IsFiniteSet(Matching(filter)) /\ Cardinality(Matching(filter)) \in Nat
  <1>1. Matching(filter) \in SUBSET logs
    BY DEF Matching
  <1> QED  BY <1>1, FS_Subset, FS_CardinalityType DEF LogsTypes

LEMMA LogsAnswerTyped ==
    ASSUME LogsTypes, NEW k
    PROVE  /\ LogsAnswer(k) \in AuditLogResponse
           /\ LogsAnswer(k).total = Cardinality(Matching(k.filter))
           /\ LogsAnswer(k).entries \subseteq Matching(k.filter)
  <1> DEFINE found == Matching(k.filter)
             Newer(e) == Cardinality({n \in found : n.at > e.at})
             page == {e \in found : Newer(e) >= k.page * LogLimit /\ Newer(e) < (k.page + 1) * LogLimit}
  <1>1. found \subseteq AuditLogEntry
    BY DEF LogsTypes, Matching
  <1>2. page \subseteq found
    OBVIOUS
  <1>3. LogsAnswer(k) = [total |-> Cardinality(found), entries |-> page]
    BY Zenon DEF LogsAnswer
  <1>4. Cardinality(found) \in Nat
    BY FoundFinite
  <1> HIDE DEF page, found
  <1>5. LogsAnswer(k) \in AuditLogResponse
    BY <1>1, <1>2, <1>3, <1>4 DEF AuditLogResponse
  <1> QED  BY <1>2, <1>3, <1>5 DEF found

\* Entries are kept under their keys: a page that is shown, or an answer
\* under way, was found by the filter of its key, and unless the retention
\* removed entries there are by now as many.
FoundBy(d, k) ==
    d # NoData => /\ \A e \in d.entries : Satisfies(e, k.filter)
                  /\ ~purged => d.total <= Cardinality(Matching(k.filter))

AnswersFound == \A k \in LogKeys : FoundBy(logsQ[k].data, k) /\ FoundBy(logsQ[k].answer, k)

LogsInv == LogsTypes /\ AnswersFound /\ LogsPageHasEntries

\* What the steps of the page and of its requests make of one cached page.
LogsQuerySteps(k, q) ==
    \/ q = Observe(logsQ[k]) \/ q = Observe(Age(logsQ[k])) \/ q = Read(logsQ[k], LogsAnswer(k))
    \/ logsQ[k].fetch = "read" /\ q = Arrive(logsQ[k])
    \/ q = FetchFails(logsQ[k])

LEMMA LogsQueryTyped ==
    ASSUME LogsTypes, NEW k \in LogKeys, NEW q, LogsQuerySteps(k, q)
    PROVE  /\ q \in Entries(AuditLogResponse)
           /\ q.fetch = "read" => q.answer \in AuditLogResponse
           /\ q.data \in {logsQ[k].data, logsQ[k].answer}
           /\ q.answer \in {logsQ[k].answer, NoData, LogsAnswer(k)}
  <1>0. /\ logsQ[k] \in Entries(AuditLogResponse) /\ LogsAnswer(k) \in AuditLogResponse
        /\ logsQ[k].fetch = "read" => logsQ[k].answer \in AuditLogResponse
    BY LogsAnswerTyped DEF LogsTypes
  <1> DEFINE p == logsQ[k]
             d == LogsAnswer(k)
  <1>1. /\ p \in Entries(AuditLogResponse) /\ d \in AuditLogResponse
        /\ p.fetch = "read" => p.answer \in AuditLogResponse
    BY <1>0
  <1>2. \/ q = Observe(p) \/ q = Observe(Age(p)) \/ q = Read(p, d)
        \/ (p.fetch = "read" /\ q = Arrive(p)) \/ q = FetchFails(p)
    BY DEF LogsQuerySteps
  <1> HIDE DEF p, d
  <1>3. /\ q \in Entries(AuditLogResponse)
        /\ q.fetch = "read" => q.answer \in AuditLogResponse
        /\ q.data \in {p.data, p.answer}
        /\ q.answer \in {p.answer, NoData, d}
    <2>1. CASE q = Observe(p)
      BY <1>1, <2>1 DEF Observe, Send, Entries
    <2>2. CASE q = Observe(Age(p))
      BY <1>1, <2>2 DEF Observe, Age, Send, Entries
    <2>3. CASE q = Read(p, d)
      BY <1>1, <2>3 DEF Read, Entries
    <2>4. CASE p.fetch = "read" /\ q = Arrive(p)
      BY <1>1, <2>4 DEF Arrive, Entries
    <2>5. CASE q = FetchFails(p)
      BY <1>1, <2>5 DEF FetchFails, Entries
    <2> QED  BY <1>2, <2>1, <2>2, <2>3, <2>4, <2>5
  <1> QED  BY <1>3 DEF p, d

\* A step of the page or of a request concerns one cached page.
LEMMA LogsQueryStep ==
    ASSUME LogsTypes, AnswersFound, NEW k \in LogKeys, NEW q, LogsQuerySteps(k, q),
           logsQ' = [logsQ EXCEPT ![k] = q], UNCHANGED <<logs, purged>>
    PROVE  /\ logsQ' \in [LogKeys -> Entries(AuditLogResponse)]
           /\ \A j \in LogKeys : logsQ'[j].fetch = "read" => logsQ'[j].answer \in AuditLogResponse
           /\ AnswersFound'
  <1>0. logsQ \in [LogKeys -> Entries(AuditLogResponse)]
    BY DEF LogsTypes
  <1>1. logsQ'[k] = q /\ \A j \in LogKeys \ {k} : logsQ'[j] = logsQ[j]
    BY <1>0
  <1>2. FoundBy(LogsAnswer(k), k)
    BY LogsAnswerTyped, FoundFinite DEF FoundBy, Matching
  <1>3. FoundBy(NoData, k)
    BY DEF FoundBy
  <1>4. FoundBy(q.data, k) /\ FoundBy(q.answer, k)
    BY <1>2, <1>3, LogsQueryTyped DEF AnswersFound
  <1>6. \A j \in LogKeys : FoundBy(logsQ'[j].data, j) /\ FoundBy(logsQ'[j].answer, j)
    BY <1>1, <1>4 DEF AnswersFound
  <1>7. AnswersFound'
    BY <1>6 DEF AnswersFound, FoundBy, Matching
  <1> QED  BY <1>0, <1>1, <1>7, LogsQueryTyped DEF LogsTypes

\* A page that has entries, and the pages before it.
LEMMA EarlierPages ==
    ASSUME NEW p \in Nat \ {0}, NEW n \in Nat, p * LogLimit < n
    PROVE  (p - 1) * LogLimit < n
  <1>1. LogLimit \in Nat
    BY LogsFacts
  <1>2. (p - 1) * LogLimit = p * LogLimit - LogLimit /\ p * LogLimit \in Nat
    BY <1>1
  <1> HIDE DEF LogsAssumption
  <1> QED  BY <1>1, <1>2

LEMMA ShowLogsStep ==
    ASSUME LogsInv, NEW v \in LogViews, ShowLogs(v), logEvents' \in 0..MaxLogEvents,
           v.page # 0 /\ ~purged => v.page * LogLimit < Cardinality(Matching(v.filter))
    PROVE  LogsInv'
  <1>1. LogKey(v) \in LogKeys
    BY LogKeyTyped
  <1>2. /\ logsView' = v /\ logsQ' = [logsQ EXCEPT ![LogKey(v)] = Observe(logsQ[LogKey(v)])]
        /\ UNCHANGED <<logs, purged>>
    BY DEF ShowLogs
  <1>3. /\ logsQ' \in [LogKeys -> Entries(AuditLogResponse)]
        /\ \A j \in LogKeys : logsQ'[j].fetch = "read" => logsQ'[j].answer \in AuditLogResponse
        /\ AnswersFound'
    BY <1>1, <1>2, LogsQueryStep DEF LogsInv, LogsQuerySteps
  <1>4. LogsTypes'
    BY <1>2, <1>3 DEF LogsInv, LogsTypes
  <1>5. LogsPageHasEntries'
    BY <1>2 DEF LogsPageHasEntries, Matching
  <1> QED  BY <1>3, <1>4, <1>5 DEF LogsInv

LEMMA LogsInvStep ==
    ASSUME LogsInv, [LogsNext]_logsVars
    PROVE  LogsInv'
  <1>0. /\ LogsTypes /\ AnswersFound /\ LogsPageHasEntries /\ logsView \in LogViews
        /\ LogKey(logsView) \in LogKeys /\ logEvents \in 0..MaxLogEvents
        /\ LastPage \in Nat /\ MaxLogEvents \in Nat
    BY LogKeyTyped, LogsFacts DEF LogsInv, LogsTypes
  <1>1. CASE UNCHANGED logsVars
    BY <1>0, <1>1 DEF LogsInv, LogsTypes, AnswersFound, FoundBy, LogsPageHasEntries, Matching, logsVars
  <1>2. CASE EnterLogs
    <2>1. /\ [logsView EXCEPT !.open = TRUE] \in LogViews
          /\ [logsView EXCEPT !.open = TRUE].page = logsView.page
          /\ [logsView EXCEPT !.open = TRUE].filter = logsView.filter
      BY <1>0 DEF LogViews
    <2>2. logEvents' \in 0..MaxLogEvents
      BY <1>0, <1>2 DEF EnterLogs, LogEvent
    <2> DEFINE v == [logsView EXCEPT !.open = TRUE]
    <2>3. v \in LogViews /\ ShowLogs(v)
      BY <1>2, <2>1 DEF EnterLogs
    <2>4. v.page # 0 /\ ~purged => v.page * LogLimit < Cardinality(Matching(v.filter))
      BY <1>0, <2>1 DEF LogsPageHasEntries
    <2> HIDE DEF v
    <2> QED  BY <2>2, <2>3, <2>4, ShowLogsStep
  <1>3. CASE LeaveLogs
    <2> DEFINE v == [open |-> FALSE, page |-> 0, filter |-> NoFilter]
    <2>1. v \in LogViews /\ v.page = 0
      <3>1. v \in LogViews
        BY LogsFacts DEF LogViews
      <3> QED  BY <3>1
    <2>2. logsView' = v /\ UNCHANGED <<logs, logsQ, logEvents, purged>>
      BY <1>3 DEF LeaveLogs
    <2> HIDE DEF v
    <2> QED
      BY <1>0, <2>1, <2>2 DEF LogsInv, LogsTypes, AnswersFound, FoundBy, LogsPageHasEntries, Matching
  <1>4. ASSUME NEW f \in Filters, NEW t \in FilterTexts \cup {""}, FilterLogs(f, t)
        PROVE  LogsInv'
    <2> DEFINE v == [logsView EXCEPT !.filter[f] = t, !.page = 0]
    <2>1. v \in LogViews
      BY <1>0, LogsFacts DEF LogViews
    <2>1a. v.page = 0
      BY <1>0 DEF LogViews
    <2>2. ShowLogs(v) /\ logEvents' \in 0..MaxLogEvents
      BY <1>0, <1>4 DEF FilterLogs
    <2> HIDE DEF v
    <2> QED  BY <2>1, <2>1a, <2>2, ShowLogsStep
  <1>5. ASSUME NEW step \in {-1, 1}, TurnLogs(step)
        PROVE  LogsInv'
    <2> DEFINE v == [logsView EXCEPT !.page = @ + step]
               n == Cardinality(Matching(logsView.filter))
    <2>1. /\ logsView.page \in 0..LastPage
          /\ (step = -1 /\ logsView.page # 0)
             \/ (step = 1 /\ (logsView.page + 1) * LogLimit < LogsShown.data.total)
          /\ logsView.page + step <= LastPage /\ LogsShown.data # NoData
      BY <1>0, <1>5 DEF TurnLogs, LogViews
    <2>2. /\ v \in LogViews /\ v.page = logsView.page + step /\ v.filter = logsView.filter
      <3>1. logsView.page + step \in 0..LastPage
        BY <1>0, <2>1
      <3> QED  BY <1>0, <3>1 DEF LogViews
    <2>3. ShowLogs(v) /\ logEvents' \in 0..MaxLogEvents
      BY <1>0, <1>5 DEF TurnLogs
    <2>4. n \in Nat
      BY <1>0, FoundFinite
    <2>5. ASSUME step = -1, ~purged
          PROVE  (logsView.page + step) * LogLimit < n
      <3>1. logsView.page \in Nat \ {0} /\ logsView.page * LogLimit < n
        BY <1>0, <2>1, <2>5 DEF LogsPageHasEntries
      <3>2. (logsView.page - 1) * LogLimit < n
        BY <2>4, <3>1, EarlierPages
      <3>3. logsView.page + step = logsView.page - 1
        BY <2>5, <3>1
      <3> QED  BY <3>2, <3>3
    <2>6. ASSUME step = 1, ~purged
          PROVE  (logsView.page + step) * LogLimit < n
      <3>1. LogsShown.data.total <= n
        <4>1. FoundBy(LogsShown.data, LogKey(logsView))
          BY <1>0 DEF AnswersFound, LogsShown
        <4> QED  BY <2>1, <2>6, <4>1 DEF FoundBy, LogKey
      <3>2. LogsShown.data \in AuditLogResponse
        BY <1>0, <2>1 DEF LogsTypes, LogsShown, Entries
      <3>3. LogsShown.data.total \in Nat
        BY <3>2 DEF AuditLogResponse
      <3>4. (logsView.page + 1) * LogLimit \in Nat
        <4>1. logsView.page \in Nat /\ LogLimit \in Nat
          BY <2>1, LogsNumbers
        <4> QED  BY <4>1
      <3> DEFINE a == (logsView.page + 1) * LogLimit
                 b == LogsShown.data.total
      <3>5. a \in Nat /\ b \in Nat /\ a < b /\ b <= n
        BY <2>1, <2>6, <3>1, <3>3, <3>4
      <3>6. a < n
        <4> HIDE DEF a, b, n
        <4> QED  BY <2>4, <3>5
      <3> QED  BY <2>6, <3>6
    <2>7. v.page # 0 /\ ~purged => v.page * LogLimit < Cardinality(Matching(v.filter))
      BY <2>2, <2>5, <2>6
    <2> HIDE DEF v
    <2> QED  BY <2>2, <2>3, <2>7, ShowLogsStep
  <1>6. ASSUME NEW k \in LogKeys, NEW q, LogsQuerySteps(k, q),
               logsQ' = [logsQ EXCEPT ![k] = q],
               UNCHANGED <<logs, logsView, logEvents, purged>>
        PROVE  LogsInv'
    <2>1. /\ logsQ' \in [LogKeys -> Entries(AuditLogResponse)]
          /\ \A j \in LogKeys : logsQ'[j].fetch = "read" => logsQ'[j].answer \in AuditLogResponse
          /\ AnswersFound'
      BY <1>0, <1>6, LogsQueryStep
    <2> QED  BY <1>0, <1>6, <2>1 DEF LogsInv, LogsTypes, LogsPageHasEntries, Matching
  <1>7. CASE RefreshLogs
    <2>1. logsQ' = [logsQ EXCEPT ![LogKey(logsView)] = Observe(Age(logsQ[LogKey(logsView)]))]
          /\ UNCHANGED <<logs, logsView, logEvents, purged>>
      BY <1>7 DEF RefreshLogs
    <2> QED  BY <1>0, <1>6, <2>1 DEF LogsQuerySteps
  <1>8. ASSUME NEW k \in LogKeys, ReadLogs(k) \/ LogsArrive(k) \/ LogsFail(k)
        PROVE  LogsInv'
    <2>1. CASE ReadLogs(k)
      BY <1>6, <2>1 DEF ReadLogs, LogsQuerySteps
    <2>2. CASE LogsArrive(k)
      BY <1>6, <2>2 DEF LogsArrive, LogsQuerySteps
    <2>3. CASE LogsFail(k)
      BY <1>6, <2>3 DEF LogsFail, LogsQuerySteps
    <2> QED  BY <1>8, <2>1, <2>2, <2>3
  <1>9. ASSUME NEW e \in LaterLogs, WriteLog(e)
        PROVE  LogsInv'
    <2> DEFINE new == [at |-> logEvents', of |-> e]
    <2>1. logEvents' \in 0..MaxLogEvents
      BY <1>0, <1>9 DEF WriteLog, LogEvent
    <2>2. new \in AuditLogEntry
      <3>1. logEvents' \in Int
        BY <1>0, <2>1
      <3> QED  BY <3>1, LogsFacts DEF AuditLogEntry
    <2>3. logs' = logs \cup {new} /\ UNCHANGED <<logsQ, logsView, purged>>
      BY <1>9 DEF WriteLog
    <2> HIDE DEF new
    <2>4. IsFiniteSet(logs') /\ logs' \subseteq AuditLogEntry
      BY <1>0, <2>2, <2>3, FS_AddElement DEF LogsTypes
    <2>5. LogsTypes'
      BY <1>0, <2>1, <2>3, <2>4 DEF LogsTypes
    <2>6. ASSUME NEW filter
          PROVE  /\ Cardinality(Matching(filter)) <= Cardinality(Matching(filter)')
                 /\ Cardinality(Matching(filter)) \in Nat
                 /\ Cardinality(Matching(filter)') \in Nat
      <3>2. Matching(filter) \subseteq Matching(filter)' /\ Matching(filter)' \subseteq logs'
        BY <2>3 DEF Matching
      <3> QED  BY <2>4, <3>2, FS_Subset, FS_CardinalityType
    <2>7. AnswersFound'
      <3>1. ASSUME NEW k \in LogKeys, NEW d, FoundBy(d, k), d # NoData => d.total \in Nat
            PROVE  d # NoData => /\ \A x \in d.entries : Satisfies(x, k.filter)
                                 /\ ~purged => d.total <= Cardinality(Matching(k.filter)')
        <4>1. ASSUME d # NoData, ~purged
              PROVE  d.total <= Cardinality(Matching(k.filter)')
          <5> DEFINE a == d.total
                     b == Cardinality(Matching(k.filter))
                     c == Cardinality(Matching(k.filter)')
          <5>1. a \in Nat /\ b \in Nat /\ c \in Nat /\ a <= b /\ b <= c
            BY <2>6, <3>1, <4>1 DEF FoundBy
          <5>2. a <= c
            <6> HIDE DEF a, b, c
            <6> QED  BY <5>1
          <5> QED  BY <5>2
        <4> QED  BY <3>1, <4>1 DEF FoundBy
      <3>2. \A k \in LogKeys : /\ logsQ[k].data # NoData => logsQ[k].data.total \in Nat
                               /\ logsQ[k].answer # NoData => logsQ[k].answer.total \in Nat
        BY <1>0 DEF LogsTypes, Entries, AuditLogResponse
      <3> QED  BY <1>0, <2>3, <3>1, <3>2 DEF AnswersFound, FoundBy
    <2>8. LogsPageHasEntries'
      <3> PICK filter : filter = logsView.filter
        OBVIOUS
      <3>1. SUFFICES ASSUME logsView.page # 0, ~purged
                     PROVE  logsView.page * LogLimit < Cardinality(Matching(filter)')
        BY <2>3 DEF LogsPageHasEntries, Matching
      <3> DEFINE a == logsView.page * LogLimit
                 b == Cardinality(Matching(filter))
                 c == Cardinality(Matching(filter)')
      <3>2. a < b
        BY <1>0, <3>1 DEF LogsPageHasEntries
      <3>3. a \in Nat
        <4>1. logsView.page \in 0..LastPage
          BY <1>0 DEF LogViews
        <4>2. logsView.page \in Nat /\ LogLimit \in Nat
          BY <4>1, LogsNumbers
        <4> QED  BY <4>2
      <3>4. b \in Nat /\ c \in Nat /\ b <= c
        BY <2>6
      <3>5. a < c
        <4> HIDE DEF a, b, c
        <4> QED  BY <3>2, <3>3, <3>4
      <3> QED  BY <3>5
    <2> QED  BY <2>5, <2>7, <2>8 DEF LogsInv
  <1>10. ASSUME NEW old \in logs, PurgeLogs(old)
         PROVE  LogsInv'
    <2>1. /\ logs' \subseteq logs /\ purged' = TRUE /\ UNCHANGED <<logsQ, logsView>>
      BY <1>10 DEF PurgeLogs
    <2>2. logEvents' \in 0..MaxLogEvents
      BY <1>0, <1>10 DEF PurgeLogs, LogEvent
    <2>3. IsFiniteSet(logs')
      BY <1>0, <2>1, FS_Subset DEF LogsTypes
    <2>4. LogsTypes'
      BY <1>0, <2>1, <2>2, <2>3 DEF LogsTypes
    <2>5. AnswersFound'
      BY <1>0, <2>1 DEF AnswersFound, FoundBy
    <2> QED  BY <2>1, <2>4, <2>5 DEF LogsInv, LogsPageHasEntries
  <1> QED
    BY <1>1, <1>2, <1>3, <1>4, <1>5, <1>7, <1>8, <1>9, <1>10 DEF LogsNext

LEMMA LogsInvInit == LogsInit => LogsInv
  <1> SUFFICES ASSUME LogsInit PROVE LogsInv
    OBVIOUS
  <1>1. /\ logs = FirstLogs /\ logsQ = [k \in LogKeys |-> Unasked]
        /\ logsView = [open |-> FALSE, page |-> 0, filter |-> NoFilter]
        /\ logEvents = 0 /\ purged = FALSE
    BY DEF LogsInit
  <1>2. logs \subseteq AuditLogEntry /\ IsFiniteSet(logs)
    BY <1>1, LogsFacts
  <1>3. logsView \in LogViews
    BY <1>1, LogsFacts DEF LogViews
  <1>4. logEvents \in 0..MaxLogEvents
    BY <1>1, LogsFacts
  <1>5. logsQ \in [LogKeys -> Entries(AuditLogResponse)]
        /\ \A k \in LogKeys : logsQ[k] = Unasked
    BY <1>1, UnaskedVouched
  <1>6. LogsTypes
    BY <1>1, <1>2, <1>3, <1>4, <1>5 DEF LogsTypes, Unasked
  <1>7. AnswersFound
    BY <1>5 DEF AnswersFound, FoundBy, Unasked
  <1>8. LogsPageHasEntries
    BY <1>1 DEF LogsPageHasEntries
  <1> QED  BY <1>6, <1>7, <1>8 DEF LogsInv

\* The log, the cached pages and what is shown have their types.
THEOREM LogsTypeCorrect == LogsSpec => []LogsPageTypeOK
  <1>1. LogsInv => LogsPageTypeOK
    BY LogsTypesSuffice DEF LogsInv
  <1> QED  BY <1>1, LogsInvInit, LogsInvStep, PTL DEF LogsSpec

\* What is shown under a filter was found by it, in whatever order the
\* answers to earlier filters arrive.
THEOREM FilteredAreShown == LogsSpec => []ShownSatisfyFilter
  <1>1. LogsInv => ShownSatisfyFilter
    <2>1. SUFFICES ASSUME LogsInv, LogsShown.data # NoData
                   PROVE  \A e \in LogsShown.data.entries : Satisfies(e, logsView.filter)
      BY DEF ShownSatisfyFilter
    <2>2. LogKey(logsView) \in LogKeys
      BY <2>1, LogKeyTyped DEF LogsInv, LogsTypes
    <2>3. FoundBy(LogsShown.data, LogKey(logsView))
      BY <2>1, <2>2 DEF LogsInv, AnswersFound, LogsShown
    <2> QED  BY <2>1, <2>3 DEF FoundBy, LogKey
  <1> QED  BY <1>1, LogsInvInit, LogsInvStep, PTL DEF LogsSpec

\* Unless the retention removed entries, the page that is shown has some.
THEOREM PagesHaveLogs == LogsSpec => []LogsPageHasEntries
  <1>1. LogsInv => LogsPageHasEntries
    BY DEF LogsInv
  <1> QED  BY <1>1, LogsInvInit, LogsInvStep, PTL DEF LogsSpec

-----------------------------------------------------------------------------
(* One database.  What is drafted, asked for and kept: no column of a key  *)
(* is nullable, and what a request is made of has names.                   *)

GoodDraft == {c \in ColumnDraft : c.pk => ~c.nullable}
GoodNamed == {c \in GoodDraft : c.name # ""}
HistoryEntry == Queries \cup {""}

PageRequests ==
    {o \in [kind : {"create", "query"}, id : Nat, name : TableNames \cup {""}, columns : Seq(GoodNamed),
            ran : Queries \cup {""}, sql : Queries \cup {""}, current : BOOLEAN, live : BOOLEAN,
            done : BOOLEAN] :
        /\ o.kind = "create" => o.name # "" /\ o.columns # <<>>
        /\ o.kind = "query" => o.ran # ""}

ListTypes ==
    /\ tables \subseteq TableNames
    /\ tablesQ \in Entries(SUBSET TableNames) /\ allColumnsQ \in Entries(SUBSET TableNames)
    /\ tablesQ.fetch = "read" => tablesQ.answer \in SUBSET TableNames
    /\ pUnsure \in BOOLEAN

PageTypes ==
    /\ pTab \in {"away", "tables", "query"} /\ pPlan \in PagePlans
    /\ pCount \in [ops : 0..pPlan.ops, others : Nat, visits : 0..pPlan.visits]

DraftTypes ==
    /\ draft \in [open : BOOLEAN, name : TableNames \cup {""}, columns : Seq(GoodDraft)]
    /\ Len(draft.columns) \in 1..MaxDrafts

ConsoleTypes ==
    /\ sql \in Queries \cup {""} /\ result \in Queries \cup {NoQuery}
    /\ history \in Seq(HistoryEntry) /\ Len(history) <= HistoryLimit

PageInv == ListTypes /\ PageTypes /\ DraftTypes /\ ConsoleTypes /\ pOps \subseteq PageRequests

LEMMA PageNumbers ==
    ASSUME PageTypes
    PROVE  /\ pPlan.ops \in Nat /\ pPlan.visits \in Nat /\ pCount.ops \in Nat /\ pCount.visits \in Nat
  BY PagePlansAssumption DEF PageTypes

LEMMA CountedOp ==
    ASSUME PageTypes, pCount.ops < pPlan.ops
    PROVE  [pCount EXCEPT !.ops = @ + 1] \in [ops : 0..pPlan.ops, others : Nat, visits : 0..pPlan.visits]
  <1>1. pCount.ops + 1 \in 0..pPlan.ops
    BY PageNumbers
  <1> QED  BY <1>1 DEF PageTypes

LEMMA CountedVisit ==
    ASSUME PageTypes, pCount.visits < pPlan.visits
    PROVE  [pCount EXCEPT !.visits = @ + 1] \in [ops : 0..pPlan.ops, others : Nat, visits : 0..pPlan.visits]
  <1>1. pCount.visits + 1 \in 0..pPlan.visits
    BY PageNumbers
  <1> QED  BY <1>1 DEF PageTypes

\* What a request becomes while it is under way, and what it starts as.
LEMMA RequestKept ==
    ASSUME NEW o \in PageRequests
    PROVE  /\ \A b \in BOOLEAN : [o EXCEPT !.live = b] \in PageRequests
           /\ [o EXCEPT !.current = FALSE] \in PageRequests
           /\ [o EXCEPT !.done = TRUE] \in PageRequests
           /\ \A t \in Queries \cup {""} : [o EXCEPT !.sql = t] \in PageRequests
  BY DEF PageRequests

LEMMA ClosedKept ==
    ASSUME NEW S \in SUBSET PageRequests
    PROVE  {[o EXCEPT !.live = o.live /\ o.kind # "query"] : o \in S} \subseteq PageRequests
  <1>1. SUFFICES ASSUME NEW o \in S
                 PROVE  [o EXCEPT !.live = o.live /\ o.kind # "query"] \in PageRequests
    OBVIOUS
  <1>2. \A b \in BOOLEAN : [o EXCEPT !.live = b] \in PageRequests
    BY RequestKept
  <1>3. (o.live /\ o.kind # "query") \in BOOLEAN
    OBVIOUS
  <1> QED  BY <1>2, <1>3, Zenon

LEMMA CreateTyped ==
    ASSUME PageTypes, NEW n \in TableNames, n # "", NEW c \in Seq(GoodNamed), c # <<>>
    PROVE  [PRequest("create") EXCEPT !.name = n, !.columns = c] \in PageRequests
  <1>1. pCount.ops \in Nat
    BY PageNumbers
  <1> QED  BY <1>1 DEF PRequest, PageRequests

LEMMA QueryTyped ==
    ASSUME PageTypes, NEW t \in Queries, t # ""
    PROVE  [PRequest("query") EXCEPT !.ran = t, !.sql = t] \in PageRequests
  <1>1. pCount.ops \in Nat /\ <<>> \in Seq(GoodNamed)
    BY PageNumbers, EmptySeq
  <1> QED  BY <1>1 DEF PRequest, PageRequests

-----------------------------------------------------------------------------
(* The list of tables *)

LEMMA ListTypesStep ==
    ASSUME PageInv, [DatabasePageNext]_pageVars
    PROVE  ListTypes'
  <1>0. /\ ListTypes /\ tables \subseteq TableNames
        /\ tablesQ \in Entries(SUBSET TableNames) /\ allColumnsQ \in Entries(SUBSET TableNames)
        /\ ListedTables \in SUBSET TableNames
    BY DEF PageInv, ListTypes, ListedTables, Entries
  <1>1. /\ Observe(tablesQ) \in Entries(SUBSET TableNames)
        /\ Observe(Age(tablesQ)) \in Entries(SUBSET TableNames)
        /\ Observe(tablesQ).fetch = "read" => Observe(tablesQ) = tablesQ
        /\ Observe(Age(tablesQ)).fetch = "read" => Age(tablesQ).fetch = "read" /\ Observe(Age(tablesQ)) = Age(tablesQ)
        /\ Age(tablesQ).fetch = tablesQ.fetch /\ Age(tablesQ).answer = tablesQ.answer
    BY <1>0 DEF Observe, Age, Send, Entries
  <1>2. \A list : ObserveColumns(list) \in Entries(SUBSET TableNames)
    BY <1>0 DEF ObserveColumns, Observe, Send, Entries
  <1> HIDE DEF ListTypes
  <1>3. CASE EnterDatabase \/ RefreshTables \/ OpenConsole
    <2>1. /\ tablesQ' \in {Observe(tablesQ), Observe(Age(tablesQ))}
          /\ allColumnsQ' = allColumnsQ \/ allColumnsQ' = ObserveColumns(tablesQ)
          /\ UNCHANGED <<tables, pUnsure>>
      BY <1>3 DEF EnterDatabase, RefreshTables, OpenConsole, pServer
    <2>2. tablesQ' \in Entries(SUBSET TableNames) /\ allColumnsQ' \in Entries(SUBSET TableNames)
      BY <1>0, <1>1, <1>2, <2>1
    <2>3. tablesQ'.fetch = "read" => tablesQ'.answer \in SUBSET TableNames
      BY <1>0, <1>1, <2>1 DEF ListTypes
    <2> QED  BY <1>0, <2>1, <2>2, <2>3 DEF ListTypes
  <1>4. ASSUME NEW o \in pOps, HandlePage(o)
        PROVE  ListTypes'
    <2>1. o \in PageRequests
      BY DEF PageInv
    <2>2. tables' \subseteq TableNames /\ pUnsure' \in BOOLEAN
      <3>1. CASE o.kind = "create"
        <4>1. tables' = tables \cup {o.name} /\ pUnsure' = pUnsure /\ o.name \in TableNames
          BY <1>4, <2>1, <3>1 DEF HandlePage, PageRequests
        <4> QED  BY <1>0, <4>1 DEF ListTypes
      <3>2. CASE o.kind # "create"
        <4>1. /\ tables' \in (SUBSET TableNames) \cup {tables}
              /\ pUnsure' = (pUnsure \/ tables' # tables)
          BY <1>4, <3>2 DEF HandlePage
        <4>2. tables' \subseteq TableNames
          BY <1>0, <4>1
        <4> QED  BY <1>0, <4>1, <4>2 DEF ListTypes
      <3> QED  BY <3>1, <3>2
    <2>3. UNCHANGED <<tablesQ, allColumnsQ>>
      BY <1>4 DEF HandlePage, tablesTabVars
    <2> QED  BY <1>0, <2>2, <2>3 DEF ListTypes
  <1>5. ASSUME NEW o \in pOps, TableCreated(o)
        PROVE  ListTypes'
    <2>1. tablesQ' = Invalidate(tablesQ, pTab # "away") /\ UNCHANGED <<tables, pUnsure, allColumnsQ>>
      BY <1>5 DEF TableCreated, pServer
    <2>2. (pTab # "away") \in BOOLEAN
      OBVIOUS
    <2>3. tablesQ' \in Entries(SUBSET TableNames)
      BY <1>0, <2>1, <2>2, InvalidateVouched
    <2>4. tablesQ'.fetch = "read" => tablesQ.fetch = "read" /\ tablesQ'.answer = tablesQ.answer
      BY <1>0, <2>1 DEF Invalidate, Send, Entries
    <2> QED  BY <1>0, <2>1, <2>3, <2>4 DEF ListTypes
  <1>6. CASE ReadTables \/ TablesFail
    <2>1. /\ tablesQ' = Read(tablesQ, tables) \/ tablesQ' = FetchFails(tablesQ)
          /\ UNCHANGED <<tables, allColumnsQ>> /\ pUnsure' \in {FALSE, pUnsure}
      BY <1>6 DEF ReadTables, TablesFail, pServer
    <2>2. /\ Read(tablesQ, tables) \in Entries(SUBSET TableNames) /\ Read(tablesQ, tables).answer = tables
          /\ FetchFails(tablesQ) \in Entries(SUBSET TableNames) /\ FetchFails(tablesQ).fetch = "idle"
      BY <1>0 DEF Read, FetchFails, Entries
    <2> QED  BY <1>0, <2>1, <2>2 DEF ListTypes
  <1>7. CASE TablesArrive
    <2>1. /\ tablesQ.fetch = "read" /\ tablesQ' = Arrive(tablesQ)
          /\ allColumnsQ' = allColumnsQ \/ allColumnsQ' = ObserveColumns(tablesQ')
          /\ UNCHANGED <<tables, pUnsure>>
      BY <1>7 DEF TablesArrive, pServer
    <2>2. Arrive(tablesQ) \in Entries(SUBSET TableNames) /\ Arrive(tablesQ).fetch = "idle"
      BY <1>0 DEF Arrive, Entries
    <2>3. allColumnsQ' \in Entries(SUBSET TableNames)
      BY <1>0, <1>2, <2>1
    <2> QED  BY <1>0, <2>1, <2>2, <2>3 DEF ListTypes
  <1>7a. CASE OthersChangeTables
    <2>1. tables' \in SUBSET TableNames /\ pUnsure' = TRUE /\ UNCHANGED <<tablesQ, allColumnsQ>>
      BY <1>7a DEF OthersChangeTables, tablesTabVars
    <2> QED  BY <1>0, <2>1 DEF ListTypes
  <1>8. CASE ColumnsFetched \/ ColumnsNotFetched
    <2>1. /\ allColumnsQ' = Arrive(Read(allColumnsQ, ListedTables)) \/ allColumnsQ' = FetchFails(allColumnsQ)
          /\ UNCHANGED <<tables, pUnsure, tablesQ>>
      BY <1>8 DEF ColumnsFetched, ColumnsNotFetched, pServer
    <2>2. FetchFails(allColumnsQ) \in Entries(SUBSET TableNames)
      BY <1>0 DEF FetchFails, Entries
    <2>3. Read(allColumnsQ, ListedTables) \in Entries(SUBSET TableNames)
      BY <1>0 DEF Read, Entries
    <2>4. Arrive(Read(allColumnsQ, ListedTables)) \in Entries(SUBSET TableNames)
      BY <2>3 DEF Arrive, Entries
    <2> QED  BY <1>0, <2>1, <2>2, <2>4 DEF ListTypes
  <1>9. ASSUME NEW o \in pOps, QueryAnswered(o) \/ FailPage(o)
        PROVE  ListTypes'
    <2>1. UNCHANGED <<tables, tablesQ, allColumnsQ>> /\ pUnsure' \in BOOLEAN
      BY <1>0, <1>9 DEF QueryAnswered, FailPage, pServer, tablesTabVars, ListTypes
    <2> QED  BY <1>0, <2>1 DEF ListTypes
  <1>10. ASSUME UNCHANGED <<tables, pUnsure, tablesQ, allColumnsQ>>
         PROVE  ListTypes'
    BY <1>0, <1>10 DEF ListTypes
  <1>11. CASE UNCHANGED pageVars
    BY <1>10, <1>11 DEF pageVars
  <1>12. CASE LeaveDatabase \/ CloseConsole \/ SubmitTable \/ ClearHistory \/ FormatSql
              \/ ClickExecute \/ CtrlEnter \/ OpenDraft \/ CancelDraft \/ AddColumn
    BY <1>10, <1>12 DEF LeaveDatabase, CloseConsole, SubmitTable, ClearHistory, FormatSql, ClickExecute,
        CtrlEnter, RunSql, SetSql, OpenDraft, CancelDraft, AddColumn, EditDraft, pServer, tablesTabVars
  <1>13. CASE \/ \E n \in TableNames : NameTable(n)
              \/ \E i \in DOMAIN draft.columns :
                    \/ RemoveColumn(i) \/ TogglePK(i) \/ ToggleNullable(i)
                    \/ \E n \in ColNames : NameColumn(i, n)
              \/ \E t \in Queries \cup {""} : TypeSql(t)
              \/ \E i \in DOMAIN history : PickHistory(i)
    BY <1>10, <1>13 DEF NameTable, RemoveColumn, TogglePK, ToggleNullable, NameColumn, TypeSql, PickHistory,
        EditDraft, SetSql, pServer, tablesTabVars
  <1> QED
    BY <1>3, <1>4, <1>5, <1>6, <1>7, <1>7a, <1>8, <1>9, <1>11, <1>12, <1>13 DEF DatabasePageNext

-----------------------------------------------------------------------------
(* The tab, the counts, the dialog and the requests *)

LEMMA PageTypesStep ==
    ASSUME PageInv, [DatabasePageNext]_pageVars
    PROVE  PageTypes'
  <1>0. PageTypes
    BY DEF PageInv
  <1>1. CASE EnterDatabase
    <2>1. /\ pCount.visits < pPlan.visits /\ pCount' = [pCount EXCEPT !.visits = @ + 1]
          /\ pTab' = "tables" /\ pPlan' = pPlan
      BY <1>1 DEF EnterDatabase
    <2> QED  BY <1>0, <2>1, CountedVisit DEF PageTypes
  <1>2. CASE SubmitTable \/ ClickExecute \/ CtrlEnter
    <2>1. /\ pCount.ops < pPlan.ops /\ pCount' = [pCount EXCEPT !.ops = @ + 1]
          /\ UNCHANGED <<pTab, pPlan>>
      BY <1>2 DEF SubmitTable, ClickExecute, CtrlEnter, RunSql
    <2> QED  BY <1>0, <2>1, CountedOp DEF PageTypes
  <1>2a. CASE OthersChangeTables
    <2>1. pCount' = [pCount EXCEPT !.others = @ + 1] /\ UNCHANGED <<pTab, pPlan>>
      BY <1>2a DEF OthersChangeTables
    <2> QED  BY <1>0, <2>1 DEF PageTypes
  <1>3. ASSUME pTab' \in {pTab, "away", "tables", "query"}, UNCHANGED <<pPlan, pCount>>
        PROVE  PageTypes'
    BY <1>0, <1>3 DEF PageTypes
  <1>4. CASE UNCHANGED pageVars
    BY <1>3, <1>4 DEF pageVars
  <1>5. CASE LeaveDatabase \/ RefreshTables \/ OpenConsole \/ CloseConsole
    BY <1>3, <1>5 DEF LeaveDatabase, RefreshTables, OpenConsole, CloseConsole, pRequests
  <1>6. CASE \/ OpenDraft \/ CancelDraft \/ AddColumn \/ \E n \in TableNames : NameTable(n)
             \/ \E i \in DOMAIN draft.columns :
                   \/ RemoveColumn(i) \/ TogglePK(i) \/ ToggleNullable(i)
                   \/ \E n \in ColNames : NameColumn(i, n)
    BY <1>3, <1>6 DEF OpenDraft, CancelDraft, AddColumn, NameTable, RemoveColumn, TogglePK, ToggleNullable,
        NameColumn, EditDraft, pRequests
  <1>7. CASE \/ \E t \in Queries \cup {""} : TypeSql(t)
             \/ \E i \in DOMAIN history : PickHistory(i)
             \/ FormatSql \/ ClearHistory
    BY <1>3, <1>7 DEF TypeSql, PickHistory, FormatSql, ClearHistory, SetSql, pRequests
  <1>8. CASE \E o \in pOps : HandlePage(o) \/ TableCreated(o) \/ QueryAnswered(o) \/ FailPage(o)
    BY <1>3, <1>8 DEF HandlePage, TableCreated, QueryAnswered, FailPage
  <1>9. CASE ReadTables \/ TablesArrive \/ TablesFail \/ ColumnsFetched \/ ColumnsNotFetched
    BY <1>3, <1>9 DEF ReadTables, TablesArrive, TablesFail, ColumnsFetched, ColumnsNotFetched, pRequests
  <1> QED
    BY <1>1, <1>2, <1>2a, <1>4, <1>5, <1>6, <1>7, <1>8, <1>9 DEF DatabasePageNext

\* A column removed from a sequence leaves a sequence of the others.
LEMMA RemovedAt ==
    ASSUME NEW S, NEW s \in Seq(S), NEW i \in DOMAIN s
    PROVE  RemoveAt(s, i) \in Seq(S) /\ Len(RemoveAt(s, i)) = Len(s) - 1
  <1>1. Len(s) \in Nat /\ DOMAIN s = 1..Len(s) /\ \A j \in 1..Len(s) : s[j] \in S
    BY LenProperties
  <1>2. i \in Nat /\ 1 <= i /\ i <= Len(s)
    BY <1>1
  <1> DEFINE a == SubSeq(s, 1, i - 1)
             b == SubSeq(s, i + 1, Len(s))
  <1>3. a \in Seq(S) /\ Len(a) = i - 1
    <2>1. \A j \in 1..(i - 1) : s[j] \in S
      BY <1>1, <1>2
    <2>2. 1 \in Int /\ i - 1 \in Int
      BY <1>2
    <2>3. a \in Seq(S) /\ Len(a) = IF 1 <= i - 1 THEN (i - 1) - 1 + 1 ELSE 0
      BY <2>1, <2>2, SubSeqProperties
    <2> QED  BY <1>2, <2>3
  <1>4. b \in Seq(S) /\ Len(b) = Len(s) - i
    <2>1. \A j \in (i + 1)..Len(s) : s[j] \in S
      BY <1>1, <1>2
    <2>2. i + 1 \in Int /\ Len(s) \in Int
      BY <1>1, <1>2
    <2>3. b \in Seq(S) /\ Len(b) = IF i + 1 <= Len(s) THEN Len(s) - (i + 1) + 1 ELSE 0
      BY <2>1, <2>2, SubSeqProperties
    <2> QED  BY <1>1, <1>2, <2>3
  <1> HIDE DEF a, b
  <1>5. a \o b \in Seq(S) /\ Len(a \o b) = Len(a) + Len(b)
    BY <1>3, <1>4, ConcatProperties
  <1>6. RemoveAt(s, i) = a \o b
    BY DEF RemoveAt, a, b
  <1>7. (i - 1) + (Len(s) - i) = Len(s) - 1
    BY <1>1, <1>2
  <1> QED  BY <1>3, <1>4, <1>5, <1>6, <1>7

\* What is left of the drafts, in their order, once those without a name
\* are dropped.
LEMMA NamedTyped ==
    ASSUME DraftTypes, NamedDrafts # {},
           NEW order \in [1..Cardinality(NamedDrafts) -> NamedDrafts]
    PROVE  LET named == [n \in DOMAIN order |-> draft.columns[order[n]]]
           IN  /\ named \in Seq(GoodNamed) /\ named \in Seq(GoodDraft) /\ named # <<>>
               /\ Len(named) \in 1..MaxDrafts
  <1> DEFINE k == Cardinality(NamedDrafts)
             named == [n \in DOMAIN order |-> draft.columns[order[n]]]
  <1>1. /\ draft.columns \in Seq(GoodDraft) /\ Len(draft.columns) \in 1..MaxDrafts
        /\ DOMAIN draft.columns = 1..Len(draft.columns)
    BY LenProperties DEF DraftTypes
  <1>2. Len(draft.columns) \in Nat /\ MaxDrafts \in Nat
    BY <1>1, BoundsAssumption
  <1>3. IsFiniteSet(DOMAIN draft.columns) /\ Cardinality(DOMAIN draft.columns) = Len(draft.columns)
    <2>1. /\ IsFiniteSet(1..Len(draft.columns))
          /\ Cardinality(1..Len(draft.columns))
                = IF 1 > Len(draft.columns) THEN 0 ELSE Len(draft.columns) - 1 + 1
      BY <1>2, FS_Interval, SMTT(60)
    <2> QED  BY <1>1, <1>2, <2>1
  <1>4. NamedDrafts \in SUBSET DOMAIN draft.columns
    BY DEF NamedDrafts
  <1>5. IsFiniteSet(NamedDrafts) /\ k <= Len(draft.columns)
    BY <1>3, <1>4, FS_Subset
  <1>6. k \in Nat /\ k # 0
    BY <1>5, FS_CardinalityType, FS_EmptySet
  <1>7. k \in 1..MaxDrafts
    <2> HIDE DEF k
    <2> QED  BY <1>1, <1>2, <1>5, <1>6
  <1>8. \A i \in NamedDrafts : draft.columns[i] \in GoodNamed
    <2>1. TAKE i \in NamedDrafts
    <2>2. i \in 1..Len(draft.columns) /\ draft.columns[i].name # ""
      BY <1>1 DEF NamedDrafts
    <2>3. draft.columns[i] \in GoodDraft
      BY <1>1, <2>2, ElementOfSeq
    <2> QED  BY <2>2, <2>3 DEF GoodNamed
  <1>9. named \in [1..k -> GoodNamed]
    BY <1>8
  <1> HIDE DEF k, named
  <1>10. named \in Seq(GoodNamed) /\ Len(named) = k
    <2>1. named \in Seq(GoodNamed)
      <3>1. Seq(GoodNamed) = UNION {[1..n -> GoodNamed] : n \in Nat}
        BY SeqDef
      <3> QED  BY <1>6, <1>9, <3>1
    <2>2. DOMAIN named = 1..k /\ DOMAIN named = 1..Len(named) /\ Len(named) \in Nat
      BY <1>9, <2>1, LenProperties
    <2> QED  BY <1>6, <2>1, <2>2
  <1>11. GoodNamed \subseteq GoodDraft
    BY DEF GoodNamed
  <1>12. named \in Seq(GoodDraft)
    BY <1>10, <1>11, SeqMonotonic
  <1>13. named # <<>>
    BY <1>6, <1>10, EmptySeq
  <1> QED  BY <1>7, <1>10, <1>12, <1>13 DEF named

LEMMA NewDraftTyped ==
    /\ NewDraft \in [open : BOOLEAN, name : TableNames \cup {""}, columns : Seq(GoodDraft)]
    /\ Len(NewDraft.columns) \in 1..MaxDrafts
  <1>1. serialColumnDraft \in GoodDraft
    BY DEF serialColumnDraft, GoodDraft, ColumnDraft
  <1>2. <<serialColumnDraft>> \in Seq(GoodDraft) /\ Len(<<serialColumnDraft>>) = 1
    BY <1>1
  <1>3. 1 \in 1..MaxDrafts
    BY BoundsAssumption
  <1> HIDE DEF serialColumnDraft
  <1> QED  BY <1>2, <1>3 DEF NewDraft

LEMMA DraftTypesStep ==
    ASSUME PageInv, [DatabasePageNext]_pageVars
    PROVE  DraftTypes'
  <1>0. DraftTypes
    BY DEF PageInv
  <1> DEFINE cols == draft.columns
             Drafts == [open : BOOLEAN, name : TableNames \cup {""}, columns : Seq(GoodDraft)]
  <1>1. /\ draft \in Drafts /\ cols \in Seq(GoodDraft) /\ Len(cols) \in 1..MaxDrafts
        /\ DOMAIN cols = 1..Len(cols) /\ Len(cols) \in Nat /\ MaxDrafts \in Nat
        /\ \A i \in DOMAIN cols : cols[i] \in GoodDraft
    BY <1>0, LenProperties, ElementOfSeq, BoundsAssumption DEF DraftTypes
  <1>1a. Len(cols) \in Nat /\ MaxDrafts \in Nat /\ 1 <= Len(cols) /\ Len(cols) <= MaxDrafts
    <2>1. Len(cols) \in Nat /\ Len(cols) \in 1..MaxDrafts
      BY <1>1
    <2>2. MaxDrafts \in Nat
      BY BoundsAssumption
    <2> HIDE DEF cols
    <2> QED  BY <2>1, <2>2
  \* The dialog with other columns.
  <1>2. ASSUME NEW new \in Seq(GoodDraft), Len(new) \in 1..MaxDrafts, draft' = [draft EXCEPT !.columns = new]
        PROVE  DraftTypes'
    <2>1. draft' \in Drafts /\ draft'.columns = new
      BY <1>1, <1>2
    <2> QED  BY <1>2, <2>1 DEF DraftTypes
  \* The dialog with a column changed.
  <1>3. ASSUME NEW i \in DOMAIN cols, NEW c \in GoodDraft, draft' = [draft EXCEPT !.columns[i] = c]
        PROVE  DraftTypes'
    <2> DEFINE new == [cols EXCEPT ![i] = c]
    <2>1. new \in Seq(GoodDraft) /\ Len(new) = Len(cols)
      <3>1. cols \in Seq(GoodDraft) /\ i \in 1..Len(cols) /\ c \in GoodDraft
        BY <1>1, <1>3
      <3> HIDE DEF cols
      <3> QED  BY <3>1, ExceptSeq
    <2>2. draft' = [draft EXCEPT !.columns = new]
      BY <1>1, <1>3
    <2> HIDE DEF new
    <2> QED  BY <1>1, <1>2, <2>1, <2>2
  <1>4. ASSUME draft' = draft \/ draft' = NewDraft
        PROVE  DraftTypes'
    BY <1>0, <1>4, NewDraftTyped DEF DraftTypes
  <1>5. ASSUME NEW b \in BOOLEAN, draft' = [draft EXCEPT !.open = b]
        PROVE  DraftTypes'
    BY <1>1, <1>5 DEF DraftTypes
  <1>6. ASSUME NEW n \in TableNames, draft' = [draft EXCEPT !.name = n]
        PROVE  DraftTypes'
    BY <1>1, <1>6 DEF DraftTypes
  <1>7. CASE OpenDraft \/ CancelDraft
    BY <1>5, <1>7 DEF OpenDraft, CancelDraft, EditDraft
  <1>8. ASSUME NEW n \in TableNames, NameTable(n)
        PROVE  DraftTypes'
    BY <1>6, <1>8 DEF NameTable, EditDraft
  <1>9. CASE AddColumn
    <2> DEFINE new == Append(cols, newColumnDraft)
    <2>1. Len(cols) < MaxDrafts /\ draft' = [draft EXCEPT !.columns = new]
      BY <1>9 DEF AddColumn, EditDraft
    <2>2. newColumnDraft \in GoodDraft
      BY DEF newColumnDraft, GoodDraft, ColumnDraft
    <2>3. new \in Seq(GoodDraft) /\ Len(new) = Len(cols) + 1
      <3>1. cols \in Seq(GoodDraft)
        BY <1>1
      <3> HIDE DEF cols
      <3> QED  BY <2>2, <3>1
    <2>4. Len(new) \in 1..MaxDrafts
      <3>1. Len(cols) < MaxDrafts /\ Len(new) = Len(cols) + 1
        BY <2>1, <2>3
      <3> HIDE DEF new, cols
      <3> QED  BY <1>1a, <3>1
    <2> HIDE DEF new
    <2> QED  BY <1>2, <2>1, <2>3, <2>4
  <1>10. ASSUME NEW i \in DOMAIN cols, RemoveColumn(i)
         PROVE  DraftTypes'
    <2> DEFINE new == RemoveAt(cols, i)
    <2>1. Len(cols) > 1 /\ draft' = [draft EXCEPT !.columns = new]
      BY <1>10 DEF RemoveColumn, EditDraft
    <2>2. new \in Seq(GoodDraft) /\ Len(new) = Len(cols) - 1
      BY <1>1, <1>10, RemovedAt
    <2>3. Len(new) \in 1..MaxDrafts
      <3>1. Len(cols) > 1 /\ Len(new) = Len(cols) - 1
        BY <2>1, <2>2
      <3> HIDE DEF new, cols
      <3> QED  BY <1>1a, <3>1
    <2> HIDE DEF new
    <2> QED  BY <1>2, <2>1, <2>2, <2>3
  <1>11. ASSUME NEW i \in DOMAIN cols, TogglePK(i)
         PROVE  DraftTypes'
    <2> DEFINE c == [cols[i] EXCEPT !.pk = ~cols[i].pk, !.nullable = cols[i].pk /\ cols[i].nullable]
    <2>1. draft' = [draft EXCEPT !.columns[i] = c]
      BY <1>11 DEF TogglePK, EditDraft
    <2>2. c \in GoodDraft
      <3>1. cols[i] \in ColumnDraft
        BY <1>1, <1>11 DEF GoodDraft
      <3>2. (~cols[i].pk) \in BOOLEAN /\ (cols[i].pk /\ cols[i].nullable) \in BOOLEAN
        OBVIOUS
      <3>3. c \in ColumnDraft /\ c.pk = ~cols[i].pk /\ c.nullable = (cols[i].pk /\ cols[i].nullable)
        BY <3>1, <3>2 DEF ColumnDraft
      <3> HIDE DEF c
      <3> QED  BY <3>3, Zenon DEF GoodDraft
    <2> HIDE DEF c
    <2> QED  BY <1>3, <1>11, <2>1, <2>2
  <1>12. ASSUME NEW i \in DOMAIN cols, ToggleNullable(i)
         PROVE  DraftTypes'
    <2> DEFINE c == [cols[i] EXCEPT !.nullable = ~cols[i].nullable]
    <2>1. draft' = [draft EXCEPT !.columns[i].nullable = ~cols[i].nullable] /\ ~cols[i].pk
      BY <1>12 DEF ToggleNullable, EditDraft
    <2>2. draft' = [draft EXCEPT !.columns[i] = c]
      BY <1>1, <2>1
    <2>3. c \in GoodDraft
      <3>1. cols[i] \in ColumnDraft
        BY <1>1, <1>12 DEF GoodDraft
      <3>2. c \in ColumnDraft /\ c.pk = cols[i].pk
        BY <3>1 DEF ColumnDraft
      <3>3. ~c.pk
        BY <2>1, <3>2
      <3> HIDE DEF c
      <3> QED  BY <3>2, <3>3, Zenon DEF GoodDraft
    <2> HIDE DEF c
    <2> QED  BY <1>3, <1>12, <2>2, <2>3
  <1>13. ASSUME NEW i \in DOMAIN cols, NEW n \in ColNames, NameColumn(i, n)
         PROVE  DraftTypes'
    <2> DEFINE c == [cols[i] EXCEPT !.name = n]
    <2>1. draft' = [draft EXCEPT !.columns[i].name = n]
      BY <1>13 DEF NameColumn, EditDraft
    <2>2. draft' = [draft EXCEPT !.columns[i] = c]
      BY <1>1, <2>1
    <2>3. c \in GoodDraft
      <3>1. cols[i] \in GoodDraft
        BY <1>1, <1>13
      <3>2. cols[i] \in ColumnDraft /\ (cols[i].pk => ~cols[i].nullable)
        BY <3>1, Zenon DEF GoodDraft
      <3>3. c \in ColumnDraft /\ c.pk = cols[i].pk /\ c.nullable = cols[i].nullable
        BY <3>2 DEF ColumnDraft
      <3>4. c.pk => ~c.nullable
        BY <3>2, <3>3
      <3> HIDE DEF c
      <3> QED  BY <3>3, <3>4, Zenon DEF GoodDraft
    <2> HIDE DEF c
    <2> QED  BY <1>3, <1>13, <2>2, <2>3
  <1>14. CASE SubmitTable
    <2>1. PICK order \in [1..Cardinality(NamedDrafts) -> NamedDrafts] :
             draft' = [draft EXCEPT !.columns = [n \in DOMAIN order |-> cols[order[n]]]]
      BY <1>14 DEF SubmitTable
    <2>2. NamedDrafts # {}
      BY <1>14 DEF SubmitTable
    <2> DEFINE new == [n \in DOMAIN order |-> cols[order[n]]]
    <2>3. new \in Seq(GoodDraft) /\ Len(new) \in 1..MaxDrafts
      BY <1>0, <2>2, NamedTyped
    <2>4. draft' = [draft EXCEPT !.columns = new]
      BY <2>1
    <2> HIDE DEF new
    <2> QED  BY <1>2, <2>3, <2>4
  <1> HIDE DEF cols
  <1>15. CASE EnterDatabase \/ LeaveDatabase \/ RefreshTables \/ OpenConsole \/ CloseConsole
    BY <1>4, <1>15 DEF EnterDatabase, LeaveDatabase, RefreshTables, OpenConsole, CloseConsole
  <1>16. CASE \/ \E t \in Queries \cup {""} : TypeSql(t)
              \/ \E i \in DOMAIN history : PickHistory(i)
              \/ FormatSql \/ ClearHistory \/ ClickExecute \/ CtrlEnter
    BY <1>4, <1>16 DEF TypeSql, PickHistory, FormatSql, ClearHistory, SetSql, ClickExecute, CtrlEnter, RunSql
  <1>17. CASE \E o \in pOps : HandlePage(o) \/ TableCreated(o) \/ QueryAnswered(o) \/ FailPage(o)
    BY <1>4, <1>17 DEF HandlePage, TableCreated, QueryAnswered, FailPage
  <1>18. CASE ReadTables \/ TablesArrive \/ TablesFail \/ ColumnsFetched \/ ColumnsNotFetched
    BY <1>4, <1>18 DEF ReadTables, TablesArrive, TablesFail, ColumnsFetched, ColumnsNotFetched
  <1>18a. CASE OthersChangeTables
    BY <1>4, <1>18a DEF OthersChangeTables
  <1>19. CASE UNCHANGED pageVars
    BY <1>4, <1>19 DEF pageVars
  <1> QED
    BY <1>7, <1>8, <1>9, <1>10, <1>11, <1>12, <1>13, <1>14, <1>15, <1>16, <1>17, <1>18, <1>18a, <1>19
    DEF DatabasePageNext, cols

\* Every request that is made is well formed, and stays so.
LEMMA PageRequestsStep ==
    ASSUME PageInv, [DatabasePageNext]_pageVars
    PROVE  pOps' \subseteq PageRequests
  <1>0. PageTypes /\ DraftTypes /\ ConsoleTypes /\ pOps \subseteq PageRequests
    BY DEF PageInv
  <1>1. ASSUME pOps' \subseteq pOps
        PROVE  pOps' \subseteq PageRequests
    BY <1>0, <1>1
  <1>2. CASE SubmitTable
    <2>1. PICK order \in [1..Cardinality(NamedDrafts) -> NamedDrafts] :
             pOps' = pOps \cup {[PRequest("create") EXCEPT !.name = draft.name,
                                   !.columns = [n \in DOMAIN order |-> draft.columns[order[n]]]]}
      BY <1>2 DEF SubmitTable
    <2>2. NamedDrafts # {} /\ draft.name # ""
      BY <1>2 DEF SubmitTable
    <2>3. draft.name \in TableNames
      BY <1>0, <2>2 DEF DraftTypes
    <2> DEFINE named == [n \in DOMAIN order |-> draft.columns[order[n]]]
    <2>4. named \in Seq(GoodNamed) /\ named # <<>>
      BY <1>0, <2>2, NamedTyped
    <2> HIDE DEF named
    <2>5. [PRequest("create") EXCEPT !.name = draft.name, !.columns = named] \in PageRequests
      BY <1>0, <2>2, <2>3, <2>4, CreateTyped
    <2> QED  BY <1>0, <2>1, <2>5 DEF named
  <1>3. CASE ClickExecute \/ CtrlEnter
    <2>1. /\ sql # ""
          /\ pOps' = {IF o.kind = "query" THEN [o EXCEPT !.current = FALSE] ELSE o : o \in pOps}
                     \cup {[PRequest("query") EXCEPT !.ran = sql, !.sql = sql]}
      BY <1>3 DEF ClickExecute, CtrlEnter, RunSql
    <2>2. sql \in Queries
      BY <1>0, <2>1 DEF ConsoleTypes
    <2>3. [PRequest("query") EXCEPT !.ran = sql, !.sql = sql] \in PageRequests
      BY <1>0, <2>1, <2>2, QueryTyped
    <2> QED  BY <1>0, <2>1, <2>3, RequestKept
  <1>4. CASE CloseConsole \/ LeaveDatabase
    <2>1. \/ pOps' = {[o EXCEPT !.live = o.live /\ o.kind # "query"] : o \in pOps}
          \/ pOps' = {[o EXCEPT !.live = FALSE] : o \in pOps}
      BY <1>4 DEF CloseConsole, LeaveDatabase
    <2>2. CASE pOps' = {[o EXCEPT !.live = FALSE] : o \in pOps}
      BY <1>0, <2>2, RequestKept
    <2>3. CASE pOps' = {[o EXCEPT !.live = o.live /\ o.kind # "query"] : o \in pOps}
      BY <1>0, <2>3, ClosedKept, Zenon
    <2> QED  BY <2>1, <2>2, <2>3
  <1>5. ASSUME NEW t \in Queries \cup {""}, SetSql(t)
        PROVE  pOps' \subseteq PageRequests
    BY <1>0, <1>5, RequestKept, ZenonT(60) DEF SetSql, WithText
  <1>6. ASSUME NEW i \in DOMAIN history, PickHistory(i)
        PROVE  pOps' \subseteq PageRequests
    <2>1. history[i] \in HistoryEntry
      BY <1>0, <1>6, LenProperties, ElementOfSeq DEF ConsoleTypes
    <2>2. history[i] \in Queries \cup {""}
      BY <2>1 DEF HistoryEntry
    <2> QED  BY <1>5, <1>6, <2>2 DEF PickHistory
  <1>7. CASE FormatSql
    <2>1. sql \in Queries
      BY <1>0, <1>7 DEF FormatSql, ConsoleTypes
    <2>2. FormattedAs[sql] \in Queries
      BY <2>1, QueriesAssumption
    <2> QED  BY <1>5, <1>7, <2>2 DEF FormatSql
  <1>8. CASE \E t \in Queries \cup {""} : TypeSql(t)
    BY <1>5, <1>8 DEF TypeSql
  <1>9. ASSUME NEW o \in pOps, HandlePage(o) \/ TableCreated(o) \/ QueryAnswered(o) \/ FailPage(o)
        PROVE  pOps' \subseteq PageRequests
    <2>1. CASE HandlePage(o)
      <3>1. pOps' = (pOps \ {o}) \cup {[o EXCEPT !.done = TRUE]}
        BY <2>1 DEF HandlePage
      <3> QED  BY <1>0, <3>1, RequestKept
    <2>2. CASE TableCreated(o) \/ QueryAnswered(o) \/ FailPage(o)
      BY <1>1, <2>2 DEF TableCreated, QueryAnswered, FailPage
    <2> QED  BY <1>9, <2>1, <2>2
  <1>10. CASE EnterDatabase \/ RefreshTables \/ OpenConsole \/ ClearHistory
    BY <1>1, <1>10 DEF EnterDatabase, RefreshTables, OpenConsole, ClearHistory, pRequests
  <1>11. CASE \/ OpenDraft \/ CancelDraft \/ AddColumn \/ \E n \in TableNames : NameTable(n)
              \/ \E i \in DOMAIN draft.columns :
                    \/ RemoveColumn(i) \/ TogglePK(i) \/ ToggleNullable(i)
                    \/ \E n \in ColNames : NameColumn(i, n)
    BY <1>1, <1>11 DEF OpenDraft, CancelDraft, AddColumn, NameTable, RemoveColumn, TogglePK, ToggleNullable,
        NameColumn, EditDraft, pRequests
  <1>12. CASE OthersChangeTables \/ ReadTables \/ TablesArrive \/ TablesFail \/ ColumnsFetched \/ ColumnsNotFetched
    BY <1>1, <1>12 DEF OthersChangeTables, ReadTables, TablesArrive, TablesFail, ColumnsFetched,
        ColumnsNotFetched, pRequests
  <1>13. CASE UNCHANGED pageVars
    BY <1>1, <1>13 DEF pageVars
  <1> QED
    BY <1>2, <1>3, <1>4, <1>6, <1>7, <1>8, <1>9, <1>10, <1>11, <1>12, <1>13 DEF DatabasePageNext

\* The newest entry in front of the others, as many as the history keeps.
LEMMA HistoryGrows ==
    ASSUME NEW S, NEW s \in Seq(S), NEW n \in Nat, NEW e \in S
    PROVE  /\ <<e>> \o FirstOf(s, n) \in Seq(S)
           /\ Len(<<e>> \o FirstOf(s, n)) <= n + 1
  <1> DEFINE k == IF Len(s) < n THEN Len(s) ELSE n
             f == SubSeq(s, 1, k)
  <1>1. Len(s) \in Nat /\ \A i \in 1..Len(s) : s[i] \in S
    BY LenProperties, ElementOfSeq
  <1>2. k \in Nat /\ k <= Len(s) /\ k <= n
    BY <1>1
  <1>3. FirstOf(s, n) = f
    BY DEF FirstOf
  <1> HIDE DEF k
  <1>4. f \in Seq(S) /\ Len(f) = k
    <2>1. \A i \in 1..k : s[i] \in S
      BY <1>1, <1>2
    <2>2. f \in Seq(S) /\ Len(f) = IF 1 <= k THEN k - 1 + 1 ELSE 0
      BY <1>2, <2>1, SubSeqProperties
    <2> HIDE DEF f
    <2> QED  BY <1>2, <2>2
  <1> HIDE DEF f
  <1>5. <<e>> \in Seq(S) /\ Len(<<e>>) = 1
    OBVIOUS
  <1>6. <<e>> \o f \in Seq(S) /\ Len(<<e>> \o f) = 1 + k
    BY <1>4, <1>5, ConcatProperties
  <1> QED  BY <1>2, <1>3, <1>6

-----------------------------------------------------------------------------
(* The console *)

LEMMA ConsoleStep ==
    ASSUME PageInv, [DatabasePageNext]_pageVars
    PROVE  ConsoleTypes'
  <1>0. ConsoleTypes /\ pOps \subseteq PageRequests
    BY DEF PageInv
  <1>1. ASSUME UNCHANGED consoleVars
        PROVE  ConsoleTypes'
    BY <1>0, <1>1 DEF consoleVars, ConsoleTypes
  <1>2. ASSUME sql' \in Queries \cup {""}, UNCHANGED <<result, history>>
        PROVE  ConsoleTypes'
    BY <1>0, <1>2 DEF ConsoleTypes
  \* An empty history.
  <1>3. ASSUME sql' \in Queries \cup {""}, result' \in Queries \cup {NoQuery}, history' = <<>>
        PROVE  ConsoleTypes'
    <2>1. Len(<<>>) = 0 /\ 0 <= HistoryLimit
      BY BoundsAssumption
    <2> QED  BY <1>3, <2>1, EmptySeq DEF ConsoleTypes
  <1>4. CASE CloseConsole \/ LeaveDatabase
    <2>1. sql' = "" /\ result' = NoQuery /\ history' = <<>>
      BY <1>4 DEF CloseConsole, LeaveDatabase, ClearedConsole
    <2> QED  BY <1>3, <2>1
  <1>5. CASE ClearHistory
    <2>1. sql' = sql /\ result' = result /\ history' = <<>>
      BY <1>5 DEF ClearHistory
    <2> QED  BY <1>0, <1>3, <2>1 DEF ConsoleTypes
  <1>6. ASSUME NEW i \in DOMAIN history, PickHistory(i)
        PROVE  ConsoleTypes'
    <2>1. history[i] \in HistoryEntry
      BY <1>0, <1>6, LenProperties, ElementOfSeq DEF ConsoleTypes
    <2>2. history[i] \in Queries \cup {""}
      BY <2>1 DEF HistoryEntry
    <2> QED  BY <1>2, <1>6, <2>2 DEF PickHistory, SetSql
  <1>7. CASE FormatSql
    <2>1. FormattedAs[sql] \in Queries
      BY <1>0, <1>7, QueriesAssumption DEF FormatSql, ConsoleTypes
    <2> QED  BY <1>2, <1>7, <2>1 DEF FormatSql, SetSql
  <1>8. CASE \E t \in Queries \cup {""} : TypeSql(t)
    BY <1>2, <1>8 DEF TypeSql, SetSql
  \* An answer: an entry in front of those that are kept.
  <1>9. ASSUME NEW o \in pOps, QueryAnswered(o)
        PROVE  ConsoleTypes'
    <2> DEFINE e == o.sql
               n == HistoryLimit - 1
               t == <<e>> \o FirstOf(history, n)
    <2>1. o \in PageRequests /\ o.kind = "query"
      BY <1>0, <1>9 DEF QueryAnswered
    <2>2. e \in HistoryEntry /\ o.ran \in Queries
      BY <2>1 DEF PageRequests, HistoryEntry
    <2>3. CASE o.live
      <3>1. result' = o.ran /\ sql' = sql /\ history' = t
        BY <1>9, <2>3 DEF QueryAnswered
      <3>2. history \in Seq(HistoryEntry)
        BY <1>0 DEF ConsoleTypes
      <3>2a. n \in Nat /\ HistoryLimit = n + 1
        BY BoundsAssumption
      <3> HIDE DEF e, n
      <3>3. t \in Seq(HistoryEntry) /\ Len(t) <= n + 1
        BY <2>2, <3>2, <3>2a, HistoryGrows
      <3>4. Len(t) <= HistoryLimit
        BY <3>2a, <3>3
      <3> HIDE DEF t
      <3> QED  BY <1>0, <2>2, <3>1, <3>3, <3>4 DEF ConsoleTypes
    <2>4. CASE ~o.live
      BY <1>1, <1>9, <2>4 DEF QueryAnswered, consoleVars
    <2> QED  BY <2>3, <2>4
  <1>10. CASE \E o \in pOps : HandlePage(o) \/ TableCreated(o) \/ FailPage(o)
    BY <1>1, <1>10 DEF HandlePage, TableCreated, FailPage
  <1>11. CASE \/ EnterDatabase \/ RefreshTables \/ OpenConsole \/ SubmitTable \/ ClickExecute \/ CtrlEnter
    BY <1>1, <1>11 DEF EnterDatabase, RefreshTables, OpenConsole, SubmitTable, ClickExecute, CtrlEnter, RunSql
  <1>12. CASE \/ OpenDraft \/ CancelDraft \/ AddColumn \/ \E n \in TableNames : NameTable(n)
              \/ \E i \in DOMAIN draft.columns :
                    \/ RemoveColumn(i) \/ TogglePK(i) \/ ToggleNullable(i)
                    \/ \E n \in ColNames : NameColumn(i, n)
    BY <1>1, <1>12 DEF OpenDraft, CancelDraft, AddColumn, NameTable, RemoveColumn, TogglePK, ToggleNullable,
        NameColumn, EditDraft
  <1>13. CASE OthersChangeTables \/ ReadTables \/ TablesArrive \/ TablesFail \/ ColumnsFetched \/ ColumnsNotFetched
    BY <1>1, <1>13 DEF OthersChangeTables, ReadTables, TablesArrive, TablesFail, ColumnsFetched, ColumnsNotFetched
  <1>14. CASE UNCHANGED pageVars
    BY <1>1, <1>14 DEF pageVars, consoleVars
  <1> QED
    BY <1>4, <1>5, <1>6, <1>7, <1>8, <1>9, <1>10, <1>11, <1>12, <1>13, <1>14 DEF DatabasePageNext

-----------------------------------------------------------------------------
(* The list of tables and the tables.  While a table was created and the   *)
(* answer is under way, or nobody told the page of one, nothing is claimed;*)
(* else the list vouches for the tables.                                   *)

TableUntold == pUnsure \/ \E o \in pOps : o.kind = "create" /\ o.done
ListVouches == ~TableUntold => Vouched(tablesQ, {tables})

\* The changes of requests that leave their kinds and answers.
LEMMA UntoldKept ==
    ASSUME pOps \subseteq PageRequests, pUnsure' = pUnsure,
           \/ pOps' = pOps
           \/ pOps' = {[o EXCEPT !.live = o.live /\ o.kind # "query"] : o \in pOps}
           \/ pOps' = {[o EXCEPT !.live = FALSE] : o \in pOps}
           \/ \E t : pOps' = WithText(pOps, t)
           \/ \E r : pOps' = {IF o.kind = "query" THEN [o EXCEPT !.current = FALSE] ELSE o : o \in pOps} \cup {r}
           \/ \E r : pOps' = pOps \cup {r}
    PROVE  TableUntold => TableUntold'
  <1>1. SUFFICES ASSUME NEW o \in pOps, o.kind = "create", o.done
                 PROVE  \E r \in pOps' : r.kind = "create" /\ r.done
    BY DEF TableUntold
  <1> DEFINE gone == [o EXCEPT !.live = o.live /\ o.kind # "query"]
             away == [o EXCEPT !.live = FALSE]
  <1>2. /\ gone.kind = "create" /\ gone.done /\ away.kind = "create" /\ away.done
    BY <1>1 DEF PageRequests
  <1>3. o \in pOps' \/ gone \in pOps' \/ away \in pOps'
    BY <1>1 DEF WithText
  <1> HIDE DEF gone, away
  <1> QED  BY <1>1, <1>2, <1>3

LEMMA ListVouchesStep ==
    ASSUME PageInv, ListVouches, [DatabasePageNext]_pageVars
    PROVE  ListVouches'
  <1>0. /\ ListTypes /\ pOps \subseteq PageRequests /\ tablesQ \in Entries(SUBSET TableNames)
        /\ tables \in SUBSET TableNames
    BY DEF PageInv, ListTypes
  \* The tables and the list are left, or the list is looked at.
  <1>1. ASSUME TableUntold => TableUntold', tables' = tables,
               Vouched(tablesQ, {tables}) => Vouched(tablesQ', {tables})
        PROVE  ListVouches'
    BY <1>1 DEF ListVouches, Vouched, Fresh
  <1>2. ASSUME UNCHANGED <<tables, tablesQ, pOps, pUnsure>>
        PROVE  ListVouches'
    BY <1>2 DEF ListVouches, TableUntold, Vouched, Fresh
  <1>3. CASE EnterDatabase \/ RefreshTables \/ OpenConsole
    <2>1. /\ tablesQ' \in {Observe(tablesQ), Observe(Age(tablesQ))} /\ UNCHANGED <<tables, pUnsure, pOps>>
      BY <1>3 DEF EnterDatabase, RefreshTables, OpenConsole, pServer, pRequests
    <2>2. Vouched(tablesQ, {tables}) => Vouched(tablesQ', {tables})
      BY <1>0, <2>1, ObserveVouched, AgeVouched
    <2> QED  BY <1>1, <2>1, <2>2 DEF TableUntold
  <1>4. CASE SubmitTable \/ ClickExecute \/ CtrlEnter
    <2>1. /\ UNCHANGED <<tables, tablesQ, pUnsure>>
          /\ \/ \E r : pOps' = {IF o.kind = "query" THEN [o EXCEPT !.current = FALSE] ELSE o : o \in pOps} \cup {r}
             \/ \E r : pOps' = pOps \cup {r}
      BY <1>4 DEF SubmitTable, ClickExecute, CtrlEnter, RunSql, pServer, tablesTabVars
    <2>2. TableUntold => TableUntold'
      BY <1>0, <2>1, UntoldKept
    <2> QED  BY <1>1, <2>1, <2>2
  <1>5. CASE CloseConsole \/ LeaveDatabase
    <2>1. /\ UNCHANGED <<tables, tablesQ, pUnsure>>
          /\ \/ pOps' = {[o EXCEPT !.live = o.live /\ o.kind # "query"] : o \in pOps}
             \/ pOps' = {[o EXCEPT !.live = FALSE] : o \in pOps}
      BY <1>5 DEF CloseConsole, LeaveDatabase, pServer, tablesTabVars
    <2>2. TableUntold => TableUntold'
      BY <1>0, <2>1, UntoldKept
    <2> QED  BY <1>1, <2>1, <2>2
  <1>6. CASE \/ \E t \in Queries \cup {""} : TypeSql(t)
             \/ \E i \in DOMAIN history : PickHistory(i)
             \/ FormatSql
    <2>1. UNCHANGED <<tables, tablesQ, pUnsure>> /\ \E t : pOps' = WithText(pOps, t)
      BY <1>6 DEF TypeSql, PickHistory, FormatSql, SetSql, pServer, tablesTabVars
    <2>2. TableUntold => TableUntold'
      BY <1>0, <2>1, UntoldKept
    <2> QED  BY <1>1, <2>1, <2>2
  <1>7. CASE \/ OpenDraft \/ CancelDraft \/ AddColumn \/ \E n \in TableNames : NameTable(n)
             \/ \E i \in DOMAIN draft.columns :
                   \/ RemoveColumn(i) \/ TogglePK(i) \/ ToggleNullable(i)
                   \/ \E n \in ColNames : NameColumn(i, n)
             \/ ClearHistory
    BY <1>2, <1>7 DEF OpenDraft, CancelDraft, AddColumn, NameTable, RemoveColumn, TogglePK, ToggleNullable,
        NameColumn, EditDraft, ClearHistory, pServer, tablesTabVars, pRequests
  <1>8. ASSUME NEW o \in pOps, HandlePage(o)
        PROVE  ListVouches'
    <2> DEFINE r == [o EXCEPT !.done = TRUE]
    <2>1. o \in PageRequests /\ ~o.done /\ pOps' = (pOps \ {o}) \cup {r} /\ tablesQ' = tablesQ
      BY <1>0, <1>8 DEF HandlePage, tablesTabVars
    <2>2. r.kind = o.kind /\ r.done
      BY <2>1 DEF PageRequests
    <2> HIDE DEF r
    <2>3. CASE o.kind = "create"
      BY <2>1, <2>2, <2>3 DEF ListVouches, TableUntold
    <2>4. CASE o.kind # "create"
      <3>1. pUnsure' = (pUnsure \/ tables' # tables)
        BY <1>8, <2>4 DEF HandlePage
      <3>2. (\E p \in pOps : p.kind = "create" /\ p.done) => \E p \in pOps' : p.kind = "create" /\ p.done
        BY <2>1
      <3>3. CASE tables' # tables
        BY <3>1, <3>3 DEF ListVouches, TableUntold
      <3>4. CASE tables' = tables
        BY <1>1, <2>1, <3>1, <3>2, <3>4 DEF TableUntold
      <3> QED  BY <3>3, <3>4
    <2> QED  BY <2>3, <2>4
  <1>9. ASSUME NEW o \in pOps, TableCreated(o)
        PROVE  ListVouches'
    <2>1. tablesQ' = Invalidate(tablesQ, pTab # "away") /\ tables' = tables
      BY <1>9 DEF TableCreated, pServer
    <2>2. (pTab # "away") \in BOOLEAN
      OBVIOUS
    <2>3. Vouched(tablesQ', {tables})
      BY <1>0, <2>1, <2>2, InvalidateVouched
    <2> QED  BY <2>1, <2>3 DEF ListVouches, Vouched, Fresh
  <1>10. ASSUME NEW o \in pOps, QueryAnswered(o) \/ FailPage(o)
         PROVE  ListVouches'
    <2>1. /\ UNCHANGED <<tables, tablesQ>> /\ pOps' = pOps \ {o}
          /\ (o.kind = "create" /\ o.done => pUnsure') /\ (pUnsure => pUnsure')
      <3>1. CASE QueryAnswered(o)
        <4>1. /\ o.kind = "query" /\ pOps' = pOps \ {o} /\ UNCHANGED <<pServer, tablesTabVars>>
          BY <3>1 DEF QueryAnswered
        <4>2. o.kind # "create"
          BY <4>1
        <4> QED  BY <4>1, <4>2 DEF pServer, tablesTabVars
      <3>2. CASE FailPage(o)
        <4>1. /\ pUnsure' = (pUnsure \/ (o.kind = "create" /\ o.done)) /\ pOps' = pOps \ {o}
              /\ UNCHANGED <<tables, tablesTabVars>>
          BY <3>2 DEF FailPage
        <4> QED  BY <4>1, Zenon DEF tablesTabVars
      <3> QED  BY <1>10, <3>1, <3>2
    <2>2. TableUntold => TableUntold'
      BY <2>1 DEF TableUntold
    <2> QED  BY <1>1, <2>1, <2>2
  <1>11. CASE ReadTables
    <2>1. tablesQ' = Read(tablesQ, tables) /\ tables' = tables
      BY <1>11 DEF ReadTables
    <2>2. Vouched(tablesQ', {tables})
      BY <1>0, <2>1, ReadVouched
    <2> QED  BY <2>1, <2>2 DEF ListVouches, Vouched, Fresh
  <1>12. CASE TablesArrive
    <2>1. tablesQ.fetch = "read" /\ tablesQ' = Arrive(tablesQ) /\ UNCHANGED <<tables, pUnsure, pOps>>
      BY <1>12 DEF TablesArrive, pServer, pRequests
    <2>2. Vouched(tablesQ, {tables}) => Vouched(tablesQ', {tables})
      BY <1>0, <2>1, ArriveVouched
    <2> QED  BY <1>1, <2>1, <2>2 DEF TableUntold
  <1>13. CASE TablesFail
    <2>1. tablesQ' = FetchFails(tablesQ) /\ UNCHANGED <<tables, pUnsure, pOps>>
      BY <1>13 DEF TablesFail, pServer, pRequests
    <2>2. Vouched(tablesQ', {tables})
      BY <1>0, <2>1, FetchFailsVouched
    <2> QED  BY <1>1, <2>1, <2>2 DEF TableUntold
  <1>14. CASE ColumnsFetched \/ ColumnsNotFetched
    BY <1>2, <1>14 DEF ColumnsFetched, ColumnsNotFetched, pServer, pRequests
  \* Changed by others: nobody told the page.
  <1>15. CASE OthersChangeTables
    <2>1. pUnsure'
      BY <1>15 DEF OthersChangeTables
    <2> QED  BY <2>1 DEF ListVouches, TableUntold
  <1>16. CASE UNCHANGED pageVars
    BY <1>2, <1>16 DEF pageVars
  <1> QED
    BY <1>3, <1>4, <1>5, <1>6, <1>7, <1>8, <1>9, <1>10, <1>11, <1>12, <1>13, <1>14, <1>15, <1>16
    DEF DatabasePageNext

-----------------------------------------------------------------------------
(* The theorems about the page of a database *)

DatabaseInv == PageInv /\ ListVouches

LEMMA DatabaseInvInit == DatabasePageInit => DatabaseInv
  <1> SUFFICES ASSUME DatabasePageInit PROVE DatabaseInv
    OBVIOUS
  <1>1. /\ pPlan \in PagePlans /\ tables = pPlan.holds
        /\ tablesQ = Unasked /\ allColumnsQ = Unasked
        /\ pTab = "away" /\ draft = NewDraft /\ pUnsure = FALSE
        /\ sql = "" /\ result = NoQuery /\ history = <<>>
        /\ pOps = {} /\ pCount = [ops |-> 0, others |-> 0, visits |-> 0]
    BY DEF DatabasePageInit
  <1>2. tables \subseteq TableNames /\ pPlan.ops \in Nat /\ pPlan.visits \in Nat
    BY <1>1, PagePlansAssumption
  <1>3. ListTypes
    <2>1. Unasked \in Entries(SUBSET TableNames) /\ Unasked.fetch # "read"
      BY DEF Unasked, Entries
    <2> QED  BY <1>1, <1>2, <2>1 DEF ListTypes
  <1>4. PageTypes
    <2>1. 0 \in 0..pPlan.ops /\ 0 \in 0..pPlan.visits
      BY <1>2
    <2> QED  BY <1>1, <2>1 DEF PageTypes
  <1>5. DraftTypes
    BY <1>1, NewDraftTyped DEF DraftTypes
  <1>6. ConsoleTypes
    <2>1. Len(<<>>) = 0 /\ 0 <= HistoryLimit
      BY BoundsAssumption
    <2> QED  BY <1>1, <2>1, EmptySeq DEF ConsoleTypes
  <1>7. ListVouches
    BY <1>1 DEF ListVouches, Vouched, Fresh, Unasked
  <1> QED  BY <1>1, <1>3, <1>4, <1>5, <1>6, <1>7 DEF DatabaseInv, PageInv

LEMMA DatabaseInvStep == DatabaseInv /\ [DatabasePageNext]_pageVars => DatabaseInv'
  BY ListTypesStep, PageTypesStep, DraftTypesStep, PageRequestsStep, ConsoleStep, ListVouchesStep
  DEF DatabaseInv, PageInv

LEMMA GoodColumns ==
    ASSUME NEW cols \in Seq(GoodDraft)
    PROVE  cols \in Seq(ColumnDraft) /\ WellFormedTable(cols)
  <1>1. GoodDraft \subseteq ColumnDraft /\ \A c \in GoodDraft : c.pk => ~c.nullable
    BY DEF GoodDraft
  <1>2. cols \in Seq(ColumnDraft)
    BY <1>1, SeqMonotonic
  <1>3. \A i \in DOMAIN cols : cols[i] \in GoodDraft
    BY LenProperties, ElementOfSeq
  <1> QED  BY <1>1, <1>2, <1>3 DEF WellFormedTable

\* The tables, the list, the dialog and the console have their types.
THEOREM DatabaseTypeCorrect == DatabasePageSpec => []DatabasePageTypeOK
  <1>1. DatabaseInv => DatabasePageTypeOK
    <2> SUFFICES ASSUME DatabaseInv PROVE DatabasePageTypeOK
      OBVIOUS
    <2>1. ListTypes /\ PageTypes /\ DraftTypes /\ ConsoleTypes /\ pOps \subseteq PageRequests
      BY DEF DatabaseInv, PageInv
    <2>2. draft.columns \in Seq(ColumnDraft)
      BY <2>1, GoodColumns DEF DraftTypes
    <2>3. \A o \in pOps : o.kind \in {"create", "query"}
      BY <2>1 DEF PageRequests
    <2> QED
      BY <2>1, <2>2, <2>3 DEF DatabasePageTypeOK, ListTypes, PageTypes, DraftTypes, ConsoleTypes, HistoryEntry
  <1> QED  BY <1>1, DatabaseInvInit, DatabaseInvStep, PTL DEF DatabasePageSpec

\* Whatever is ticked, added, removed and submitted: no column of a key is
\* nullable, and a request has columns, all of them named.
THEOREM DraftsWellFormed == DatabasePageSpec => []TablesWellFormed
  <1>1. DatabaseInv => TablesWellFormed
    <2> SUFFICES ASSUME DatabaseInv PROVE TablesWellFormed
      OBVIOUS
    <2>1. DraftTypes /\ pOps \subseteq PageRequests
      BY DEF DatabaseInv, PageInv
    <2>2. WellFormedTable(draft.columns) /\ draft.columns # <<>>
      <3>1. draft.columns \in Seq(GoodDraft) /\ Len(draft.columns) # 0
        <4>1. draft.columns \in Seq(GoodDraft) /\ Len(draft.columns) \in 1..MaxDrafts
          BY <2>1 DEF DraftTypes
        <4>2. MaxDrafts \in Nat
          BY BoundsAssumption
        <4> QED  BY <4>1, <4>2
      <3> QED  BY <3>1, GoodColumns, EmptySeq
    <2>3. ASSUME NEW o \in pOps, o.kind = "create"
          PROVE  /\ WellFormedTable(o.columns) /\ o.columns # <<>>
                 /\ \A i \in DOMAIN o.columns : o.columns[i].name # ""
      <3>1. o.columns \in Seq(GoodNamed) /\ o.columns # <<>>
        BY <2>1, <2>3 DEF PageRequests
      <3>2. GoodNamed \subseteq GoodDraft /\ \A c \in GoodNamed : c.name # ""
        BY DEF GoodNamed
      <3>3. \A i \in DOMAIN o.columns : o.columns[i] \in GoodNamed
        BY <3>1, LenProperties, ElementOfSeq
      <3>4. o.columns \in Seq(GoodDraft)
        BY <3>1, <3>2, SeqMonotonic
      <3> QED  BY <3>1, <3>2, <3>3, <3>4, GoodColumns
    <2> QED  BY <2>2, <2>3 DEF TablesWellFormed
  <1> QED  BY <1>1, DatabaseInvInit, DatabaseInvStep, PTL DEF DatabasePageSpec

\* A list that counts as up to date shows the tables, however requests,
\* answers and visits interleave; except, until the tables are read again,
\* for changes that the page is not told of (a statement of the console,
\* other users, a lost answer), and for a list on its way when a table was
\* created and not asked anew.
THEOREM TablesSynced == DatabasePageSpec => []TablesInSync
  <1>1. DatabaseInv => TablesInSync
    BY DEF DatabaseInv, ListVouches, TableUntold, Vouched, TablesInSync
  <1> QED  BY <1>1, DatabaseInvInit, DatabaseInvStep, PTL DEF DatabasePageSpec

-----------------------------------------------------------------------------
(* One table.  The kinds of steps, and what each kind leaves alone.        *)

Browses ==
    \/ EnterTable \/ LeaveTable \/ SwitchTab \/ RefreshRows \/ RefreshColumns
    \/ \E n \in SortNames : SortBy(n)
    \/ \E step \in {-1, 1} : TurnPage(step)

UsesDialog ==
    \/ OpenInsert \/ CancelInsert \/ CancelEdit \/ CancelDelete \/ OpenAdd \/ CancelAdd \/ CancelAlter
    \/ \E n \in Names, v \in TypedTexts : TypeInsert(n, v) \/ TypeEdit(n, v)
    \/ \E i \in 1..PageSize : OpenEdit(i) \/ OpenDelete(i)
    \/ \E f \in ColumnForms : FillAdd(f) \/ FillAlter(f)
    \/ \E c \in Range(ShownColumns) : OpenAlter(c)

Sends ==
    \/ SaveInsert \/ SaveEdit \/ ConfirmDelete \/ SaveAdd \/ SaveAlter
    \/ \E c \in Range(ShownColumns) : DropColumn(c)

Serves(o) ==
    \/ HandleInsert(o) \/ HandleUpdate(o) \/ HandleDelete(o)
    \/ HandleAdd(o) \/ HandleDrop(o) \/ HandleStatement(o)

Fetches ==
    \/ \E k \in PageKeys : ReadRows(k) \/ RowsArrive(k) \/ RowsFail(k)
    \/ ReadColumns \/ ColumnsArrive \/ ColumnsFail

LEMMA TableStep ==
    ASSUME [TableNext]_tableVars
    PROVE  \/ Browses \/ UsesDialog \/ Sends \/ Fetches \/ UNCHANGED tableVars
           \/ \E o \in tOps : Serves(o) \/ SucceedT(o) \/ FailT(o)
           \/ \E i \in DOMAIN tRows : OthersRemove(i)
  BY Zenon DEF TableNext, Browses, UsesDialog, Sends, Fetches, Serves

LEMMA BrowsesFrame ==
    ASSUME Browses
    PROVE  UNCHANGED <<tCols, tRows, tGhost, tPlan>>
  BY DEF Browses, EnterTable, LeaveTable, SwitchTab, RefreshRows, RefreshColumns, SortBy, TurnPage, ShowPage, server

LEMMA UsesDialogFrame ==
    ASSUME UsesDialog
    PROVE  /\ UNCHANGED <<tCols, tRows, tGhost, tPlan, tOps, tCount, view, rowQ>>
           /\ colQ' = colQ \/ colQ' = Observe(colQ)
  <1>1. CASE OpenInsert \/ \E i \in 1..PageSize : OpenEdit(i) \/ OpenDelete(i)
    BY <1>1 DEF OpenInsert, OpenEdit, OpenDelete, server, requests, queries
  <1>2. CASE CancelInsert \/ CancelEdit \/ CancelDelete \/ OpenAdd \/ CancelAdd \/ CancelAlter
    BY <1>2 DEF CancelInsert, CancelEdit, CancelDelete, OpenAdd, CancelAdd, CancelAlter, server, requests, queries
  <1>3. CASE \/ \E n \in Names, v \in TypedTexts : TypeInsert(n, v) \/ TypeEdit(n, v)
             \/ \E f \in ColumnForms : FillAdd(f) \/ FillAlter(f)
             \/ \E c \in Range(ShownColumns) : OpenAlter(c)
    BY <1>3 DEF TypeInsert, TypeEdit, FillAdd, FillAlter, OpenAlter, server, requests, queries
  <1> QED  BY <1>1, <1>2, <1>3 DEF UsesDialog

LEMMA SendsFrame ==
    ASSUME Sends
    PROVE  /\ UNCHANGED <<tCols, tRows, tGhost, tPlan, view, colQ, rowQ,
                          insertBox, editBox, deleteBox, addBox, alterBox>>
           /\ tCount.ops < tPlan.ops /\ tCount' = [tCount EXCEPT !.ops = @ + 1]
  BY DEF Sends, SaveInsert, SaveEdit, ConfirmDelete, SaveAdd, SaveAlter, DropColumn, SendT, server, queries, boxes

LEMMA ServesFrame ==
    ASSUME NEW o, Serves(o)
    PROVE  UNCHANGED <<tPlan, tCount, view, colQ, rowQ, insertBox, editBox, deleteBox, addBox, alterBox>>
  BY DEF Serves, HandleInsert, HandleUpdate, HandleDelete, HandleAdd, HandleDrop, HandleStatement, queries, boxes

LEMMA FetchesFrame ==
    ASSUME Fetches
    PROVE  UNCHANGED <<tCols, tRows, tGhost, tPlan, tOps, tCount, view, insertBox, deleteBox, addBox, alterBox>>
  BY DEF Fetches, ReadRows, RowsArrive, RowsFail, ReadColumns, ColumnsArrive, ColumnsFail, server, requests, boxes

-----------------------------------------------------------------------------
(* The types of the table, the cached rows and columns, the dialogs and    *)
(* the requests.                                                           *)

Columns == {c \in ColumnInfos : c.name # ""}
ColumnLists ==
    {cols \in Seq(Columns) : \A i, j \in DOMAIN cols : i # j => cols[i].name # cols[j].name}
RowsOf(n) == [1..n -> Values]
Pages ==
    {p \in [names : Seq(Names), total : Nat, rows : Seq(Row)] :
        \A i \in DOMAIN p.rows : DOMAIN p.rows[i] = DOMAIN p.names}
Pairs == Names \X Values

EditBoxes ==
    {b \in [open : BOOLEAN, row : Row \cup {NoRow}, names : Seq(Names), form : [Names -> Values],
            typed : [Names -> Values], reseeded : BOOLEAN] :
        b.open => b.row \in Row /\ DOMAIN b.row = DOMAIN b.names}

StatementNames == {"rename", "type", "nullable", "default"}

TableRequests ==
    {o \in [kind : {"insert", "update", "delete", "add", "drop", "alter"}, id : Nat,
            set : SUBSET Pairs, where : SUBSET Pairs, column : ColumnInfos, form : ColumnInfos,
            stmts : Seq(StatementNames), from : EditBoxes, names : Seq(Names),
            live : BOOLEAN, done : BOOLEAN] :
        o.kind \in {"add", "alter"} => o.form.name # ""}

ServerTypes ==
    /\ tCols \in ColumnLists /\ tRows \in Seq(RowsOf(Len(tCols)))
    /\ tGhost \in [unsure : BOOLEAN, reshaped : BOOLEAN, removed : BOOLEAN]

ColumnQueryTypes ==
    /\ colQ \in Entries(ColumnLists)
    /\ colQ.fetch = "read" => colQ.answer \in ColumnLists

RowQueryTypes ==
    /\ rowQ \in [PageKeys -> Entries(Pages)]
    /\ \A k \in PageKeys : rowQ[k].fetch = "read" => rowQ[k].answer \in Pages

ViewTypes ==
    view \in [tab : {"away", "data", "structure"}, page : 0..LastRowPage,
              sort : [by : SortNames \cup {""}, dir : {"asc", "desc"}]]

BoxTypes ==
    /\ insertBox \in [open : BOOLEAN, form : [Names -> Values]]
    /\ editBox \in EditBoxes
    /\ deleteBox \in (SUBSET Pairs) \cup {NoRow}
    /\ addBox \in [open : BOOLEAN, form : ColumnInfos]
    /\ alterBox \in [column : Columns \cup {NoColumn}, form : ColumnInfos]

CountTypes ==
    /\ tPlan \in TablePlans
    /\ tCount \in [ops : 0..tPlan.ops, others : Nat, visits : Nat]

TableTypes ==
    /\ ServerTypes /\ ColumnQueryTypes /\ RowQueryTypes /\ ViewTypes /\ BoxTypes /\ CountTypes
    /\ tOps \subseteq TableRequests

LEMMA CellFacts ==
    /\ NullValue \in Values /\ EmptyText \in Values /\ Undefined \in Values /\ NullValue # EmptyText
    /\ Values \subseteq Int /\ \A v \in Values : Rank(v) \in Int
    /\ TypedTexts \subseteq Values /\ NullValue \notin TypedTexts
    /\ \A v \in Values : TextOf(v) \in Values /\ ParsedValue(v) \in Values
  <1>1. NullValue \in Values /\ EmptyText \in Values /\ Undefined \in Values
    BY DEF Values
  <1>2. NullValue # EmptyText /\ NullValue \notin Cells
    BY CellAssumption
  <1>3. Cells \subseteq Int /\ NullValue \in Int /\ EmptyText \in Int /\ Undefined \in Int
    BY CellAssumption
  <1>4. Values \subseteq Int
    BY <1>3 DEF Values
  <1>5. \A v \in Values : Rank(v) \in Int
    BY <1>4 DEF Rank
  <1>6. TypedTexts \subseteq Cells \cup {EmptyText}
    BY PageSizeAssumption
  <1>7. TypedTexts \subseteq Values /\ NullValue \notin TypedTexts
    BY <1>2, <1>6 DEF Values
  <1>8. \A v \in Values : TextOf(v) \in Values
    <2>1. \A v \in Cells : StringOf[v] \in Values
      BY CellAssumption DEF Values
    <2> QED  BY <1>1, <2>1 DEF TextOf
  <1>9. \A v \in Values : ParsedValue(v) \in Values
    BY <1>1 DEF ParsedValue
  <1> QED  BY <1>1, <1>2, <1>4, <1>5, <1>7, <1>8, <1>9

\* A list of columns: its names, and the place of each.
LEMMA ColumnListFacts ==
    ASSUME NEW cols \in ColumnLists
    PROVE  /\ cols \in Seq(Columns) /\ Len(cols) \in Nat /\ DOMAIN cols = 1..Len(cols)
           /\ \A i \in DOMAIN cols : cols[i] \in Columns /\ cols[i] \in ColumnInfos /\ cols[i].name \in Names
           /\ \A i, j \in DOMAIN cols : cols[i].name = cols[j].name => i = j
           /\ Range(cols) \subseteq Columns
           /\ ColumnNamesOf(cols) \in Seq(Names) /\ DOMAIN ColumnNamesOf(cols) = DOMAIN cols
           /\ \A i \in DOMAIN cols : HasColumn(cols, cols[i].name) /\ Position(cols, cols[i].name) = i
           /\ \A n : HasColumn(cols, n) => Position(cols, n) \in DOMAIN cols /\ cols[Position(cols, n)].name = n
  <1>1. cols \in Seq(Columns) /\ \A i, j \in DOMAIN cols : cols[i].name = cols[j].name => i = j
    BY DEF ColumnLists
  <1>2. Len(cols) \in Nat /\ DOMAIN cols = 1..Len(cols) /\ \A i \in DOMAIN cols : cols[i] \in Columns
    BY <1>1, LenProperties, ElementOfSeq
  <1>3. \A c \in Columns : c \in ColumnInfos /\ c.name \in Names
    BY DEF Columns, ColumnInfos
  <1>4. \A i \in DOMAIN cols : cols[i] \in Columns /\ cols[i] \in ColumnInfos /\ cols[i].name \in Names
    BY <1>2, <1>3
  <1>5. Range(cols) \subseteq Columns
    BY <1>4 DEF Range
  <1>6. ColumnNamesOf(cols) \in Seq(Names) /\ DOMAIN ColumnNamesOf(cols) = DOMAIN cols
    <2>1. ColumnNamesOf(cols) \in [1..Len(cols) -> Names]
      BY <1>2, <1>4 DEF ColumnNamesOf
    <2>2. Seq(Names) = UNION {[1..n -> Names] : n \in Nat}
      BY SeqDef
    <2> QED  BY <1>2, <2>1, <2>2
  <1>7. \A n : HasColumn(cols, n) => Position(cols, n) \in DOMAIN cols /\ cols[Position(cols, n)].name = n
    BY DEF HasColumn, Position
  <1>8. \A i \in DOMAIN cols : HasColumn(cols, cols[i].name) /\ Position(cols, cols[i].name) = i
    <2>1. TAKE i \in DOMAIN cols
    <2>2. HasColumn(cols, cols[i].name)
      BY DEF HasColumn
    <2> QED  BY <1>1, <1>7, <2>2
  <1> QED  BY <1>1, <1>2, <1>4, <1>5, <1>6, <1>7, <1>8

\* A function on 1..n is a sequence.
LEMMA FunctionIsSeq ==
    ASSUME NEW S, NEW n \in Nat, NEW f \in [1..n -> S]
    PROVE  f \in Seq(S) /\ Len(f) = n /\ DOMAIN f = 1..n
  <1>1. Seq(S) = UNION {[1..m -> S] : m \in Nat}
    BY SeqDef
  <1>2. f \in Seq(S)
    BY <1>1
  <1>3. DOMAIN f = 1..n /\ DOMAIN f = 1..Len(f) /\ Len(f) \in Nat
    BY <1>2, LenProperties
  <1> QED  BY <1>2, <1>3

-----------------------------------------------------------------------------
(* Sorting: how many come before an element of a finite set, in a strict   *)
(* order of its elements, is different for each of them, so that for each  *)
(* number below the size there is an element.                              *)

LEMMA CountTo ==
    ASSUME NEW n \in Nat
    PROVE  IsFiniteSet(1..n) /\ Cardinality(1..n) = n
  <1>1. IsFiniteSet(1..n) /\ Cardinality(1..n) = IF 1 > n THEN 0 ELSE n - 1 + 1
    BY FS_Interval
  <1> QED  BY <1>1

LEMMA Ranked ==
    ASSUME NEW D, IsFiniteSet(D), NEW before \in [D -> SUBSET D],
           \A g \in D : g \notin before[g],
           \A g, h \in D : g # h => \/ h \in before[g] /\ before[h] \subseteq before[g]
                                    \/ g \in before[h] /\ before[g] \subseteq before[h]
    PROVE  \A n \in 1..Cardinality(D) : \E g \in D : Cardinality(before[g]) = n - 1
  <1> DEFINE N == Cardinality(D)
             place == [g \in D |-> Cardinality(before[g]) + 1]
  <1>1. N \in Nat
    BY FS_CardinalityType
  <1>2. ASSUME NEW g \in D
        PROVE  IsFiniteSet(before[g]) /\ Cardinality(before[g]) \in Nat /\ Cardinality(before[g]) < N
    <2>1. before[g] \in SUBSET D /\ before[g] # D
      OBVIOUS
    <2>2. /\ IsFiniteSet(before[g]) /\ Cardinality(before[g]) <= N
          /\ N = Cardinality(before[g]) => D = before[g]
      BY <2>1, FS_Subset
    <2>3. Cardinality(before[g]) \in Nat
      BY <2>2, FS_CardinalityType
    <2> QED  BY <1>1, <2>1, <2>2, <2>3
  <1>3. ASSUME NEW g \in D, NEW h \in D, h \in before[g], before[h] \subseteq before[g]
        PROVE  Cardinality(before[h]) < Cardinality(before[g])
    <2>1. before[h] \in SUBSET before[g] /\ before[h] # before[g]
      BY <1>3
    <2>2. /\ Cardinality(before[h]) <= Cardinality(before[g])
          /\ Cardinality(before[g]) = Cardinality(before[h]) => before[g] = before[h]
      BY <1>2, <2>1, FS_Subset
    <2>3. Cardinality(before[h]) \in Nat /\ Cardinality(before[g]) \in Nat
      BY <1>2
    <2> QED  BY <2>1, <2>2, <2>3
  <1>4. place \in [D -> 1..N]
    <2>1. \A g \in D : Cardinality(before[g]) + 1 \in 1..N
      BY <1>1, <1>2
    <2> QED  BY <2>1
  <1>5. \A g, h \in D : place[g] = place[h] => g = h
    <2>1. SUFFICES ASSUME NEW g \in D, NEW h \in D, g # h
                   PROVE  place[g] # place[h]
      OBVIOUS
    <2>2. Cardinality(before[g]) # Cardinality(before[h])
      <3>1. Cardinality(before[h]) < Cardinality(before[g]) \/ Cardinality(before[g]) < Cardinality(before[h])
        BY <1>3, <2>1
      <3>2. Cardinality(before[h]) \in Nat /\ Cardinality(before[g]) \in Nat
        BY <1>2
      <3> QED  BY <3>1, <3>2
    <2>3. Cardinality(before[h]) \in Nat /\ Cardinality(before[g]) \in Nat
      BY <1>2
    <2> QED  BY <2>2, <2>3
  <1>6. place \in Injection(D, 1..N)
    BY <1>4, <1>5, Fun_IsInj
  <1>7. IsFiniteSet(1..N) /\ Cardinality(1..N) = N
    BY <1>1, CountTo
  <1>8. place \in Surjection(D, 1..N)
    BY <1>6, <1>7, FS_Injection
  <1>9. \A n \in 1..N : \E g \in D : place[g] = n
    BY <1>8 DEF Surjection
  <1>10. ASSUME NEW n \in 1..N
         PROVE  \E g \in D : Cardinality(before[g]) = n - 1
    <2>1. PICK g \in D : place[g] = n
      BY <1>9
    <2>2. Cardinality(before[g]) + 1 = n /\ Cardinality(before[g]) \in Nat
      BY <1>2, <2>1
    <2>3. Cardinality(before[g]) = n - 1
      BY <2>2
    <2> QED  BY <2>3
  <1> QED  BY <1>10

LEMMA SortedTyped ==
    ASSUME NEW cols \in ColumnLists, NEW rows \in Seq(RowsOf(Len(cols))), NEW s
    PROVE  Sorted(cols, rows, s) \in Seq(RowsOf(Len(cols))) /\ Len(Sorted(cols, rows, s)) = Len(rows)
  <1>1. CASE ~HasColumn(cols, s.by)
    BY <1>1 DEF Sorted
  <1>2. CASE HasColumn(cols, s.by)
    <2> DEFINE i == Position(cols, s.by)
               D == DOMAIN rows
               value == [g \in D |-> Rank(rows[g][i])]
               Before(h) == {g \in D : \/ Precedes(rows[g][i], rows[h][i], s.dir)
                                       \/ g < h /\ Rank(rows[g][i]) = Rank(rows[h][i])}
               before == [h \in D |-> Before(h)]
               other == [n \in D |-> rows[CHOOSE h \in D : Cardinality(Before(h)) = n - 1]]
    <2>1. Len(rows) \in Nat /\ D = 1..Len(rows) /\ \A g \in D : rows[g] \in RowsOf(Len(cols))
      BY LenProperties, ElementOfSeq
    <2>2. i \in 1..Len(cols)
      BY <1>2, ColumnListFacts
    <2>3. \A g \in D : rows[g][i] \in Values
      BY <2>1, <2>2 DEF RowsOf
    <2> HIDE DEF i
    <2>4. value \in [D -> Int]
      BY <2>3, CellFacts
    <2>5. ASSUME NEW g \in D, NEW h \in D
          PROVE  g \in before[h] <=> \/ (s.dir = "asc" /\ value[g] < value[h]) \/ (s.dir # "asc" /\ value[g] > value[h])
                                    \/ (g < h /\ value[g] = value[h])
      <3>1. value[g] = Rank(rows[g][i]) /\ value[h] = Rank(rows[h][i])
        OBVIOUS
      <3>2. g \in before[h] <=> \/ Precedes(rows[g][i], rows[h][i], s.dir)
                                \/ g < h /\ Rank(rows[g][i]) = Rank(rows[h][i])
        OBVIOUS
      <3> DEFINE a == value[g]
                 b == value[h]
      <3>3. Precedes(rows[g][i], rows[h][i], s.dir) <=> (s.dir = "asc" /\ a < b) \/ (s.dir # "asc" /\ a > b)
        BY <3>1 DEF Precedes
      <3>4. Rank(rows[g][i]) = Rank(rows[h][i]) <=> a = b
        BY <3>1
      <3> HIDE DEF before, value
      <3> QED  BY <3>2, <3>3, <3>4, Zenon
    <2>6. before \in [D -> SUBSET D]
      OBVIOUS
    <2> HIDE DEF before, value
    <2>7. \A g \in D : g \notin before[g]
      BY <2>1, <2>4, <2>5
    <2>8. ASSUME NEW g \in D, NEW h \in D, g # h
          PROVE  \/ h \in before[g] /\ before[h] \subseteq before[g]
                 \/ g \in before[h] /\ before[g] \subseteq before[h]
      <3>1. \A x \in D : x \in Int /\ value[x] \in Int
        BY <2>1, <2>4
      <3>2. h \in before[g] \/ g \in before[h]
        <4> DEFINE a == value[g]
                   b == value[h]
        <4>1. a \in Int /\ b \in Int /\ g \in Int /\ h \in Int
          BY <3>1
        <4>2. g \in before[h] <=> (s.dir = "asc" /\ a < b) \/ (s.dir # "asc" /\ a > b) \/ (g < h /\ a = b)
          BY <2>5, Zenon
        <4>3. h \in before[g] <=> (s.dir = "asc" /\ b < a) \/ (s.dir # "asc" /\ b > a) \/ (h < g /\ b = a)
          BY <2>5, Zenon
        <4> HIDE DEF a, b
        <4> QED  BY <2>8, <4>1, <4>2, <4>3
      <3>3. \A x, y, z \in D : x \in before[y] /\ y \in before[z] => x \in before[z]
        <4>1. TAKE x, y, z \in D
        <4> DEFINE a == value[x]
                   b == value[y]
                   c == value[z]
        <4>2. a \in Int /\ b \in Int /\ c \in Int /\ x \in Int /\ y \in Int /\ z \in Int
          BY <3>1
        <4>3. x \in before[y] <=> (s.dir = "asc" /\ a < b) \/ (s.dir # "asc" /\ a > b) \/ (x < y /\ a = b)
          BY <2>5, Zenon
        <4>4. y \in before[z] <=> (s.dir = "asc" /\ b < c) \/ (s.dir # "asc" /\ b > c) \/ (y < z /\ b = c)
          BY <2>5, Zenon
        <4>5. x \in before[z] <=> (s.dir = "asc" /\ a < c) \/ (s.dir # "asc" /\ a > c) \/ (x < z /\ a = c)
          BY <2>5, Zenon
        <4> HIDE DEF a, b, c
        <4> QED  BY <4>2, <4>3, <4>4, <4>5
      <3>4. \A x, y \in D : x \in before[y] => before[x] \subseteq before[y]
        BY <2>6, <3>3
      <3> QED  BY <3>2, <3>4
    <2>9. IsFiniteSet(D) /\ Cardinality(D) = Len(rows)
      <3>1. IsFiniteSet(1..Len(rows)) /\ Cardinality(1..Len(rows)) = Len(rows)
        BY <2>1, CountTo
      <3> QED  BY <2>1, <3>1
    <2>10. \A n \in D : \E h \in D : Cardinality(before[h]) = n - 1
      <3>1. \A n \in 1..Cardinality(D) : \E h \in D : Cardinality(before[h]) = n - 1
        <4> HIDE DEF D
        <4> QED  BY <2>6, <2>7, <2>8, <2>9, Ranked
      <3> QED  BY <2>1, <2>9, <3>1
    <2>11. other \in [1..Len(rows) -> RowsOf(Len(cols))]
      <3>1. \A h \in D : before[h] = Before(h)
        BY DEF before
      <3>2. \A n \in D : \E h \in D : Cardinality(Before(h)) = n - 1
        <4> HIDE DEF Before
        <4> QED  BY <2>10, <3>1
      <3> HIDE DEF Before
      <3>3. \A n \in D : (CHOOSE h \in D : Cardinality(Before(h)) = n - 1) \in D
        BY <3>2
      <3> QED  BY <2>1, <3>3
    <2>12. Sorted(cols, rows, s) = other
      BY <1>2 DEF Sorted, i
    <2> QED  BY <2>1, <2>11, <2>12, FunctionIsSeq
  <1> QED  BY <1>1, <1>2


\* What follows a row of the table or of an answer.
LEMMA RowFacts ==
    ASSUME NEW n \in Nat, NEW r \in RowsOf(n)
    PROVE  r \in Row /\ Len(r) = n /\ DOMAIN r = 1..n /\ \A i \in 1..n : r[i] \in Values
  <1>1. r \in [1..n -> Values]
    BY DEF RowsOf
  <1>2. r \in Seq(Values) /\ Len(r) = n /\ DOMAIN r = 1..n
    BY <1>1, FunctionIsSeq
  <1> QED  BY <1>1, <1>2 DEF Row

\* A page of the rows has the table's columns.
LEMMA PageInTyped ==
    ASSUME NEW cols \in ColumnLists, NEW rows \in Seq(RowsOf(Len(cols))), NEW k \in PageKeys
    PROVE  PageIn(cols, rows, k) \in Pages /\ PageIn(cols, rows, k).total = Len(rows)
  <1> DEFINE L == Len(cols)
             s == Sorted(cols, rows, k.sort)
             a == k.page * PageSize
             b == (k.page + 1) * PageSize
             n == IF b < Len(rows) THEN b ELSE Len(rows)
             part == SubSeq(s, a + 1, n)
             page == PageIn(cols, rows, k)
  <1>1. s \in Seq(RowsOf(L)) /\ Len(s) = Len(rows) /\ Len(rows) \in Nat
    BY SortedTyped, LenProperties
  <1>2. a \in Nat /\ b \in Nat
    <2>1. LastRowPage \in Nat /\ PageSize \in Nat
      BY PageSizeAssumption
    <2>2. k.page \in 0..LastRowPage
      BY DEF PageKeys
    <2>3. k.page \in Nat
      BY <2>1, <2>2
    <2> QED  BY <2>1, <2>3
  <1>3. L \in Nat /\ DOMAIN cols = 1..L /\ ColumnNamesOf(cols) \in Seq(Names)
        /\ DOMAIN ColumnNamesOf(cols) = 1..L
    BY ColumnListFacts
  <1>4. page = [names |-> ColumnNamesOf(cols), total |-> Len(rows), rows |-> part]
    BY DEF PageIn
  <1> HIDE DEF L, s, a, b, page
  <1>5. \A i \in (a + 1)..n : s[i] \in RowsOf(L)
    <2>1. TAKE i \in (a + 1)..n
    <2>2. i \in 1..Len(s)
      BY <1>1, <1>2
    <2> QED  BY <1>1, <2>2, LenProperties
  <1>6. n \in Int /\ a + 1 \in Int
    BY <1>1, <1>2
  <1> HIDE DEF n
  <1>7. part \in Seq(RowsOf(L))
    BY <1>5, <1>6, SubSeqProperties
  <1> HIDE DEF part
  <1>8. \A i \in DOMAIN part : part[i] \in Row /\ DOMAIN part[i] = 1..L
    <2>1. TAKE i \in DOMAIN part
    <2>2. part[i] \in RowsOf(L)
      BY <1>7, LenProperties, ElementOfSeq
    <2> QED  BY <1>3, <2>2, RowFacts
  <1>9. part \in Seq(Row)
    <2>1. DOMAIN part = 1..Len(part) /\ Len(part) \in Nat
      BY <1>7, LenProperties
    <2>2. part = [i \in 1..Len(part) |-> part[i]]
      BY <1>7
    <2>3. part \in [1..Len(part) -> Row]
      BY <1>8, <2>1, <2>2
    <2> QED  BY <2>1, <2>3, FunctionIsSeq
  <1>10. page \in Pages
    BY <1>1, <1>3, <1>4, <1>8, <1>9 DEF Pages
  <1> QED  BY <1>4, <1>10 DEF page


-----------------------------------------------------------------------------
(* The types of the table, handler by handler.  What a handler removes is  *)
(* noted, else there are no fewer rows than before.                        *)

RowsStay == ~tGhost'.removed => ~tGhost.removed /\ Len(tRows) <= Len(tRows')

\* What a sequence is after one of its elements was removed.
LEMMA RemovedElements ==
    ASSUME NEW S, NEW s \in Seq(S), NEW i \in DOMAIN s
    PROVE  /\ RemoveAt(s, i) \in Seq(S) /\ Len(RemoveAt(s, i)) = Len(s) - 1 /\ Len(s) - 1 \in Nat
           /\ \A j \in 1..(Len(s) - 1) : RemoveAt(s, i)[j] = IF j < i THEN s[j] ELSE s[j + 1]
  <1>1. Len(s) \in Nat /\ DOMAIN s = 1..Len(s) /\ \A j \in 1..Len(s) : s[j] \in S
    BY LenProperties
  <1>2. i \in Nat /\ 1 <= i /\ i <= Len(s)
    BY <1>1
  <1> DEFINE n == Len(s)
             a == SubSeq(s, 1, i - 1)
             b == SubSeq(s, i + 1, n)
  <1>3. a \in Seq(S) /\ Len(a) = i - 1 /\ \A j \in 1..(i - 1) : a[j] = s[j]
    <2>1. \A j \in 1..(i - 1) : s[j] \in S
      BY <1>1, <1>2
    <2>2. 1 \in Int /\ i - 1 \in Int
      BY <1>2
    <2>3. /\ a \in Seq(S) /\ Len(a) = IF 1 <= i - 1 THEN i - 1 - 1 + 1 ELSE 0
          /\ \A j \in 1..(i - 1 - 1 + 1) : a[j] = s[1 + j - 1]
      BY <2>1, <2>2, SubSeqProperties
    <2>4. i - 1 - 1 + 1 = i - 1 /\ (~(1 <= i - 1) => i - 1 = 0) /\ \A j \in 1..(i - 1) : 1 + j - 1 = j
      BY <1>2
    <2> HIDE DEF a
    <2> QED  BY <2>3, <2>4
  <1>4. b \in Seq(S) /\ Len(b) = n - i /\ \A j \in 1..(n - i) : b[j] = s[i + j]
    <2>1. \A j \in (i + 1)..n : s[j] \in S
      BY <1>1, <1>2
    <2>2. i + 1 \in Int /\ n \in Int
      BY <1>1, <1>2
    <2>3. /\ b \in Seq(S) /\ Len(b) = IF i + 1 <= n THEN n - (i + 1) + 1 ELSE 0
          /\ \A j \in 1..(n - (i + 1) + 1) : b[j] = s[i + 1 + j - 1]
      BY <2>1, <2>2, SubSeqProperties
    <2>4. n - (i + 1) + 1 = n - i /\ (~(i + 1 <= n) => n - i = 0) /\ \A j \in 1..(n - i) : i + 1 + j - 1 = i + j
      BY <1>1, <1>2
    <2> HIDE DEF b, n
    <2> QED  BY <2>3, <2>4
  <1>5. RemoveAt(s, i) = a \o b
    BY DEF RemoveAt
  <1> HIDE DEF a, b, n
  <1>6. /\ a \o b \in Seq(S) /\ Len(a \o b) = Len(a) + Len(b)
        /\ \A j \in 1..(Len(a) + Len(b)) : (a \o b)[j] = IF j <= Len(a) THEN a[j] ELSE b[j - Len(a)]
    BY <1>3, <1>4, ConcatProperties
  <1>7. n \in Nat /\ (i - 1) + (n - i) = n - 1 /\ n - 1 \in Nat
    BY <1>1, <1>2 DEF n
  <1>8. ASSUME NEW j \in 1..(n - 1)
        PROVE  (a \o b)[j] = IF j < i THEN s[j] ELSE s[j + 1]
    <2>1. (a \o b)[j] = IF j <= i - 1 THEN a[j] ELSE b[j - (i - 1)]
      BY <1>3, <1>4, <1>6, <1>7
    <2>2. CASE j < i
      <3>1. j <= i - 1 /\ j \in 1..(i - 1)
        BY <1>2, <1>7, <2>2
      <3> QED  BY <1>3, <2>1, <2>2, <3>1
    <2>3. CASE ~(j < i)
      <3>1. ~(j <= i - 1) /\ j - (i - 1) \in 1..(n - i) /\ i + (j - (i - 1)) = j + 1
        BY <1>2, <1>7, <2>3
      <3> QED  BY <1>4, <2>1, <2>3, <3>1
    <2> QED  BY <2>2, <2>3
  <1> QED  BY <1>3, <1>4, <1>5, <1>6, <1>7, <1>8 DEF n

LEMMA ShorterRow ==
    ASSUME NEW n \in Nat, NEW r \in RowsOf(n), NEW i \in 1..n
    PROVE  RemoveAt(r, i) \in RowsOf(n - 1)
  <1>1. r \in Seq(Values) /\ Len(r) = n /\ DOMAIN r = 1..n
    BY RowFacts DEF Row
  <1>2. RemoveAt(r, i) \in Seq(Values) /\ Len(RemoveAt(r, i)) = n - 1
    BY <1>1, RemovedElements
  <1>3. RemoveAt(r, i) \in [1..(n - 1) -> Values]
    BY <1>2, LenProperties
  <1> QED  BY <1>3 DEF RowsOf

LEMMA LongerRow ==
    ASSUME NEW n \in Nat, NEW r \in RowsOf(n), NEW v \in Values
    PROVE  Append(r, v) \in RowsOf(n + 1)
  <1>1. r \in Seq(Values) /\ Len(r) = n
    BY RowFacts DEF Row
  <1>2. Append(r, v) \in Seq(Values) /\ Len(Append(r, v)) = n + 1
    BY <1>1, AppendProperties
  <1>3. Append(r, v) \in [1..(n + 1) -> Values]
    BY <1>2, LenProperties
  <1> QED  BY <1>3 DEF RowsOf

LEMMA DefaultTyped == \A c : DefaultOf(c) \in Values
  <1>1. 1 \in Values /\ NullValue \in Values
    BY CellAssumption DEF Values
  <1> QED  BY <1>1 DEF DefaultOf

\* A value given for a column by a set of pairs.
LEMMA GivenTyped ==
    ASSUME NEW S \in SUBSET Pairs, NEW n, \E w \in S : w[1] = n
    PROVE  (CHOOSE w \in S : w[1] = n) \in S /\ (CHOOSE w \in S : w[1] = n)[2] \in Values
  BY DEF Pairs


\* What a request is after the server has seen to it, and after the page was
\* left.
LEMMA SeenTo ==
    ASSUME NEW o \in TableRequests, NEW b \in BOOLEAN
    PROVE  [o EXCEPT !.done = TRUE] \in TableRequests /\ [o EXCEPT !.live = b] \in TableRequests
  BY DEF TableRequests

LEMMA ReplyTyped ==
    ASSUME tOps \subseteq TableRequests, NEW o \in tOps, Reply(o)
    PROVE  tOps' \subseteq TableRequests
  BY SeenTo DEF Reply

\* Rows that are changed one by one.
LEMMA RowsMapped ==
    ASSUME NEW n, NEW m, NEW rows \in Seq(RowsOf(n)), NEW other, DOMAIN other = DOMAIN rows,
           other = [h \in DOMAIN rows |-> other[h]],
           \A h \in DOMAIN rows : other[h] \in RowsOf(m)
    PROVE  other \in Seq(RowsOf(m)) /\ Len(other) = Len(rows)
  <1>1. Len(rows) \in Nat /\ DOMAIN rows = 1..Len(rows)
    BY LenProperties
  <1>2. other \in [1..Len(rows) -> RowsOf(m)]
    BY <1>1
  <1> QED  BY <1>1, <1>2, FunctionIsSeq

LEMMA HandleInsertTypes ==
    ASSUME ServerTypes, tOps \subseteq TableRequests, NEW o \in tOps, HandleInsert(o)
    PROVE  ServerTypes' /\ tOps' \subseteq TableRequests /\ RowsStay
  <1> DEFINE new == [i \in DOMAIN tCols |->
                       IF \E w \in o.set : w[1] = tCols[i].name
                       THEN (CHOOSE w \in o.set : w[1] = tCols[i].name)[2] ELSE DefaultOf(tCols[i])]
             n == Len(tCols)
  <1>1. tRows' = Append(tRows, new) /\ UNCHANGED <<tCols, tGhost>> /\ Reply(o)
    BY DEF HandleInsert
  <1>2. tCols \in ColumnLists /\ n \in Nat /\ DOMAIN tCols = 1..n /\ tRows \in Seq(RowsOf(n))
    BY ColumnListFacts DEF ServerTypes
  <1>3. o.set \in SUBSET Pairs
    BY DEF TableRequests
  <1>4. \A i \in DOMAIN tCols : new[i] \in Values
    BY <1>3, GivenTyped, DefaultTyped
  <1>5. new \in RowsOf(n)
    BY <1>2, <1>4 DEF RowsOf
  <1> HIDE DEF new, n
  <1>6. tRows' \in Seq(RowsOf(n)) /\ Len(tRows') = Len(tRows) + 1
    BY <1>1, <1>2, <1>5, AppendProperties
  <1>7. Len(tRows) \in Nat
    BY <1>2, LenProperties
  <1>8. RowsStay
    BY <1>1, <1>6, <1>7 DEF RowsStay
  <1> QED  BY <1>1, <1>6, <1>8, ReplyTyped DEF ServerTypes, n

LEMMA HandleUpdateTypes ==
    ASSUME ServerTypes, tOps \subseteq TableRequests, NEW o \in tOps, HandleUpdate(o)
    PROVE  ServerTypes' /\ tOps' \subseteq TableRequests /\ RowsStay
  <1> DEFINE new(h) == [i \in DOMAIN tCols |->
                          IF \E w \in o.set : w[1] = tCols[i].name
                          THEN (CHOOSE w \in o.set : w[1] = tCols[i].name)[2] ELSE tRows[h][i]]
             other == [h \in DOMAIN tRows |-> IF ~Matches(tRows[h], o.where) THEN tRows[h] ELSE new(h)]
             n == Len(tCols)
  <1>1. tRows' = other /\ UNCHANGED <<tCols, tGhost>> /\ Reply(o)
    BY DEF HandleUpdate
  <1>2. tCols \in ColumnLists /\ n \in Nat /\ DOMAIN tCols = 1..n /\ tRows \in Seq(RowsOf(n))
    BY ColumnListFacts DEF ServerTypes
  <1>3. o.set \in SUBSET Pairs
    BY DEF TableRequests
  <1>4. \A h \in DOMAIN tRows : tRows[h] \in RowsOf(n) /\ new(h) \in RowsOf(n)
    <2>1. TAKE h \in DOMAIN tRows
    <2>2. tRows[h] \in RowsOf(n)
      BY <1>2, LenProperties, ElementOfSeq
    <2>3. \A i \in DOMAIN tCols : tRows[h][i] \in Values
      BY <1>2, <2>2 DEF RowsOf
    <2>4. \A i \in DOMAIN tCols : new(h)[i] \in Values
      BY <1>3, <2>3, GivenTyped
    <2> QED  BY <1>2, <2>2, <2>4 DEF RowsOf
  <1> HIDE DEF new, n
  <1>5. \A h \in DOMAIN tRows : other[h] \in RowsOf(n)
    BY <1>4
  <1>6. DOMAIN other = DOMAIN tRows /\ other = [h \in DOMAIN tRows |-> other[h]]
    OBVIOUS
  <1> HIDE DEF other
  <1>7. other \in Seq(RowsOf(n)) /\ Len(other) = Len(tRows) /\ Len(tRows) \in Nat
    BY <1>2, <1>5, <1>6, RowsMapped, LenProperties
  <1>8. RowsStay
    BY <1>1, <1>7 DEF RowsStay
  <1> QED  BY <1>1, <1>7, <1>8, ReplyTyped DEF ServerTypes, n

LEMMA HandleDeleteTypes ==
    ASSUME ServerTypes, tOps \subseteq TableRequests, NEW o \in tOps, HandleDelete(o)
    PROVE  ServerTypes' /\ tOps' \subseteq TableRequests /\ RowsStay
  <1> DEFINE kept == {h \in DOMAIN tRows : ~Matches(tRows[h], o.where)}
             n == Len(tCols)
             m == Cardinality(kept)
  <1>1. PICK order \in [1..m -> kept] : tRows' = [j \in DOMAIN order |-> tRows[order[j]]]
    BY DEF HandleDelete
  <1>2. UNCHANGED tCols /\ tGhost' = [tGhost EXCEPT !.removed = TRUE] /\ Reply(o)
    BY DEF HandleDelete
  <1>3. Len(tRows) \in Nat /\ DOMAIN tRows = 1..Len(tRows) /\ \A h \in DOMAIN tRows : tRows[h] \in RowsOf(n)
    BY LenProperties, ElementOfSeq DEF ServerTypes
  <1>4. m \in Nat
    <2>1. kept \subseteq 1..Len(tRows) /\ IsFiniteSet(1..Len(tRows))
      BY <1>3, CountTo
    <2> HIDE DEF kept
    <2> QED  BY <2>1, FS_Subset, FS_CardinalityType
  <1>5. tRows' \in [1..m -> RowsOf(n)]
    <2>1. \A j \in 1..m : order[j] \in DOMAIN tRows
      OBVIOUS
    <2> HIDE DEF m, kept, n
    <2>2. DOMAIN order = 1..m
      BY <1>1
    <2> QED  BY <1>1, <1>3, <2>1, <2>2
  <1>6. tRows' \in Seq(RowsOf(n))
    BY <1>4, <1>5, FunctionIsSeq
  <1>7. tGhost' \in [unsure : BOOLEAN, reshaped : BOOLEAN, removed : BOOLEAN] /\ tGhost'.removed
    BY <1>2 DEF ServerTypes
  <1> QED  BY <1>2, <1>6, <1>7, ReplyTyped DEF ServerTypes, RowsStay

LEMMA HandleAddTypes ==
    ASSUME ServerTypes, tOps \subseteq TableRequests, NEW o \in tOps, HandleAdd(o)
    PROVE  ServerTypes' /\ tOps' \subseteq TableRequests /\ RowsStay
  <1> DEFINE n == Len(tCols)
             c == o.form
             other == [h \in DOMAIN tRows |-> Append(tRows[h], DefaultOf(c))]
  <1>1. /\ tRows' = other /\ tCols' = Append(tCols, c) /\ ~HasColumn(tCols, c.name) /\ o.kind = "add"
        /\ tGhost' = [tGhost EXCEPT !.reshaped = TRUE] /\ Reply(o)
    BY DEF HandleAdd
  <1>2. tCols \in ColumnLists /\ n \in Nat /\ DOMAIN tCols = 1..n /\ tRows \in Seq(RowsOf(n)) /\ tCols \in Seq(Columns)
    BY ColumnListFacts DEF ServerTypes
  <1>3. c \in Columns
    BY <1>1 DEF TableRequests, Columns
  <1> HIDE DEF c, n
  <1>4. /\ tCols' \in Seq(Columns) /\ Len(tCols') = n + 1 /\ tCols'[n + 1] = c
        /\ \A i \in 1..n : tCols'[i] = tCols[i]
    BY <1>1, <1>2, <1>3, AppendProperties DEF n
  <1>5. DOMAIN tCols' = 1..(n + 1)
    BY <1>4, LenProperties
  <1>6. ASSUME NEW i \in 1..(n + 1), NEW j \in 1..(n + 1), tCols'[i].name = tCols'[j].name
        PROVE  i = j
    <2>1. (i \in 1..n \/ i = n + 1) /\ (j \in 1..n \/ j = n + 1)
      BY <1>2
    <2>2. \A g \in 1..n : tCols'[g].name # c.name
      BY <1>1, <1>2, <1>4 DEF HasColumn
    <2>3. \A g, h \in 1..n : tCols'[g].name = tCols'[h].name => g = h
      <3>1. \A g, h \in DOMAIN tCols : tCols[g].name = tCols[h].name => g = h
        BY <1>2, ColumnListFacts
      <3> QED  BY <1>2, <1>4, <3>1
    <2> QED  BY <1>4, <1>6, <2>1, <2>2, <2>3
  <1>7. tCols' \in ColumnLists
    BY <1>4, <1>5, <1>6 DEF ColumnLists
  <1>8. \A h \in DOMAIN tRows : other[h] \in RowsOf(n + 1)
    <2>1. TAKE h \in DOMAIN tRows
    <2>2. tRows[h] \in RowsOf(n)
      BY <1>2, LenProperties, ElementOfSeq
    <2> QED  BY <1>2, <2>2, DefaultTyped, LongerRow
  <1>9. DOMAIN other = DOMAIN tRows /\ other = [h \in DOMAIN tRows |-> other[h]]
    OBVIOUS
  <1> HIDE DEF other
  <1>10. other \in Seq(RowsOf(n + 1)) /\ Len(other) = Len(tRows) /\ Len(tRows) \in Nat
    BY <1>2, <1>8, <1>9, RowsMapped, LenProperties
  <1>11. tGhost' \in [unsure : BOOLEAN, reshaped : BOOLEAN, removed : BOOLEAN] /\ tGhost'.removed = tGhost.removed
    BY <1>1 DEF ServerTypes
  <1>12. RowsStay
    <2>1. Len(tRows) <= Len(tRows')
      BY <1>1, <1>10
    <2> QED  BY <1>11, <2>1 DEF RowsStay
  <1> QED  BY <1>1, <1>4, <1>7, <1>10, <1>11, <1>12, ReplyTyped DEF ServerTypes
LEMMA HandleDropTypes ==
    ASSUME ServerTypes, tOps \subseteq TableRequests, NEW o \in tOps, HandleDrop(o)
    PROVE  ServerTypes' /\ tOps' \subseteq TableRequests /\ RowsStay
  <1> DEFINE n == Len(tCols)
             i == Position(tCols, o.column.name)
             other == [h \in DOMAIN tRows |-> RemoveAt(tRows[h], i)]
  <1>1. /\ tRows' = other /\ tCols' = RemoveAt(tCols, i) /\ HasColumn(tCols, o.column.name)
        /\ tGhost' = [tGhost EXCEPT !.reshaped = TRUE] /\ Reply(o)
    BY DEF HandleDrop
  <1>2. tCols \in ColumnLists /\ n \in Nat /\ DOMAIN tCols = 1..n /\ tRows \in Seq(RowsOf(n)) /\ tCols \in Seq(Columns)
    BY ColumnListFacts DEF ServerTypes
  <1>3. i \in DOMAIN tCols
    BY <1>1, <1>2, ColumnListFacts
  <1>4. \A g, h \in 1..n : tCols[g].name = tCols[h].name => g = h
    BY <1>2, ColumnListFacts
  <1> HIDE DEF i
  <1>5. /\ tCols' \in Seq(Columns) /\ Len(tCols') = n - 1 /\ n - 1 \in Nat
        /\ \A j \in 1..(n - 1) : tCols'[j] = IF j < i THEN tCols[j] ELSE tCols[j + 1]
    BY <1>1, <1>2, <1>3, RemovedElements
  <1> HIDE DEF n
  <1>6. DOMAIN tCols' = 1..(n - 1)
    BY <1>5, LenProperties
  <1>7. ASSUME NEW g \in 1..(n - 1), NEW h \in 1..(n - 1), tCols'[g].name = tCols'[h].name
        PROVE  g = h
    <2> DEFINE a == IF g < i THEN g ELSE g + 1
               b == IF h < i THEN h ELSE h + 1
    <2>1. tCols'[g] = tCols[a] /\ tCols'[h] = tCols[b]
      BY <1>5
    <2>2. a \in 1..n /\ b \in 1..n /\ (a = b => g = h)
      BY <1>2, <1>3
    <2> HIDE DEF a, b
    <2> QED  BY <1>4, <1>7, <2>1, <2>2
  <1>8. tCols' \in ColumnLists
    BY <1>5, <1>6, <1>7 DEF ColumnLists
  <1>9. \A h \in DOMAIN tRows : other[h] \in RowsOf(n - 1)
    <2>1. TAKE h \in DOMAIN tRows
    <2>2. tRows[h] \in RowsOf(n)
      BY <1>2, LenProperties, ElementOfSeq
    <2> QED  BY <1>2, <1>3, <2>2, ShorterRow
  <1>10. DOMAIN other = DOMAIN tRows /\ other = [h \in DOMAIN tRows |-> other[h]]
    OBVIOUS
  <1> HIDE DEF other
  <1>11. other \in Seq(RowsOf(n - 1)) /\ Len(other) = Len(tRows) /\ Len(tRows) \in Nat
    BY <1>2, <1>9, <1>10, RowsMapped, LenProperties
  <1>12. tGhost' \in [unsure : BOOLEAN, reshaped : BOOLEAN, removed : BOOLEAN] /\ tGhost'.removed = tGhost.removed
    BY <1>1 DEF ServerTypes
  <1>13. RowsStay
    <2>1. Len(tRows) <= Len(tRows')
      BY <1>1, <1>11
    <2> QED  BY <1>12, <2>1 DEF RowsStay
  <1> QED  BY <1>1, <1>5, <1>8, <1>11, <1>12, <1>13, ReplyTyped DEF ServerTypes

LEMMA HandleStatementTypes ==
    ASSUME ServerTypes, tOps \subseteq TableRequests, NEW o \in tOps, HandleStatement(o)
    PROVE  ServerTypes' /\ tOps' \subseteq TableRequests /\ RowsStay
  <1> DEFINE n == Len(tCols)
             i == Position(tCols, Addressed(o))
             s == Head(o.stmts)
             c == CASE s = "rename" -> [tCols[i] EXCEPT !.name = o.form.name]
                    [] s = "type" -> [tCols[i] EXCEPT !.type = o.form.type]
                    [] s = "nullable" -> [tCols[i] EXCEPT !.nullable = o.form.nullable]
                    [] s = "default" -> [tCols[i] EXCEPT !.default = o.form.default]
  <1>1. /\ o.kind = "alter" /\ o.stmts # <<>> /\ HasColumn(tCols, Addressed(o))
        /\ s = "rename" => ~HasColumn(tCols, o.form.name)
        /\ tCols' = [tCols EXCEPT ![i] = c] /\ tRows' = tRows
        /\ tGhost' = [tGhost EXCEPT !.reshaped = TRUE]
        /\ tOps' = (tOps \ {o}) \cup {[o EXCEPT !.stmts = Tail(o.stmts), !.done = (Tail(o.stmts) = <<>>)]}
    BY DEF HandleStatement
  <1>2. tCols \in ColumnLists /\ n \in Nat /\ DOMAIN tCols = 1..n /\ tRows \in Seq(RowsOf(n)) /\ tCols \in Seq(Columns)
    BY ColumnListFacts DEF ServerTypes
  <1>3. i \in DOMAIN tCols
    BY <1>1, <1>2, ColumnListFacts
  <1>4. \A g, h \in 1..n : tCols[g].name = tCols[h].name => g = h
    BY <1>2, ColumnListFacts
  <1>5. o.stmts \in Seq(StatementNames) /\ o.form \in Columns
    BY <1>1 DEF TableRequests, Columns
  <1>6. s \in StatementNames /\ Tail(o.stmts) \in Seq(StatementNames)
    BY <1>1, <1>5, HeadTailProperties
  <1>7. tCols[i] \in Columns
    BY <1>2, <1>3, ColumnListFacts
  <1>8. ((s = "rename" /\ c.name = o.form.name) \/ (s # "rename" /\ c.name = tCols[i].name)) /\ c \in Columns
    <2> DEFINE d == tCols[i]
               f == o.form
    <2>1. d \in Columns /\ f \in Columns
      BY <1>5, <1>7
    <2>2. CASE s = "rename"
      <3>1. c = [d EXCEPT !.name = f.name]
        BY <2>2
      <3> HIDE DEF c, d, f
      <3>2. c \in Columns /\ c.name = f.name
        BY <2>1, <3>1 DEF Columns, ColumnInfos
      <3> QED  BY <2>2, <3>2 DEF d, f
    <2>3. CASE s = "type"
      <3>1. c = [d EXCEPT !.type = f.type]
        BY <2>3
      <3> HIDE DEF c, d, f
      <3>2. c \in Columns /\ c.name = d.name
        BY <2>1, <3>1 DEF Columns, ColumnInfos
      <3> QED  BY <2>3, <3>2 DEF d, f
    <2>4. CASE s = "nullable"
      <3>1. c = [d EXCEPT !.nullable = f.nullable]
        BY <2>4
      <3> HIDE DEF c, d, f
      <3>2. c \in Columns /\ c.name = d.name
        BY <2>1, <3>1 DEF Columns, ColumnInfos
      <3> QED  BY <2>4, <3>2 DEF d, f
    <2>5. CASE s = "default"
      <3>1. c = [d EXCEPT !.default = f.default]
        BY <2>5
      <3> HIDE DEF c, d, f
      <3>2. c \in Columns /\ c.name = d.name
        BY <2>1, <3>1 DEF Columns, ColumnInfos
      <3> QED  BY <2>5, <3>2 DEF d, f
    <2> QED  BY <1>6, <2>2, <2>3, <2>4, <2>5 DEF StatementNames
  <1> HIDE DEF i, c, s
  <1>9. tCols' \in Seq(Columns) /\ Len(tCols') = n
    <2>1. tCols \in [1..n -> Columns]
      BY <1>2, LenProperties
    <2>2. tCols' \in [1..n -> Columns]
      BY <1>1, <1>8, <2>1
    <2> QED  BY <1>2, <2>2, FunctionIsSeq
  <1>10. \A g \in 1..n : tCols'[g] = IF g = i THEN c ELSE tCols[g]
    BY <1>1, <1>2
  <1>11. ASSUME NEW g \in 1..n, NEW h \in 1..n, tCols'[g].name = tCols'[h].name
         PROVE  g = h
    <2>1. \A f \in 1..n : s = "rename" => tCols[f].name # o.form.name
      BY <1>1, <1>2 DEF HasColumn
    <2> QED  BY <1>3, <1>4, <1>8, <1>10, <1>11, <2>1, <1>2
  <1>12. tCols' \in ColumnLists
    <2>1. DOMAIN tCols' = 1..n
      BY <1>9, LenProperties
    <2> QED  BY <1>9, <1>11, <2>1 DEF ColumnLists
  <1>13. tGhost' \in [unsure : BOOLEAN, reshaped : BOOLEAN, removed : BOOLEAN] /\ tGhost'.removed = tGhost.removed
    BY <1>1 DEF ServerTypes
  <1>14. tOps' \subseteq TableRequests
    <2> DEFINE t == Tail(o.stmts)
               e == (t = <<>>)
               r == [o EXCEPT !.stmts = t, !.done = e]
    <2>1. t \in Seq(StatementNames) /\ e \in BOOLEAN /\ o \in TableRequests
      BY <1>6
    <2> HIDE DEF t, e
    <2>2. r \in TableRequests
      BY <2>1 DEF TableRequests
    <2> HIDE DEF r
    <2>3. tOps' = (tOps \ {o}) \cup {r}
      BY <1>1 DEF r, e, t
    <2> QED  BY <2>2, <2>3
  <1>15. RowsStay
    <2>1. Len(tRows) \in Nat /\ tRows' = tRows
      BY <1>1, <1>2, LenProperties
    <2>2. Len(tRows) <= Len(tRows')
      BY <2>1
    <2> QED  BY <1>13, <2>2 DEF RowsStay
  <1> QED  BY <1>1, <1>2, <1>9, <1>12, <1>13, <1>14, <1>15 DEF ServerTypes

LEMMA ServesTypes ==
    ASSUME ServerTypes, tOps \subseteq TableRequests, NEW o \in tOps, Serves(o)
    PROVE  ServerTypes' /\ tOps' \subseteq TableRequests /\ RowsStay
  BY HandleInsertTypes, HandleUpdateTypes, HandleDeleteTypes, HandleAddTypes, HandleDropTypes, HandleStatementTypes
  DEF Serves

LEMMA OthersTypes ==
    ASSUME ServerTypes, NEW i \in DOMAIN tRows, OthersRemove(i)
    PROVE  ServerTypes' /\ RowsStay
  <1>1. /\ tRows' = RemoveAt(tRows, i) /\ tCols' = tCols
        /\ tGhost' = [tGhost EXCEPT !.removed = TRUE, !.unsure = TRUE]
    BY DEF OthersRemove
  <1>2. tRows' \in Seq(RowsOf(Len(tCols)))
    BY <1>1, RemovedElements DEF ServerTypes
  <1>3. tGhost' \in [unsure : BOOLEAN, reshaped : BOOLEAN, removed : BOOLEAN] /\ tGhost'.removed
    BY <1>1 DEF ServerTypes
  <1> QED  BY <1>1, <1>2, <1>3 DEF ServerTypes, RowsStay


-----------------------------------------------------------------------------
(* The cached columns and rows.  Whatever a step does, it does one of the  *)
(* operations on each of the entries; d is what the server would answer.   *)

EntrySteps(p, q, d) ==
    \/ q = p \/ q = Observe(p) \/ q = Observe(Age(p)) \/ q = Read(p, d)
    \/ p.fetch = "read" /\ q = Arrive(p)
    \/ q = FetchFails(p)
    \/ \E b \in BOOLEAN : q = Invalidate(p, b)

LEMMA EntryStepTyped ==
    ASSUME NEW D, NEW p \in Entries(D), p.fetch = "read" => p.answer \in D, NEW d \in D,
           NEW q, EntrySteps(p, q, d)
    PROVE  /\ q \in Entries(D) /\ (q.fetch = "read" => q.answer \in D)
           /\ q.data \in {p.data, p.answer} /\ q.answer \in {p.answer, NoData, d}
           /\ \A G : Vouched(p, G) /\ d \in G => Vouched(q, G)
  <1>1. CASE q = p
    BY <1>1
  <1>2. CASE q = Observe(p)
    <2>1. /\ q.fetch = "read" => q.answer \in D
          /\ q.data \in {p.data, p.answer} /\ q.answer \in {p.answer, NoData, d}
      BY <1>2 DEF Observe, Send, Entries
    <2> QED  BY <1>2, <2>1, ObserveVouched, UnaskedVouched DEF Observe, Send, Entries, Vouched, Fresh
  <1>3. CASE q = Observe(Age(p))
    <2>1. /\ q.fetch = "read" => q.answer \in D
          /\ q.data \in {p.data, p.answer} /\ q.answer \in {p.answer, NoData, d}
          /\ q \in Entries(D)
      BY <1>3 DEF Observe, Age, Send, Entries
    <2>2. \A G : Vouched(p, G) => Vouched(q, G)
      BY <1>3 DEF Observe, Age, Send, Entries, Vouched, Fresh
    <2> QED  BY <2>1, <2>2
  <1>4. CASE q = Read(p, d)
    BY <1>4 DEF Read, Entries, Vouched, Fresh
  <1>5. CASE p.fetch = "read" /\ q = Arrive(p)
    BY <1>5 DEF Arrive, Entries, Vouched, Fresh
  <1>6. CASE q = FetchFails(p)
    BY <1>6 DEF FetchFails, Entries, Vouched, Fresh
  <1>7. ASSUME NEW b \in BOOLEAN, q = Invalidate(p, b)
        PROVE  /\ q \in Entries(D) /\ (q.fetch = "read" => q.answer \in D)
               /\ q.data \in {p.data, p.answer} /\ q.answer \in {p.answer, NoData, d}
               /\ \A G : Vouched(q, G)
    <2>1. q \in Entries(D) /\ \A G : Vouched(q, G)
      BY <1>7, InvalidateVouched
    <2> DEFINE s == [p EXCEPT !.stale = TRUE]
               o == (p.fetch # "idle")
               t == [s EXCEPT !.overtaken = o]
    <2>2. q = Send(s) \/ q = t
      BY <1>7 DEF Invalidate
    <2>3. /\ s \in Entries(D) /\ s.data = p.data /\ s.answer = p.answer /\ s.fetch = p.fetch
          /\ o \in BOOLEAN
      BY DEF Entries
    <2> HIDE DEF s, o
    <2>4. t.data = p.data /\ t.answer = p.answer /\ t.fetch = p.fetch
      BY <2>3 DEF Entries
    <2>5. Send(s).data = p.data /\ Send(s).answer = NoData /\ Send(s).fetch = "sent"
      BY <2>3 DEF Send, Entries
    <2> QED  BY <2>1, <2>2, <2>4, <2>5
  <1> QED  BY <1>1, <1>2, <1>3, <1>4, <1>5, <1>6, <1>7 DEF EntrySteps

QuerySteps ==
    /\ EntrySteps(colQ, colQ', tCols)
    /\ DOMAIN rowQ' = PageKeys /\ rowQ' = [k \in PageKeys |-> rowQ'[k]]
    /\ \A k \in PageKeys : EntrySteps(rowQ[k], rowQ'[k], PageOf(k))

\* The pages stay as they are, except for one.
LEMMA OnePage ==
    ASSUME DOMAIN rowQ = PageKeys, rowQ = [j \in PageKeys |-> rowQ[j]], NEW k, NEW q,
           rowQ' = [rowQ EXCEPT ![k] = q], k \in PageKeys => EntrySteps(rowQ[k], q, PageOf(k))
    PROVE  /\ DOMAIN rowQ' = PageKeys /\ rowQ' = [j \in PageKeys |-> rowQ'[j]]
           /\ \A j \in PageKeys : EntrySteps(rowQ[j], rowQ'[j], PageOf(j))
  <1>1. \A j \in PageKeys : rowQ'[j] = IF j = k THEN q ELSE rowQ[j]
    OBVIOUS
  <1>2. \A j \in PageKeys : EntrySteps(rowQ[j], rowQ[j], PageOf(j))
    BY Zenon DEF EntrySteps
  <1>3. DOMAIN rowQ' = PageKeys
    OBVIOUS
  <1>4. rowQ' = [j \in PageKeys |-> rowQ'[j]]
    BY <1>3
  <1> QED  BY <1>1, <1>2, <1>3, <1>4

LEMMA QueriesStay ==
    ASSUME RowQueryTypes, colQ' = colQ, rowQ' = rowQ
    PROVE  QuerySteps
  BY DEF QuerySteps, EntrySteps, RowQueryTypes

LEMMA QueryStep ==
    ASSUME RowQueryTypes, [TableNext]_tableVars
    PROVE  QuerySteps
  <1>0. DOMAIN rowQ = PageKeys /\ rowQ = [j \in PageKeys |-> rowQ[j]]
    BY DEF RowQueryTypes
  \* The columns stay and one page is seen to.
  <1>1. ASSUME colQ' = colQ, NEW k, NEW q, rowQ' = [rowQ EXCEPT ![k] = q],
               k \in PageKeys => EntrySteps(rowQ[k], q, PageOf(k))
        PROVE  QuerySteps
    <2>1. EntrySteps(colQ, colQ', tCols)
      BY <1>1 DEF EntrySteps
    <2> QED  BY <1>0, <1>1, <2>1, OnePage DEF QuerySteps
  \* The rows stay and the columns are seen to.
  <1>2. ASSUME rowQ' = rowQ, EntrySteps(colQ, colQ', tCols)
        PROVE  QuerySteps
    <2>1. \A k \in PageKeys : EntrySteps(rowQ[k], rowQ'[k], PageOf(k))
      BY <1>2 DEF EntrySteps
    <2> QED  BY <1>0, <1>2, <2>1 DEF QuerySteps
  <1>3. \A k, p, s : EntrySteps(rowQ[k], Observe(rowQ[k]), p) /\ EntrySteps(rowQ[k], Observe(Age(rowQ[k])), s)
    BY DEF EntrySteps
  <1>4. CASE Browses
    <2>1. CASE EnterTable
      BY <1>1, <1>3, <2>1 DEF EnterTable
    <2>2. CASE LeaveTable
      BY <2>2, QueriesStay DEF LeaveTable, queries
    <2>3. CASE SwitchTab
      <3>1. CASE view.tab = "data"
        <4>1. colQ' = Observe(colQ) /\ rowQ' = rowQ
          BY <2>3, <3>1 DEF SwitchTab
        <4>2. EntrySteps(colQ, colQ', tCols)
          BY <4>1 DEF EntrySteps
        <4> QED  BY <1>2, <4>1, <4>2
      <3>2. CASE view.tab # "data"
        <4>1. rowQ' = [rowQ EXCEPT ![Shown] = Observe(rowQ[Shown])] /\ colQ' = colQ
          BY <2>3, <3>2 DEF SwitchTab
        <4> QED  BY <1>1, <1>3, <4>1
      <3> QED  BY <3>1, <3>2
    <2>4. CASE RefreshRows
      BY <1>1, <1>3, <2>4 DEF RefreshRows
    <2>5. CASE RefreshColumns
      <3>1. colQ' = Observe(Age(colQ)) /\ rowQ' = rowQ
        BY <2>5 DEF RefreshColumns
      <3>2. EntrySteps(colQ, colQ', tCols)
        BY <3>1 DEF EntrySteps
      <3> QED  BY <1>2, <3>1, <3>2
    <2>6. ASSUME NEW p, NEW s, ShowPage(p, s)
          PROVE  QuerySteps
      <3> DEFINE k == [page |-> p, sort |-> s]
      <3>1. rowQ' = [rowQ EXCEPT ![k] = Observe(rowQ[k])] /\ colQ' = colQ
        BY <2>6 DEF ShowPage
      <3> HIDE DEF k
      <3> QED  BY <1>1, <1>3, <3>1
    <2>7. CASE \E n \in SortNames : SortBy(n)
      BY <2>6, <2>7 DEF SortBy
    <2>8. CASE \E step \in {-1, 1} : TurnPage(step)
      BY <2>6, <2>8 DEF TurnPage
    <2> QED  BY <1>4, <2>1, <2>2, <2>3, <2>4, <2>5, <2>7, <2>8 DEF Browses
  <1>5. CASE UsesDialog
    <2>1. rowQ' = rowQ /\ (colQ' = colQ \/ colQ' = Observe(colQ))
      BY <1>5, UsesDialogFrame
    <2>2. EntrySteps(colQ, colQ', tCols)
      BY <2>1 DEF EntrySteps
    <2> QED  BY <1>2, <2>1, <2>2
  <1>6. CASE Sends
    BY <1>6, SendsFrame, QueriesStay
  <1>7. CASE Fetches
    <2>1. ASSUME NEW k \in PageKeys, ReadRows(k) \/ RowsArrive(k) \/ RowsFail(k)
          PROVE  QuerySteps
      <3>1. CASE ReadRows(k)
        <4>1. EntrySteps(rowQ[k], Read(rowQ[k], PageOf(k)), PageOf(k))
          BY DEF EntrySteps
        <4> QED  BY <1>1, <3>1, <4>1 DEF ReadRows
      <3>2. CASE RowsArrive(k)
        <4> DEFINE q == IF rowQ[k].answer.rows = <<>> THEN FetchFails(rowQ[k]) ELSE Arrive(rowQ[k])
        <4>1. EntrySteps(rowQ[k], q, PageOf(k))
          BY <3>2 DEF EntrySteps, RowsArrive
        <4>2. rowQ' = [rowQ EXCEPT ![k] = q] /\ colQ' = colQ
          BY <3>2 DEF RowsArrive
        <4> HIDE DEF q
        <4> QED  BY <1>1, <4>1, <4>2
      <3>3. CASE RowsFail(k)
        <4>1. EntrySteps(rowQ[k], FetchFails(rowQ[k]), PageOf(k))
          BY DEF EntrySteps
        <4> QED  BY <1>1, <3>3, <4>1 DEF RowsFail
      <3> QED  BY <2>1, <3>1, <3>2, <3>3
    <2>2. CASE ReadColumns \/ ColumnsArrive \/ ColumnsFail
      <3>1. rowQ' = rowQ
        BY <2>2 DEF ReadColumns, ColumnsArrive, ColumnsFail
      <3>2. EntrySteps(colQ, colQ', tCols)
        BY <2>2 DEF ReadColumns, ColumnsArrive, ColumnsFail, EntrySteps
      <3> QED  BY <1>2, <3>1, <3>2
    <2> QED  BY <1>7, <2>1, <2>2 DEF Fetches
  <1>8. ASSUME NEW o \in tOps, Serves(o) \/ SucceedT(o) \/ FailT(o)
        PROVE  QuerySteps
    <2>1. CASE Serves(o)
      BY <2>1, ServesFrame, QueriesStay
    <2>2. CASE FailT(o)
      BY <2>2, QueriesStay DEF FailT, queries
    <2>3. CASE SucceedT(o) /\ o.kind \in {"insert", "update", "delete"}
      <3>1. colQ' = colQ /\ rowQ' = [k \in PageKeys |-> Invalidate(rowQ[k], view.tab = "data" /\ k = Shown)]
        BY <2>3 DEF SucceedT, InvalidateRows
      <3>2. \A k \in PageKeys : EntrySteps(rowQ[k], rowQ'[k], PageOf(k))
        <4>1. TAKE k \in PageKeys
        <4> DEFINE b == (view.tab = "data" /\ k = Shown)
        <4>2. rowQ'[k] = Invalidate(rowQ[k], b) /\ b \in BOOLEAN
          BY <3>1
        <4> HIDE DEF b
        <4> QED  BY <4>2 DEF EntrySteps
      <3>3. EntrySteps(colQ, colQ', tCols) /\ DOMAIN rowQ' = PageKeys /\ rowQ' = [k \in PageKeys |-> rowQ'[k]]
        BY <3>1 DEF EntrySteps
      <3> QED  BY <3>2, <3>3 DEF QuerySteps
    <2>4. CASE SucceedT(o) /\ o.kind \notin {"insert", "update", "delete"}
      <3> DEFINE b == ColumnsShown
      <3>1. colQ' = Invalidate(colQ, b) /\ rowQ' = rowQ /\ b \in BOOLEAN
        BY <2>4 DEF SucceedT, ColumnsShown
      <3> HIDE DEF b
      <3>2. EntrySteps(colQ, colQ', tCols)
        BY <3>1 DEF EntrySteps
      <3> QED  BY <1>2, <3>1, <3>2
    <2> QED  BY <1>8, <2>1, <2>2, <2>3, <2>4
  <1>9. ASSUME NEW i \in DOMAIN tRows, OthersRemove(i)
        PROVE  QuerySteps
    BY <1>9, QueriesStay DEF OthersRemove, queries
  <1>10. CASE UNCHANGED tableVars
    BY <1>10, QueriesStay DEF tableVars
  <1> QED  BY <1>4, <1>5, <1>6, <1>7, <1>8, <1>9, <1>10, TableStep

LEMMA QueryTypes ==
    ASSUME ServerTypes, ColumnQueryTypes, RowQueryTypes, QuerySteps
    PROVE  ColumnQueryTypes' /\ RowQueryTypes'
  <1>1. tCols \in ColumnLists /\ colQ \in Entries(ColumnLists)
        /\ (colQ.fetch = "read" => colQ.answer \in ColumnLists)
    BY DEF ServerTypes, ColumnQueryTypes
  <1>2. ColumnQueryTypes'
    BY <1>1, EntryStepTyped DEF QuerySteps, ColumnQueryTypes
  <1>3. ASSUME NEW k \in PageKeys
        PROVE  rowQ'[k] \in Entries(Pages) /\ (rowQ'[k].fetch = "read" => rowQ'[k].answer \in Pages)
    <2>1. PageOf(k) \in Pages
      BY PageInTyped DEF ServerTypes, PageOf
    <2>2. rowQ[k] \in Entries(Pages) /\ (rowQ[k].fetch = "read" => rowQ[k].answer \in Pages)
      BY DEF RowQueryTypes
    <2>3. EntrySteps(rowQ[k], rowQ'[k], PageOf(k))
      BY DEF QuerySteps
    <2> QED  BY <2>1, <2>2, <2>3, EntryStepTyped
  <1>4. RowQueryTypes'
    BY <1>3 DEF QuerySteps, RowQueryTypes
  <1> QED  BY <1>2, <1>4


-----------------------------------------------------------------------------
(* What is shown, counted, filled in and sent has its type.                *)

LEMMA PlanFacts ==
    ASSUME NEW p \in TablePlans
    PROVE  /\ p.ops \in Nat /\ p.others \in Nat /\ p.visits \in Nat
           /\ p.cols \in ColumnLists /\ p.rows \in Seq(RowsOf(Len(p.cols)))
  <1>1. /\ {p.ops, p.others, p.visits} \subseteq Nat
        /\ p.cols \in Seq(ColumnInfos) /\ \A i \in DOMAIN p.cols : p.cols[i].name # ""
        /\ \A i, j \in DOMAIN p.cols : i # j => p.cols[i].name # p.cols[j].name
        /\ p.rows \in Seq([DOMAIN p.cols -> Values])
    BY TablePlansAssumption
  <1>2. Len(p.cols) \in Nat /\ DOMAIN p.cols = 1..Len(p.cols) /\ \A i \in DOMAIN p.cols : p.cols[i] \in Columns
    BY <1>1, LenProperties, ElementOfSeq DEF Columns
  <1>3. p.cols \in [1..Len(p.cols) -> Columns]
    <2>1. p.cols \in [1..Len(p.cols) -> ColumnInfos]
      BY <1>1, LenProperties
    <2> QED  BY <1>2, <2>1
  <1>4. p.cols \in Seq(Columns)
    BY <1>2, <1>3, FunctionIsSeq
  <1> QED  BY <1>1, <1>2, <1>4 DEF ColumnLists, RowsOf

LEMMA RowPageNumbers ==
    /\ LastRowPage \in Nat /\ PageSize \in Nat \ {0} /\ 0 \in 0..LastRowPage
    /\ \A p \in 0..LastRowPage : p \in Nat
    /\ \A p \in 0..LastRowPage, step \in {-1, 1} :
          ((step = -1 /\ p # 0) \/ step = 1) /\ p + step <= LastRowPage => p + step \in 0..LastRowPage
  <1>1. LastRowPage \in Nat /\ PageSize \in Nat \ {0}
    BY PageSizeAssumption
  <1> QED  BY <1>1

LEMMA ViewFacts ==
    ASSUME ViewTypes
    PROVE  /\ view.page \in 0..LastRowPage /\ view.page \in Nat /\ LastRowPage \in Nat
           /\ Shown \in PageKeys /\ Unsorted \in [by : SortNames \cup {""}, dir : {"asc", "desc"}]
           /\ view.sort \in [by : SortNames \cup {""}, dir : {"asc", "desc"}]
           /\ view.tab \in {"away", "data", "structure"}
  <1>1. LastRowPage \in Nat
    BY PageSizeAssumption
  <1>2. /\ view.page \in 0..LastRowPage /\ view.sort \in [by : SortNames \cup {""}, dir : {"asc", "desc"}]
        /\ view.tab \in {"away", "data", "structure"}
    BY DEF ViewTypes
  <1>3. view.page \in Nat
    BY <1>2, RowPageNumbers
  <1>4. Shown \in PageKeys
    BY <1>2 DEF Shown, PageKeys
  <1>5. Unsorted \in [by : SortNames \cup {""}, dir : {"asc", "desc"}]
    BY DEF Unsorted
  <1> QED  BY <1>1, <1>2, <1>3, <1>4, <1>5

LEMMA ViewTypesStep ==
    ASSUME TableTypes, [TableNext]_tableVars
    PROVE  ViewTypes'
  <1>0. ViewTypes /\ view.page \in Nat /\ view.page \in 0..LastRowPage /\ LastRowPage \in Nat
        /\ Unsorted \in [by : SortNames \cup {""}, dir : {"asc", "desc"}]
        /\ view.sort \in [by : SortNames \cup {""}, dir : {"asc", "desc"}]
    BY ViewFacts DEF TableTypes
  <1>1. ASSUME NEW p \in 0..LastRowPage, NEW s \in [by : SortNames \cup {""}, dir : {"asc", "desc"}], ShowPage(p, s)
        PROVE  ViewTypes'
    BY <1>0, <1>1 DEF ShowPage, ViewTypes
  <1>2. CASE EnterTable \/ SwitchTab
    <2>1. \E t \in {"data", "structure"} : view' = [view EXCEPT !.tab = t]
      BY <1>2 DEF EnterTable, SwitchTab
    <2> QED  BY <1>0, <2>1 DEF ViewTypes
  <1>3. CASE LeaveTable
    <2>1. 0 \in 0..LastRowPage
      BY RowPageNumbers
    <2>2. view' = [tab |-> "away", page |-> 0, sort |-> Unsorted]
      BY <1>3 DEF LeaveTable
    <2> QED  BY <1>0, <2>1, <2>2 DEF ViewTypes
  <1>4. ASSUME NEW n \in SortNames, SortBy(n)
        PROVE  ViewTypes'
    <2> DEFINE s == IF view.sort.by = n
                    THEN [by |-> n, dir |-> IF view.sort.dir = "asc" THEN "desc" ELSE "asc"]
                    ELSE [by |-> n, dir |-> "asc"]
    <2>1. s \in [by : SortNames \cup {""}, dir : {"asc", "desc"}] /\ ShowPage(0, s)
      BY <1>4 DEF SortBy
    <2>2. 0 \in 0..LastRowPage
      BY RowPageNumbers
    <2> HIDE DEF s
    <2> QED  BY <1>1, <2>1, <2>2
  <1>5. ASSUME NEW step \in {-1, 1}, TurnPage(step)
        PROVE  ViewTypes'
    <2>1. /\ (step = -1 /\ view.page # 0) \/ step = 1
          /\ view.page + step <= LastRowPage /\ ShowPage(view.page + step, view.sort)
      BY <1>5 DEF TurnPage
    <2>2. view.page + step \in 0..LastRowPage
      BY <1>0, <2>1, RowPageNumbers
    <2> QED  BY <1>0, <1>1, <2>1, <2>2
  <1>6. CASE view' = view
    BY <1>0, <1>6 DEF ViewTypes
  <1>7. CASE RefreshRows \/ RefreshColumns
    BY <1>6, <1>7 DEF RefreshRows, RefreshColumns
  <1>8. CASE UsesDialog \/ Sends \/ Fetches
    BY <1>6, <1>8, UsesDialogFrame, SendsFrame, FetchesFrame
  <1>9. CASE \/ \E o \in tOps : Serves(o) \/ SucceedT(o) \/ FailT(o)
             \/ \E i \in DOMAIN tRows : OthersRemove(i)
    BY <1>6, <1>9, ServesFrame DEF SucceedT, FailT, OthersRemove
  <1>10. CASE UNCHANGED tableVars
    BY <1>6, <1>10 DEF tableVars
  <1> QED  BY <1>2, <1>3, <1>4, <1>5, <1>7, <1>8, <1>9, <1>10, TableStep DEF Browses

LEMMA CountTypesStep ==
    ASSUME TableTypes, [TableNext]_tableVars
    PROVE  CountTypes'
  <1>0. /\ tPlan \in TablePlans /\ tPlan.ops \in Nat
        /\ tCount \in [ops : 0..tPlan.ops, others : Nat, visits : Nat]
        /\ tCount.ops \in 0..tPlan.ops /\ tCount.others \in Nat /\ tCount.visits \in Nat
    BY PlanFacts DEF TableTypes, CountTypes
  <1>1. CASE tCount' = tCount /\ tPlan' = tPlan
    BY <1>0, <1>1 DEF CountTypes
  <1>2. CASE Sends
    <2>1. tCount.ops < tPlan.ops /\ tCount' = [tCount EXCEPT !.ops = tCount.ops + 1] /\ tPlan' = tPlan
      BY <1>2, SendsFrame
    <2>2. tCount.ops + 1 \in 0..tPlan.ops
      BY <1>0, <2>1
    <2> QED  BY <1>0, <2>1, <2>2 DEF CountTypes
  <1>3. CASE EnterTable
    <2>1. tCount' = [tCount EXCEPT !.visits = tCount.visits + 1] /\ tPlan' = tPlan
      BY <1>3 DEF EnterTable
    <2>2. tCount.visits + 1 \in Nat
      BY <1>0
    <2> QED  BY <1>0, <2>1, <2>2 DEF CountTypes
  <1>4. CASE \E i \in DOMAIN tRows : OthersRemove(i)
    <2>1. tCount' = [tCount EXCEPT !.others = tCount.others + 1] /\ tPlan' = tPlan
      BY <1>4 DEF OthersRemove
    <2>2. tCount.others + 1 \in Nat
      BY <1>0
    <2> QED  BY <1>0, <2>1, <2>2 DEF CountTypes
  <1>5. CASE Browses /\ ~EnterTable
    BY <1>1, <1>5 DEF Browses, LeaveTable, SwitchTab, RefreshRows, RefreshColumns, SortBy, TurnPage, ShowPage, requests
  <1>6. CASE UsesDialog \/ Fetches
    BY <1>1, <1>6, UsesDialogFrame, FetchesFrame
  <1>7. CASE \E o \in tOps : Serves(o) \/ SucceedT(o) \/ FailT(o)
    BY <1>1, <1>7, ServesFrame DEF SucceedT, FailT
  <1>8. CASE UNCHANGED tableVars
    BY <1>1, <1>8 DEF tableVars
  <1> QED  BY <1>2, <1>3, <1>4, <1>5, <1>6, <1>7, <1>8, TableStep


\* What the page shows of its queries.
LEMMA ShownFacts ==
    ASSUME ColumnQueryTypes, RowQueryTypes, ViewTypes
    PROVE  /\ ShownColumns \in ColumnLists
           /\ colQ.data # NoData => colQ.data \in ColumnLists /\ ShownColumns = colQ.data
           /\ colQ.fetch = "read" => colQ.answer \in ColumnLists
           /\ rowQ[Shown].data # NoData => rowQ[Shown].data \in Pages /\ ShownRows = rowQ[Shown].data.rows
           /\ \A i \in DOMAIN ShownRows :
                /\ rowQ[Shown].data # NoData /\ rowQ[Shown].data.names \in Seq(Names)
                /\ ShownRows[i] \in Row /\ DOMAIN ShownRows[i] = DOMAIN rowQ[Shown].data.names
                /\ \A j \in DOMAIN rowQ[Shown].data.names :
                      ShownRows[i][j] \in Values /\ rowQ[Shown].data.names[j] \in Names
  <1>1. colQ.data # NoData => colQ.data \in ColumnLists /\ ShownColumns = colQ.data
    BY DEF ColumnQueryTypes, Entries, ShownColumns
  <1>2. <<>> \in ColumnLists /\ \A i \in DOMAIN <<>> : FALSE
    <2>1. <<>> \in Seq(Columns) /\ \A i \in DOMAIN <<>> : FALSE
      BY EmptySeq
    <2> QED  BY <2>1 DEF ColumnLists
  <1>3. ShownColumns \in ColumnLists
    BY <1>1, <1>2 DEF ShownColumns
  <1>4. Shown \in PageKeys
    BY ViewFacts
  <1>5. rowQ[Shown].data # NoData => rowQ[Shown].data \in Pages /\ ShownRows = rowQ[Shown].data.rows
    BY <1>4 DEF RowQueryTypes, Entries, ShownRows
  <1>6. ASSUME NEW i \in DOMAIN ShownRows
        PROVE  /\ rowQ[Shown].data # NoData /\ rowQ[Shown].data.names \in Seq(Names)
               /\ ShownRows[i] \in Row /\ DOMAIN ShownRows[i] = DOMAIN rowQ[Shown].data.names
               /\ \A j \in DOMAIN rowQ[Shown].data.names :
                      ShownRows[i][j] \in Values /\ rowQ[Shown].data.names[j] \in Names
    <2>1. rowQ[Shown].data # NoData
      BY <1>2, <1>6 DEF ShownRows
    <2> DEFINE p == rowQ[Shown].data
    <2>2. p \in Pages /\ ShownRows = p.rows
      BY <1>5, <2>1
    <2> HIDE DEF p
    <2>3. p.names \in Seq(Names) /\ p.rows \in Seq(Row) /\ DOMAIN p.rows[i] = DOMAIN p.names
      BY <1>6, <2>2 DEF Pages
    <2>4. p.rows[i] \in Seq(Values)
      BY <1>6, <2>2, <2>3, LenProperties, ElementOfSeq DEF Row
    <2>5. \A j \in DOMAIN p.names : p.rows[i][j] \in Values /\ p.names[j] \in Names
      BY <2>3, <2>4, ElementOfSeq, LenProperties
    <2> QED  BY <2>1, <2>2, <2>3, <2>4, <2>5 DEF p, Row
  <1> QED  BY <1>1, <1>3, <1>5, <1>6 DEF ColumnQueryTypes

\* The value of a row at a position, and a form filled with values.
LEMMA ValueAtTyped ==
    ASSUME NEW row \in Row, NEW i
    PROVE  ValueAt(row, i) \in Values /\ TextOf(ValueAt(row, i)) \in Values
  <1>1. \A j \in DOMAIN row : row[j] \in Values
    BY LenProperties, ElementOfSeq DEF Row
  <1>2. ValueAt(row, i) \in Values
    BY <1>1, CellFacts DEF ValueAt
  <1> QED  BY <1>2, CellFacts

LEMMA SeedTyped ==
    ASSUME NEW b \in EditBoxes, b.open, NEW cols
    PROVE  Seed(b, cols) \in EditBoxes
  <1>1. b.row \in Row /\ DOMAIN b.row = DOMAIN b.names
    BY DEF EditBoxes
  <1> DEFINE f == [n \in Names |-> IF HasColumn(cols, n) THEN TextOf(ValueAt(b.row, Position(cols, n))) ELSE EmptyText]
  <1>2. f \in [Names -> Values]
    BY <1>1, ValueAtTyped, CellFacts
  <1>3. Seed(b, cols) = [b EXCEPT !.form = f]
    BY DEF Seed
  <1> HIDE DEF f
  <1> QED  BY <1>1, <1>2, <1>3 DEF EditBoxes

LEMMA ClosedTyped ==
    /\ ClosedEdit \in EditBoxes /\ ~ClosedEdit.open
    /\ NothingTyped \in [Names -> Values]
    /\ BlankColumn \in ColumnInfos
    /\ ClosedAlter \in [column : Columns \cup {NoColumn}, form : ColumnInfos]
    /\ ClosedEdit.typed = [n \in Names |-> NullValue] /\ ClosedEdit.form = NothingTyped
    /\ ClosedEdit.names \in Seq(Names)
  <1>1. NothingTyped \in [Names -> Values] /\ [n \in Names |-> NullValue] \in [Names -> Values]
    BY CellFacts DEF NothingTyped
  <1>2. <<>> \in Seq(Names)
    BY EmptySeq
  <1>3. ClosedEdit \in EditBoxes
    BY <1>1, <1>2 DEF ClosedEdit, EditBoxes
  <1>4. BlankColumn \in ColumnInfos
    BY DEF BlankColumn, ColumnInfos
  <1> QED  BY <1>1, <1>2, <1>3, <1>4 DEF ClosedEdit, ClosedAlter

LEMMA OpenEditTyped ==
    ASSUME TableTypes, NEW i, OpenEdit(i)
    PROVE  editBox' \in EditBoxes
  <1> DEFINE row == ShownRows[i]
             names == rowQ[Shown].data.names
             f == editBox.form
             box == [ClosedEdit EXCEPT !.open = TRUE, !.row = row, !.names = names, !.form = f]
  <1>1. i \in DOMAIN ShownRows
        /\ editBox' = IF colQ.data = NoData THEN box ELSE Seed(box, colQ.data)
    BY DEF OpenEdit
  <1>2. row \in Row /\ names \in Seq(Names) /\ DOMAIN row = DOMAIN names
    BY <1>1, ShownFacts DEF TableTypes
  <1>3. f \in [Names -> Values]
    BY DEF TableTypes, BoxTypes, EditBoxes
  <1> HIDE DEF row, names, f
  <1>4. box \in EditBoxes /\ box.open
    BY <1>2, <1>3, ClosedTyped DEF EditBoxes
  <1> HIDE DEF box
  <1> QED  BY <1>1, <1>4, SeedTyped

LEMMA EditBoxStep ==
    ASSUME TableTypes, [TableNext]_tableVars
    PROVE  editBox' \in EditBoxes
  <1>0. editBox \in EditBoxes
    BY DEF TableTypes, BoxTypes
  <1>1. CASE editBox' = editBox \/ editBox' = [editBox EXCEPT !.open = FALSE] \/ editBox' = ClosedEdit
    BY <1>0, <1>1, ClosedTyped DEF EditBoxes
  <1>2. CASE Browses
    BY <1>1, <1>2 DEF Browses, EnterTable, LeaveTable, SwitchTab, RefreshRows, RefreshColumns, SortBy, TurnPage,
        ShowPage, boxes
  <1>3. CASE UsesDialog
    <2>1. CASE \E i \in 1..PageSize : OpenEdit(i)
      BY <2>1, OpenEditTyped
    <2>2. ASSUME NEW n \in Names, NEW v \in TypedTexts, TypeEdit(n, v)
          PROVE  editBox' \in EditBoxes
      <3>1. v \in Values
        BY CellFacts
      <3>2. editBox' = [editBox EXCEPT !.form[n] = v, !.typed[n] = v]
        BY <2>2 DEF TypeEdit
      <3> QED  BY <1>0, <3>1, <3>2 DEF EditBoxes
    <2>3. CASE \/ OpenInsert \/ CancelInsert \/ CancelEdit \/ CancelDelete \/ OpenAdd \/ CancelAdd \/ CancelAlter
               \/ \E n \in Names, v \in TypedTexts : TypeInsert(n, v)
               \/ \E i \in 1..PageSize : OpenDelete(i)
               \/ \E f \in ColumnForms : FillAdd(f) \/ FillAlter(f)
               \/ \E c \in Range(ShownColumns) : OpenAlter(c)
      BY <1>1, <2>3 DEF OpenInsert, CancelInsert, CancelEdit, CancelDelete, OpenAdd, CancelAdd, CancelAlter,
        TypeInsert, OpenDelete, FillAdd, FillAlter, OpenAlter
    <2> QED  BY <1>3, <2>1, <2>2, <2>3 DEF UsesDialog
  <1>4. CASE Sends
    BY <1>1, <1>4, SendsFrame
  <1>5. CASE Fetches
    <2>1. CASE ColumnsArrive
      <3>1. CASE editBox.open /\ colQ.answer # colQ.data
        <4>1. editBox' = [Seed(editBox, colQ.answer) EXCEPT !.reseeded = (colQ.data # NoData)]
          BY <2>1, <3>1 DEF ColumnsArrive
        <4> DEFINE b == Seed(editBox, colQ.answer)
                   e == (colQ.data # NoData)
        <4>2. b \in EditBoxes /\ e \in BOOLEAN
          BY <1>0, <3>1, SeedTyped
        <4> HIDE DEF b, e
        <4>3. [b EXCEPT !.reseeded = e] \in EditBoxes
          BY <4>2 DEF EditBoxes
        <4> QED  BY <4>1, <4>3 DEF b, e
      <3>2. CASE ~(editBox.open /\ colQ.answer # colQ.data)
        BY <1>1, <2>1, <3>2 DEF ColumnsArrive
      <3> QED  BY <3>1, <3>2
    <2>2. CASE Fetches /\ ~ColumnsArrive
      BY <1>1, <2>2 DEF Fetches, ReadRows, RowsArrive, RowsFail, ReadColumns, ColumnsFail, boxes
    <2> QED  BY <1>5, <2>1, <2>2
  <1>6. CASE \/ \E o \in tOps : Serves(o) \/ SucceedT(o) \/ FailT(o)
             \/ \E i \in DOMAIN tRows : OthersRemove(i)
    BY <1>1, <1>6, ServesFrame DEF SucceedT, FailT, OthersRemove, boxes
  <1>7. CASE UNCHANGED tableVars
    BY <1>1, <1>7 DEF tableVars
  <1> QED  BY <1>2, <1>3, <1>4, <1>5, <1>6, <1>7, TableStep


OtherBoxTypes ==
    /\ insertBox \in [open : BOOLEAN, form : [Names -> Values]]
    /\ deleteBox \in (SUBSET Pairs) \cup {NoRow}
    /\ addBox \in [open : BOOLEAN, form : ColumnInfos]
    /\ alterBox \in [column : Columns \cup {NoColumn}, form : ColumnInfos]

LEMMA OtherBoxesStep ==
    ASSUME TableTypes, [TableNext]_tableVars
    PROVE  OtherBoxTypes'
  <1>0. OtherBoxTypes
    BY DEF TableTypes, BoxTypes, OtherBoxTypes
  <1>1. CASE UNCHANGED <<insertBox, deleteBox, addBox, alterBox>>
    BY <1>0, <1>1 DEF OtherBoxTypes
  \* Closed and opened, emptied or left.
  <1>2. ASSUME /\ \/ insertBox' = insertBox
                  \/ insertBox' = [open |-> FALSE, form |-> NothingTyped]
                  \/ \E b \in BOOLEAN : insertBox' = [insertBox EXCEPT !.open = b]
               /\ deleteBox' = deleteBox \/ deleteBox' = NoRow
               /\ \/ addBox' = addBox \/ addBox' = [open |-> FALSE, form |-> BlankColumn]
                  \/ \E b \in BOOLEAN : addBox' = [addBox EXCEPT !.open = b]
               /\ \/ alterBox' = alterBox \/ alterBox' = ClosedAlter
                  \/ alterBox' = [alterBox EXCEPT !.column = NoColumn]
        PROVE  OtherBoxTypes'
    <2>1. insertBox' \in [open : BOOLEAN, form : [Names -> Values]]
      <3>1. \A b \in BOOLEAN : [insertBox EXCEPT !.open = b] \in [open : BOOLEAN, form : [Names -> Values]]
        BY <1>0 DEF OtherBoxTypes
      <3>2. [open |-> FALSE, form |-> NothingTyped] \in [open : BOOLEAN, form : [Names -> Values]]
        BY ClosedTyped
      <3> QED  BY <1>0, <1>2, <3>1, <3>2, Zenon DEF OtherBoxTypes
    <2>2. deleteBox' \in (SUBSET Pairs) \cup {NoRow}
      BY <1>0, <1>2 DEF OtherBoxTypes
    <2>3. addBox' \in [open : BOOLEAN, form : ColumnInfos]
      <3>1. \A b \in BOOLEAN : [addBox EXCEPT !.open = b] \in [open : BOOLEAN, form : ColumnInfos]
        BY <1>0 DEF OtherBoxTypes
      <3>2. [open |-> FALSE, form |-> BlankColumn] \in [open : BOOLEAN, form : ColumnInfos]
        BY ClosedTyped
      <3> QED  BY <1>0, <1>2, <3>1, <3>2, Zenon DEF OtherBoxTypes
    <2>4. alterBox' \in [column : Columns \cup {NoColumn}, form : ColumnInfos]
      BY <1>0, <1>2, ClosedTyped DEF OtherBoxTypes
    <2> QED  BY <2>1, <2>2, <2>3, <2>4 DEF OtherBoxTypes
  <1>3. CASE Browses
    <2>1. CASE LeaveTable \/ SwitchTab
      BY <1>2, <2>1 DEF LeaveTable, SwitchTab
    <2>2. CASE Browses /\ ~LeaveTable /\ ~SwitchTab
      BY <1>1, <2>2 DEF Browses, EnterTable, RefreshRows, RefreshColumns, SortBy, TurnPage, ShowPage, boxes
    <2> QED  BY <1>3, <2>1, <2>2
  <1>4. CASE OpenInsert \/ CancelInsert \/ CancelEdit \/ CancelDelete \/ OpenAdd \/ CancelAdd \/ CancelAlter
    BY <1>2, <1>4 DEF OpenInsert, CancelInsert, CancelEdit, CancelDelete, OpenAdd, CancelAdd, CancelAlter
  <1>5. ASSUME NEW n \in Names, NEW v \in TypedTexts, TypeInsert(n, v) \/ TypeEdit(n, v)
        PROVE  OtherBoxTypes'
    <2>1. v \in Values
      BY CellFacts
    <2>2. CASE TypeInsert(n, v)
      <3>1. insertBox' = [insertBox EXCEPT !.form[n] = v] /\ UNCHANGED <<deleteBox, addBox, alterBox>>
        BY <2>2 DEF TypeInsert
      <3> QED  BY <1>0, <2>1, <3>1 DEF OtherBoxTypes
    <2>3. CASE TypeEdit(n, v)
      BY <1>1, <2>3 DEF TypeEdit
    <2> QED  BY <1>5, <2>2, <2>3
  <1>6. ASSUME NEW i, OpenEdit(i) \/ OpenDelete(i)
        PROVE  OtherBoxTypes'
    <2>1. CASE OpenEdit(i)
      BY <1>1, <2>1 DEF OpenEdit
    <2>2. CASE OpenDelete(i)
      <3> DEFINE names == rowQ[Shown].data.names
                 row == ShownRows[i]
                 pairs == {<<names[j], row[j]>> : j \in DOMAIN names}
      <3>1. /\ deleteBox' = pairs /\ UNCHANGED <<insertBox, addBox, alterBox>>
            /\ i \in DOMAIN ShownRows
        BY <2>2 DEF OpenDelete
      <3>2. \A j \in DOMAIN names : row[j] \in Values /\ names[j] \in Names
        BY <3>1, ShownFacts DEF TableTypes
      <3> HIDE DEF names, row
      <3>3. pairs \in SUBSET Pairs
        BY <3>2 DEF Pairs
      <3> QED  BY <1>0, <3>1, <3>3 DEF OtherBoxTypes
    <2> QED  BY <1>6, <2>1, <2>2
  <1>7. ASSUME NEW f \in ColumnForms, FillAdd(f) \/ FillAlter(f)
        PROVE  OtherBoxTypes'
    <2> DEFINE g == [f EXCEPT !.pk = FALSE]
    <2>1. g \in ColumnInfos
      <3>1. f \in ColumnInfos
        BY TablePlansAssumption
      <3> QED  BY <3>1 DEF ColumnInfos
    <2>2. \/ addBox' = [addBox EXCEPT !.form = g] /\ UNCHANGED <<insertBox, deleteBox, alterBox>>
          \/ alterBox' = [alterBox EXCEPT !.form = g] /\ UNCHANGED <<insertBox, deleteBox, addBox>>
      BY <1>7 DEF FillAdd, FillAlter
    <2> HIDE DEF g
    <2> QED  BY <1>0, <2>1, <2>2 DEF OtherBoxTypes
  <1>8. ASSUME NEW c \in Range(ShownColumns), OpenAlter(c)
        PROVE  OtherBoxTypes'
    <2>1. c \in Columns
      BY ShownFacts, ColumnListFacts DEF TableTypes
    <2>2. alterBox' = [alterBox EXCEPT !.column = c] /\ UNCHANGED <<insertBox, deleteBox, addBox>>
      BY <1>8 DEF OpenAlter
    <2> QED  BY <1>0, <2>1, <2>2 DEF OtherBoxTypes
  <1>9. CASE Sends \/ Fetches
    BY <1>1, <1>9, SendsFrame, FetchesFrame
  <1>10. ASSUME NEW o \in tOps, Serves(o) \/ FailT(o)
         PROVE  OtherBoxTypes'
    BY <1>1, <1>10, ServesFrame DEF FailT, boxes
  <1>11. ASSUME NEW o \in tOps, SucceedT(o)
         PROVE  OtherBoxTypes'
    BY <1>2, <1>11 DEF SucceedT
  <1>12. CASE \E i \in DOMAIN tRows : OthersRemove(i)
    BY <1>1, <1>12 DEF OthersRemove, boxes
  <1>13. CASE UNCHANGED tableVars
    BY <1>1, <1>13 DEF tableVars
  <1> QED
    BY <1>3, <1>4, <1>5, <1>6, <1>7, <1>8, <1>9, <1>10, <1>11, <1>12, <1>13, TableStep DEF UsesDialog

\* The requests that are sent.
LEMMA RequestTyped ==
    ASSUME NEW kind \in {"insert", "update", "delete", "add", "drop", "alter"}, tCount.ops \in Nat,
           NEW set \in SUBSET Pairs, NEW where \in SUBSET Pairs, NEW column \in ColumnInfos,
           NEW form \in ColumnInfos, NEW stmts \in Seq(StatementNames), NEW from \in EditBoxes,
           NEW names \in Seq(Names), kind \in {"add", "alter"} => form.name # "",
           NEW o, o = [Request(kind) EXCEPT !.set = set, !.where = where, !.column = column, !.form = form,
                            !.stmts = stmts, !.from = from, !.names = names]
    PROVE  o \in TableRequests
  BY DEF Request, TableRequests

LEMMA StatementsTyped ==
    ASSUME NEW c, NEW f
    PROVE  /\ Statements(c, f) \in Seq(StatementNames) /\ Statements(c, f) # <<>>
  <1> DEFINE a == IF f.name # c.name THEN <<"rename">> ELSE <<>>
             b == IF f.nullable # c.nullable THEN <<"nullable">> ELSE <<>>
             d == IF f.default # c.default THEN <<"default">> ELSE <<>>
             t == <<"type">>
  <1>1. a \in Seq(StatementNames) /\ b \in Seq(StatementNames) /\ d \in Seq(StatementNames)
        /\ t \in Seq(StatementNames) /\ Len(t) = 1
    <2>1. \A n \in StatementNames : <<n>> \in Seq(StatementNames) /\ Len(<<n>>) = 1
      OBVIOUS
    <2>2. <<>> \in Seq(StatementNames)
      BY EmptySeq
    <2>3. {"rename", "type", "nullable", "default"} \subseteq StatementNames
      BY DEF StatementNames
    <2>4. t \in Seq(StatementNames) /\ Len(t) = 1
      BY <2>1, <2>3
    <2>5. a \in Seq(StatementNames)
      BY <2>1, <2>2, <2>3
    <2>6. b \in Seq(StatementNames)
      BY <2>1, <2>2, <2>3
    <2>7. d \in Seq(StatementNames)
      BY <2>1, <2>2, <2>3
    <2> QED  BY <2>4, <2>5, <2>6, <2>7
  <1>2. Statements(c, f) = ((a \o t) \o b) \o d
    BY DEF Statements
  <1> HIDE DEF a, b, d, t
  <1>3. a \o t \in Seq(StatementNames) /\ Len(a \o t) = Len(a) + Len(t)
    BY <1>1, ConcatProperties
  <1>4. (a \o t) \o b \in Seq(StatementNames) /\ Len((a \o t) \o b) = Len(a \o t) + Len(b)
    BY <1>1, <1>3, ConcatProperties
  <1>5. ((a \o t) \o b) \o d \in Seq(StatementNames) /\ Len(((a \o t) \o b) \o d) = Len((a \o t) \o b) + Len(d)
    BY <1>1, <1>4, ConcatProperties
  <1>6. Len(a) \in Nat /\ Len(b) \in Nat /\ Len(d) \in Nat
    BY <1>1, LenProperties
  <1>7. Len(((a \o t) \o b) \o d) # 0
    BY <1>1, <1>3, <1>4, <1>5, <1>6
  <1> QED  BY <1>2, <1>5, <1>7, EmptySeq


\* A request that is sent, and what an update is made of.
SentUpdate(r) ==
    /\ editBox.open /\ colQ.data # NoData
    /\ r.set = {<<c.name, ParsedValue(editBox.form[c.name])>> : c \in Range(colQ.data)}
    /\ r.where = {<<colQ.data[i].name, ValueAt(editBox.row, i)>> : i \in DOMAIN colQ.data}
    /\ r.from = editBox /\ r.names = ColumnNamesOf(colQ.data)

SentAlter(r) ==
    /\ r.column = alterBox.column /\ r.column # NoColumn
    /\ r.stmts = Statements(r.column, r.form)

Sent(r) ==
    /\ r \in TableRequests /\ tOps' = tOps \cup {r} /\ ~r.done
    /\ r.kind = "update" => SentUpdate(r)
    /\ r.kind = "alter" => SentAlter(r)

LEMMA SaveInsertSends ==
    ASSUME TableTypes, SaveInsert
    PROVE  \E r : Sent(r)
  <1> DEFINE chosen == {d \in Range(ShownColumns) : insertBox.form[d.name] # EmptyText}
             set == {<<c.name, ParsedValue(insertBox.form[c.name])>> : c \in chosen}
             r == [Request("insert") EXCEPT !.set = set]
  <1>1. tOps' = tOps \cup {r}
    BY DEF SaveInsert, SendT
  <1>2. \A c \in Range(ShownColumns) : c.name \in Names
    <2>1. \A c \in Columns : c.name \in Names
      BY DEF Columns, ColumnInfos
    <2> QED  BY <2>1, ShownFacts, ColumnListFacts DEF TableTypes
  <1>3. insertBox.form \in [Names -> Values]
    BY DEF TableTypes, BoxTypes
  <1>4. set \in SUBSET Pairs
    <2>1. \A v \in Values : ParsedValue(v) \in Values
      BY CellFacts
    <2>2. \A c \in chosen : <<c.name, ParsedValue(insertBox.form[c.name])>> \in Pairs
      BY <1>2, <1>3, <2>1 DEF Pairs
    <2> QED  BY <2>2
  <1>5. tCount.ops \in Nat
    BY PlanFacts DEF TableTypes, CountTypes
  <1> HIDE DEF set
  <1>6. r \in TableRequests /\ r.kind = "insert" /\ ~r.done
    BY <1>4, <1>5, ClosedTyped, EmptySeq DEF Request, TableRequests
  <1> HIDE DEF r
  <1>7. Sent(r)
    BY <1>1, <1>6 DEF Sent
  <1> QED  BY <1>7

LEMMA SaveEditSends ==
    ASSUME TableTypes, SaveEdit
    PROVE  \E r : Sent(r)
  <1> DEFINE cols == colQ.data
             row == editBox.row
             set == {<<c.name, ParsedValue(editBox.form[c.name])>> : c \in Range(cols)}
             where == {<<cols[i].name, ValueAt(row, i)>> : i \in DOMAIN cols}
             names == ColumnNamesOf(cols)
             r == [Request("update") EXCEPT !.set = set, !.where = where, !.from = editBox, !.names = names]
  <1>1. tOps' = tOps \cup {r} /\ editBox.open /\ colQ.data # NoData
    BY DEF SaveEdit, SendT
  <1>2. cols \in ColumnLists
    BY <1>1, ShownFacts DEF TableTypes
  <1>3. row \in Row /\ editBox.form \in [Names -> Values] /\ editBox \in EditBoxes
    BY <1>1 DEF TableTypes, BoxTypes, EditBoxes
  <1> HIDE DEF cols, row
  <1>4. names \in Seq(Names) /\ \A i \in DOMAIN cols : cols[i].name \in Names
    BY <1>2, ColumnListFacts
  <1>5. where \in SUBSET Pairs
    BY <1>3, <1>4, ValueAtTyped DEF Pairs
  <1>6. \A v \in Values : ParsedValue(v) \in Values
    BY CellFacts
  <1>7. set \in SUBSET Pairs
    BY <1>3, <1>4, <1>6 DEF Pairs, Range
  <1>8. tCount.ops \in Nat
    BY PlanFacts DEF TableTypes, CountTypes
  <1> HIDE DEF set, where, names
  <1>9. r \in TableRequests /\ r.kind = "update" /\ ~r.done
    BY <1>3, <1>4, <1>5, <1>7, <1>8, ClosedTyped, EmptySeq DEF Request, TableRequests
  <1>10. r.set = set /\ r.where = where /\ r.from = editBox /\ r.names = names
    BY DEF Request
  <1> HIDE DEF r
  <1>11. SentUpdate(r)
    BY <1>1, <1>10 DEF SentUpdate, set, where, names, cols, row
  <1>12. Sent(r)
    BY <1>1, <1>9, <1>11 DEF Sent
  <1> QED  BY <1>12

LEMMA OthersSend ==
    ASSUME TableTypes, ConfirmDelete \/ SaveAdd \/ \E c \in Range(ShownColumns) : DropColumn(c)
    PROVE  \E r : Sent(r)
  <1>0. tCount.ops \in Nat
    BY PlanFacts DEF TableTypes, CountTypes
  <1>1. CASE ConfirmDelete
    <2> DEFINE r == [Request("delete") EXCEPT !.where = deleteBox]
    <2>1. tOps' = tOps \cup {r} /\ deleteBox \in SUBSET Pairs
      BY <1>1 DEF ConfirmDelete, SendT, TableTypes, BoxTypes
    <2>2. r \in TableRequests /\ r.kind = "delete" /\ ~r.done
      BY <1>0, <2>1, ClosedTyped, EmptySeq DEF Request, TableRequests
    <2> HIDE DEF r
    <2> QED  BY <2>1, <2>2 DEF Sent
  <1>2. CASE SaveAdd
    <2> DEFINE f == addBox.form
               r == [Request("add") EXCEPT !.form = f]
    <2>1. tOps' = tOps \cup {r} /\ f \in ColumnInfos /\ f.name # ""
      BY <1>2 DEF SaveAdd, SendT, TableTypes, BoxTypes
    <2> HIDE DEF f
    <2>2. r \in TableRequests /\ r.kind = "add" /\ ~r.done
      BY <1>0, <2>1, ClosedTyped, EmptySeq DEF Request, TableRequests
    <2> HIDE DEF r
    <2> QED  BY <2>1, <2>2 DEF Sent
  <1>3. ASSUME NEW c \in Range(ShownColumns), DropColumn(c)
        PROVE  \E r : Sent(r)
    <2> DEFINE r == [Request("drop") EXCEPT !.column = c]
    <2>1. tOps' = tOps \cup {r}
      BY <1>3 DEF DropColumn, SendT
    <2>2. c \in Columns
      BY ShownFacts, ColumnListFacts DEF TableTypes
    <2>3. c \in ColumnInfos
      BY <2>2 DEF Columns
    <2>4. r \in TableRequests /\ r.kind = "drop" /\ ~r.done
      BY <1>0, <2>3, ClosedTyped, EmptySeq DEF Request, TableRequests
    <2> HIDE DEF r
    <2> QED  BY <2>1, <2>4 DEF Sent
  <1> QED  BY <1>1, <1>2, <1>3

LEMMA SaveAlterSends ==
    ASSUME TableTypes, SaveAlter
    PROVE  \E r : Sent(r)
  <1> DEFINE f == alterBox.form
             c == alterBox.column
             t == Statements(c, f)
             r == [Request("alter") EXCEPT !.column = c, !.form = f, !.stmts = t]
  <1>1. tOps' = tOps \cup {r} /\ f \in ColumnInfos /\ f.name # "" /\ c # NoColumn /\ c \in ColumnInfos
    BY DEF SaveAlter, SendT, TableTypes, BoxTypes, Columns
  <1>2. c = alterBox.column
    OBVIOUS
  <1>3. t \in Seq(StatementNames)
    BY StatementsTyped
  <1>4. tCount.ops \in Nat
    BY PlanFacts DEF TableTypes, CountTypes
  <1> HIDE DEF f, c, t
  <1>5. r \in TableRequests /\ r.kind = "alter" /\ ~r.done
    BY <1>1, <1>3, <1>4, ClosedTyped, EmptySeq DEF Request, TableRequests
  <1>6. r.column = c /\ r.form = f /\ r.stmts = t
    BY DEF Request
  <1> HIDE DEF r
  <1>7. SentAlter(r)
    BY <1>1, <1>2, <1>6 DEF SentAlter, t
  <1>8. r.kind # "update"
    BY <1>5
  <1> QED  BY <1>1, <1>5, <1>7, <1>8 DEF Sent

LEMMA SendsRequest ==
    ASSUME TableTypes, Sends
    PROVE  \E r : Sent(r)
  BY SaveInsertSends, SaveEditSends, SaveAlterSends, OthersSend DEF Sends

LEMMA RequestsStep ==
    ASSUME TableTypes, [TableNext]_tableVars
    PROVE  tOps' \subseteq TableRequests
  <1>0. tOps \subseteq TableRequests
    BY DEF TableTypes
  <1>1. CASE tOps' \subseteq tOps
    BY <1>0, <1>1
  <1>2. CASE LeaveTable
    BY <1>0, <1>2, SeenTo DEF LeaveTable
  <1>3. CASE SwitchTab
    <2>1. CASE view.tab = "data"
      BY <1>1, <1>3, <2>1 DEF SwitchTab
    <2>2. CASE view.tab # "data"
      <3>1. tOps' = {[o EXCEPT !.live = (o.live /\ o.kind \notin {"alter", "drop"})] : o \in tOps}
        BY <1>3, <2>2 DEF SwitchTab
      <3>2. \A o \in tOps : (o.live /\ o.kind \notin {"alter", "drop"}) \in BOOLEAN
        BY Zenon
      <3> QED  BY <1>0, <3>1, <3>2, SeenTo
    <2> QED  BY <2>1, <2>2
  <1>4. CASE Browses /\ ~LeaveTable /\ ~SwitchTab
    BY <1>1, <1>4 DEF Browses, EnterTable, RefreshRows, RefreshColumns, SortBy, TurnPage, ShowPage, requests
  <1>5. CASE UsesDialog \/ Fetches
    BY <1>1, <1>5, UsesDialogFrame, FetchesFrame
  <1>6. CASE Sends
    BY <1>0, <1>6, SendsRequest DEF Sent
  <1>7. ASSUME NEW o \in tOps, Serves(o)
        PROVE  tOps' \subseteq TableRequests
    BY <1>7, ServesTypes DEF TableTypes
  <1>8. ASSUME NEW o \in tOps, SucceedT(o) \/ FailT(o)
        PROVE  tOps' \subseteq TableRequests
    BY <1>1, <1>8 DEF SucceedT, FailT
  <1>9. CASE \E i \in DOMAIN tRows : OthersRemove(i)
    BY <1>1, <1>9 DEF OthersRemove
  <1>10. CASE UNCHANGED tableVars
    BY <1>1, <1>10 DEF tableVars
  <1> QED  BY <1>2, <1>3, <1>4, <1>5, <1>6, <1>7, <1>8, <1>9, <1>10, TableStep

LEMMA ServerStep ==
    ASSUME TableTypes, [TableNext]_tableVars
    PROVE  ServerTypes' /\ RowsStay
  <1>0. ServerTypes /\ tOps \subseteq TableRequests
    BY DEF TableTypes
  <1>1. CASE UNCHANGED <<tCols, tRows>> /\ tGhost' \in {tGhost, [tGhost EXCEPT !.unsure = TRUE]}
    <2>1. Len(tRows) \in Nat
      BY <1>0, LenProperties DEF ServerTypes
    <2>2. Len(tRows) <= Len(tRows')
      BY <1>1, <2>1
    <2>3. tGhost' \in [unsure : BOOLEAN, reshaped : BOOLEAN, removed : BOOLEAN] /\ tGhost'.removed = tGhost.removed
      BY <1>0, <1>1 DEF ServerTypes
    <2> QED  BY <1>0, <1>1, <2>2, <2>3 DEF ServerTypes, RowsStay
  <1>2. CASE Browses \/ UsesDialog \/ Sends \/ Fetches
    BY <1>1, <1>2, BrowsesFrame, UsesDialogFrame, SendsFrame, FetchesFrame
  <1>3. CASE \E o \in tOps : Serves(o)
    BY <1>0, <1>3, ServesTypes
  <1>4. CASE \E o \in tOps : SucceedT(o) \/ FailT(o)
    BY <1>1, <1>4 DEF SucceedT, FailT, server
  <1>5. CASE \E i \in DOMAIN tRows : OthersRemove(i)
    BY <1>0, <1>5, OthersTypes
  <1>6. CASE UNCHANGED tableVars
    BY <1>1, <1>6 DEF tableVars
  <1> QED  BY <1>2, <1>3, <1>4, <1>5, <1>6, TableStep

LEMMA TableTypesStep ==
    ASSUME TableTypes, [TableNext]_tableVars
    PROVE  TableTypes'
  <1>1. ColumnQueryTypes' /\ RowQueryTypes'
    BY QueryStep, QueryTypes DEF TableTypes
  <1>2. BoxTypes'
    BY EditBoxStep, OtherBoxesStep DEF BoxTypes, OtherBoxTypes
  <1> QED  BY <1>1, <1>2, ServerStep, ViewTypesStep, CountTypesStep, RequestsStep DEF TableTypes

LEMMA TableTypesInit == TableInit => TableTypes
  <1> SUFFICES ASSUME TableInit PROVE TableTypes
    OBVIOUS
  <1>1. /\ tPlan \in TablePlans /\ tCols = tPlan.cols /\ tRows = tPlan.rows
        /\ colQ = Unasked /\ rowQ = [k \in PageKeys |-> Unasked]
        /\ view = [tab |-> "away", page |-> 0, sort |-> Unsorted]
        /\ insertBox = [open |-> FALSE, form |-> NothingTyped] /\ editBox = ClosedEdit
        /\ deleteBox = NoRow /\ addBox = [open |-> FALSE, form |-> BlankColumn]
        /\ alterBox = ClosedAlter
        /\ tOps = {} /\ tCount = [ops |-> 0, others |-> 0, visits |-> 0]
        /\ tGhost = [unsure |-> FALSE, reshaped |-> FALSE, removed |-> FALSE]
    BY DEF TableInit
  <1>2. ServerTypes
    BY <1>1, PlanFacts DEF ServerTypes
  <1>3. Unasked \in Entries(ColumnLists) /\ Unasked \in Entries(Pages) /\ Unasked.fetch # "read"
    BY UnaskedVouched DEF Unasked
  <1>4. ColumnQueryTypes /\ RowQueryTypes
    BY <1>1, <1>3 DEF ColumnQueryTypes, RowQueryTypes
  <1>5. ViewTypes
    <2>1. Unsorted \in [by : SortNames \cup {""}, dir : {"asc", "desc"}]
      BY DEF Unsorted
    <2> QED  BY <1>1, <2>1, RowPageNumbers DEF ViewTypes
  <1>6. BoxTypes
    BY <1>1, ClosedTyped DEF BoxTypes
  <1>7. CountTypes
    <2>1. 0 \in 0..tPlan.ops
      BY <1>1, PlanFacts
    <2> QED  BY <1>1, <2>1 DEF CountTypes
  <1> QED  BY <1>1, <1>2, <1>4, <1>5, <1>6, <1>7 DEF TableTypes


-----------------------------------------------------------------------------
(* The cache and the table.  While a request about the columns is on its   *)
(* way, some of its statements may be done; else the cached columns vouch  *)
(* for the table's.  The rows likewise, as long as no column was changed:  *)
(* changes of the columns are not told to the pages of rows.               *)

RowKinds == {"insert", "update", "delete"}
ColumnsUntold == tGhost.unsure \/ \E o \in tOps : o.kind \notin RowKinds
RowsUntold == tGhost.unsure \/ tGhost.reshaped \/ \E o \in tOps : o.kind \in RowKinds
ColumnsVouch == ~ColumnsUntold => Vouched(colQ, {tCols})
RowsVouch == ~RowsUntold => \A k \in PageKeys : Vouched(rowQ[k], {PageOf(k)})

KindsStay == \A o \in tOps : \E r \in tOps' : r.kind = o.kind

LEMMA KindsOf ==
    ASSUME TableTypes, [TableNext]_tableVars
    PROVE  KindsStay \/ \E o \in tOps : SucceedT(o) \/ FailT(o)
  <1>0. tOps \subseteq TableRequests
    BY DEF TableTypes
  <1>1. CASE tOps \subseteq tOps'
    BY <1>1 DEF KindsStay
  <1>2. CASE LeaveTable \/ (SwitchTab /\ view.tab # "data")
    <2>1. \A o \in tOps : \E b : [o EXCEPT !.live = b] \in tOps'
      <3>1. CASE LeaveTable
        <4>1. tOps' = {[o EXCEPT !.live = FALSE] : o \in tOps}
          BY <3>1 DEF LeaveTable
        <4> QED  BY <4>1
      <3>2. CASE SwitchTab /\ view.tab # "data"
        <4>1. tOps' = {[o EXCEPT !.live = (o.live /\ o.kind \notin {"alter", "drop"})] : o \in tOps}
          BY <3>2 DEF SwitchTab
        <4> QED  BY <4>1
      <3> QED  BY <1>2, <3>1, <3>2
    <2>2. \A o \in tOps : \A b : [o EXCEPT !.live = b].kind = o.kind
      BY <1>0 DEF TableRequests
    <2> QED  BY <2>1, <2>2 DEF KindsStay
  <1>3. CASE Browses /\ ~LeaveTable /\ ~(SwitchTab /\ view.tab # "data")
    BY <1>1, <1>3 DEF Browses, EnterTable, SwitchTab, RefreshRows, RefreshColumns, SortBy, TurnPage, ShowPage, requests
  <1>4. CASE UsesDialog \/ Fetches
    BY <1>1, <1>4, UsesDialogFrame, FetchesFrame
  <1>5. CASE Sends
    BY <1>1, <1>5, SendsRequest DEF Sent
  <1>6. ASSUME NEW o \in tOps, Serves(o)
        PROVE  KindsStay
    <2>1. \E t, b : [o EXCEPT !.stmts = t, !.done = b] \in tOps' /\ tOps \ {o} \subseteq tOps'
      <3>1. CASE HandleStatement(o)
        BY <3>1 DEF HandleStatement
      <3>2. CASE Reply(o)
        <4>1. [o EXCEPT !.stmts = o.stmts, !.done = TRUE] = [o EXCEPT !.done = TRUE]
          BY <1>0 DEF TableRequests
        <4> QED  BY <3>2, <4>1 DEF Reply
      <3> QED  BY <1>6, <3>1, <3>2 DEF Serves, HandleInsert, HandleUpdate, HandleDelete, HandleAdd, HandleDrop
    <2>2. \A t, b : [o EXCEPT !.stmts = t, !.done = b].kind = o.kind
      BY <1>0 DEF TableRequests
    <2> QED  BY <2>1, <2>2 DEF KindsStay
  <1>7. CASE \E i \in DOMAIN tRows : OthersRemove(i)
    BY <1>1, <1>7 DEF OthersRemove
  <1>8. CASE UNCHANGED tableVars
    BY <1>1, <1>8 DEF tableVars
  <1> QED  BY <1>2, <1>3, <1>4, <1>5, <1>6, <1>7, <1>8, TableStep

\* What is noted stays noted, and what the handlers change is noted.
LEMMA NotedStep ==
    ASSUME TableTypes, [TableNext]_tableVars
    PROVE  /\ tGhost.unsure => tGhost'.unsure
           /\ tGhost.reshaped => tGhost'.reshaped
           /\ \/ tCols' = tCols
              \/ tGhost'.reshaped /\ \E o \in tOps : o.kind \notin RowKinds /\ Serves(o)
           /\ \/ tCols' = tCols /\ tRows' = tRows
              \/ tGhost'.reshaped \/ tGhost'.unsure \/ \E o \in tOps : o.kind \in RowKinds /\ Serves(o)
  <1>0. tGhost \in [unsure : BOOLEAN, reshaped : BOOLEAN, removed : BOOLEAN]
    BY DEF TableTypes, ServerTypes
  <1>1. CASE UNCHANGED <<tCols, tRows, tGhost>>
    BY <1>1
  <1>2. CASE Browses \/ UsesDialog \/ Sends \/ Fetches
    BY <1>1, <1>2, BrowsesFrame, UsesDialogFrame, SendsFrame, FetchesFrame
  <1>3. ASSUME NEW o \in tOps, SucceedT(o)
        PROVE  UNCHANGED <<tCols, tRows, tGhost>>
    BY <1>3 DEF SucceedT, server
  <1>4. ASSUME NEW o \in tOps, FailT(o)
        PROVE  /\ UNCHANGED <<tCols, tRows>> /\ tGhost'.unsure /\ tGhost'.reshaped = tGhost.reshaped
    BY <1>0, <1>4 DEF FailT
  <1>5. ASSUME NEW o \in tOps, HandleInsert(o) \/ HandleUpdate(o)
        PROVE  UNCHANGED <<tCols, tGhost>> /\ o.kind \in RowKinds /\ Serves(o)
    BY <1>5 DEF HandleInsert, HandleUpdate, RowKinds, Serves
  <1>6. ASSUME NEW o \in tOps, HandleDelete(o)
        PROVE  /\ UNCHANGED tCols /\ o.kind \in RowKinds /\ Serves(o)
               /\ tGhost'.unsure = tGhost.unsure /\ tGhost'.reshaped = tGhost.reshaped
    <2>1. tGhost' = [tGhost EXCEPT !.removed = TRUE] /\ UNCHANGED tCols /\ o.kind = "delete"
      BY <1>6 DEF HandleDelete
    <2> QED  BY <1>0, <1>6, <2>1 DEF Serves, RowKinds
  <1>7. ASSUME NEW o \in tOps, HandleAdd(o) \/ HandleDrop(o) \/ HandleStatement(o)
        PROVE  /\ o.kind \notin RowKinds /\ Serves(o)
               /\ tGhost'.unsure = tGhost.unsure /\ tGhost'.reshaped
    <2>1. tGhost' = [tGhost EXCEPT !.reshaped = TRUE] /\ o.kind \in {"add", "drop", "alter"}
      BY <1>7 DEF HandleAdd, HandleDrop, HandleStatement
    <2> QED  BY <1>0, <1>7, <2>1 DEF Serves, RowKinds
  <1>8. ASSUME NEW i \in DOMAIN tRows, OthersRemove(i)
        PROVE  UNCHANGED tCols /\ tGhost'.unsure /\ tGhost'.reshaped = tGhost.reshaped
    BY <1>0, <1>8 DEF OthersRemove
  <1>9. CASE UNCHANGED tableVars
    BY <1>1, <1>9 DEF tableVars
  <1>10. CASE \E o \in tOps : Serves(o)
    BY <1>5, <1>6, <1>7, <1>10 DEF Serves
  <1>11. CASE \E o \in tOps : SucceedT(o) \/ FailT(o)
    BY <1>1, <1>3, <1>4, <1>11
  <1>12. CASE \E i \in DOMAIN tRows : OthersRemove(i)
    BY <1>8, <1>12
  <1> QED  BY <1>2, <1>9, <1>10, <1>11, <1>12, TableStep

\* An answer removes no request but its own.
LEMMA AnswerKinds ==
    ASSUME NEW o \in tOps, tOps' = tOps \ {o}, tGhost' = tGhost
    PROVE  /\ o.kind \in RowKinds /\ ColumnsUntold => ColumnsUntold'
           /\ o.kind \notin RowKinds /\ RowsUntold => RowsUntold'
  BY DEF ColumnsUntold, RowsUntold

LEMMA ColumnsVouchStep ==
    ASSUME TableTypes, ColumnsVouch, [TableNext]_tableVars
    PROVE  ColumnsVouch'
  <1>0. /\ tCols \in ColumnLists /\ colQ \in Entries(ColumnLists)
        /\ colQ.fetch = "read" => colQ.answer \in ColumnLists
        /\ EntrySteps(colQ, colQ', tCols)
    BY QueryStep DEF TableTypes, ServerTypes, ColumnQueryTypes, QuerySteps
  <1>1. Vouched(colQ, {tCols}) => Vouched(colQ', {tCols})
    <2>1. tCols \in {tCols}
      OBVIOUS
    <2> QED  BY <1>0, <2>1, EntryStepTyped
  <1>2. ASSUME tCols' = tCols, ColumnsUntold => ColumnsUntold'
        PROVE  ColumnsVouch'
    <2> PICK cols : cols = tCols
      OBVIOUS
    <2>1. ~ColumnsUntold' => Vouched(colQ', {cols})
      BY <1>1, <1>2 DEF ColumnsVouch
    <2> QED  BY <1>2, <2>1 DEF ColumnsVouch
  <1>3. CASE KindsStay
    <2>1. ColumnsUntold => ColumnsUntold'
      BY <1>3, NotedStep DEF ColumnsUntold, KindsStay
    <2>2. CASE tCols' = tCols
      BY <1>2, <2>1, <2>2
    <2>3. CASE \E o \in tOps : o.kind \notin RowKinds
      <3>1. ColumnsUntold'
        BY <1>3, <2>3 DEF ColumnsUntold, KindsStay
      <3> QED  BY <3>1 DEF ColumnsVouch
    <2> QED  BY <2>2, <2>3, NotedStep
  <1>4. ASSUME NEW o \in tOps, SucceedT(o)
        PROVE  ColumnsVouch'
    <2>1. tOps' = tOps \ {o} /\ UNCHANGED <<tCols, tGhost>>
      BY <1>4 DEF SucceedT, server
    <2>2. CASE o.kind \in RowKinds
      BY <1>2, <2>1, <2>2, AnswerKinds
    <2>3. CASE o.kind \notin RowKinds
      <3> DEFINE b == ColumnsShown
      <3>1. colQ' = Invalidate(colQ, b) /\ b \in BOOLEAN
        BY <1>4, <2>3 DEF SucceedT, RowKinds, ColumnsShown
      <3> HIDE DEF b
      <3> PICK cols : cols = tCols
        OBVIOUS
      <3>2. Vouched(colQ', {cols})
        BY <1>0, <3>1, InvalidateVouched
      <3> QED  BY <2>1, <3>2 DEF ColumnsVouch
    <2> QED  BY <2>2, <2>3
  <1>5. ASSUME NEW o \in tOps, FailT(o)
        PROVE  ColumnsVouch'
    <2>1. tGhost'.unsure
      BY <1>5 DEF FailT, TableTypes, ServerTypes
    <2> QED  BY <2>1 DEF ColumnsVouch, ColumnsUntold
  <1> QED  BY <1>3, <1>4, <1>5, KindsOf

LEMMA RowsVouchStep ==
    ASSUME TableTypes, RowsVouch, [TableNext]_tableVars
    PROVE  RowsVouch'
  <1>0. \A k \in PageKeys :
           /\ PageOf(k) \in Pages /\ rowQ[k] \in Entries(Pages)
           /\ rowQ[k].fetch = "read" => rowQ[k].answer \in Pages
           /\ EntrySteps(rowQ[k], rowQ'[k], PageOf(k))
    BY QueryStep, PageInTyped DEF TableTypes, ServerTypes, RowQueryTypes, QuerySteps, PageOf
  <1> PICK page : page = [k \in PageKeys |-> PageOf(k)]
    OBVIOUS
  <1>1. ASSUME NEW k \in PageKeys, Vouched(rowQ[k], {page[k]})
        PROVE  Vouched(rowQ'[k], {page[k]})
    <2>1. PageOf(k) \in {page[k]}
      OBVIOUS
    <2> QED  BY <1>0, <1>1, <2>1, EntryStepTyped
  <1>2. tCols' = tCols /\ tRows' = tRows => \A k \in PageKeys : PageOf(k)' = page[k]
    <2>1. ASSUME tCols' = tCols, tRows' = tRows, NEW k \in PageKeys
          PROVE  PageIn(tCols', tRows', k) = page[k]
      BY <2>1 DEF PageOf
    <2> QED  BY <2>1 DEF PageOf
  <1>3. ASSUME tCols' = tCols, tRows' = tRows, RowsUntold => RowsUntold'
        PROVE  RowsVouch'
    <2>1. SUFFICES ASSUME ~RowsUntold', NEW k \in PageKeys
                   PROVE  Vouched(rowQ'[k], {page[k]})
      BY <1>2, <1>3 DEF RowsVouch
    <2>2. Vouched(rowQ[k], {page[k]})
      BY <1>3, <2>1 DEF RowsVouch
    <2> QED  BY <1>1, <2>2
  <1>4. CASE KindsStay
    <2>1. RowsUntold => RowsUntold'
      BY <1>4, NotedStep DEF RowsUntold, KindsStay
    <2>2. CASE tCols' = tCols /\ tRows' = tRows
      BY <1>3, <2>1, <2>2
    <2>3. CASE \/ tGhost'.reshaped \/ tGhost'.unsure
               \/ \E o \in tOps : o.kind \in RowKinds
      <3>1. RowsUntold'
        BY <1>4, <2>3 DEF RowsUntold, KindsStay
      <3> QED  BY <3>1 DEF RowsVouch
    <2> QED  BY <2>2, <2>3, NotedStep
  <1>5. ASSUME NEW o \in tOps, SucceedT(o)
        PROVE  RowsVouch'
    <2>1. tOps' = tOps \ {o} /\ UNCHANGED <<tCols, tRows, tGhost>>
      BY <1>5 DEF SucceedT, server
    <2>2. CASE o.kind \notin RowKinds
      BY <1>3, <2>1, <2>2, AnswerKinds
    <2>3. CASE o.kind \in RowKinds
      <3>1. \A k \in PageKeys : Vouched(rowQ'[k], {page[k]})
        <4>1. TAKE k \in PageKeys
        <4> DEFINE b == (view.tab = "data" /\ k = Shown)
        <4>2. rowQ'[k] = Invalidate(rowQ[k], b) /\ b \in BOOLEAN
          BY <1>5, <2>3 DEF SucceedT, InvalidateRows, RowKinds
        <4> HIDE DEF b
        <4> QED  BY <1>0, <4>2, InvalidateVouched
      <3> QED  BY <1>2, <2>1, <3>1 DEF RowsVouch
    <2> QED  BY <2>2, <2>3
  <1>6. ASSUME NEW o \in tOps, FailT(o)
        PROVE  RowsVouch'
    <2>1. tGhost'.unsure
      BY <1>6 DEF FailT, TableTypes, ServerTypes
    <2> QED  BY <2>1 DEF RowsVouch, RowsUntold
  <1> QED  BY <1>4, <1>5, <1>6, KindsOf


-----------------------------------------------------------------------------
(* The page that is shown.  As long as nobody removed a row, no page of    *)
(* the cache counts more rows than there are.                              *)

Counted(d) == d # NoData => d.total <= Len(tRows)
RowsCounted ==
    /\ ~tGhost.removed => \A k \in PageKeys : Counted(rowQ[k].data) /\ Counted(rowQ[k].answer)
    /\ PageHasRows

\* A page that has rows, and the page before it.
LEMMA EarlierRows ==
    ASSUME NEW p \in Nat \ {0}, NEW n \in Nat, p * PageSize < n
    PROVE  (p - 1) * PageSize < n
  <1>1. PageSize \in Nat
    BY RowPageNumbers
  <1>2. (p - 1) * PageSize = p * PageSize - PageSize /\ p * PageSize \in Nat
    BY <1>1
  <1> QED  BY <1>1, <1>2

LEMMA RowsCountedStep ==
    ASSUME TableTypes, RowsCounted, [TableNext]_tableVars
    PROVE  RowsCounted'
  <1>0. /\ Len(tRows) \in Nat /\ Len(tRows') \in Nat
        /\ view.page \in 0..LastRowPage /\ view.page \in Nat /\ Shown \in PageKeys
        /\ tRows \in Seq(RowsOf(Len(tCols)))
    BY ServerStep, LenProperties, ViewFacts DEF TableTypes, ServerTypes
  <1>1. ~tGhost'.removed => ~tGhost.removed /\ Len(tRows) <= Len(tRows')
    BY ServerStep DEF RowsStay
  <1>2. ASSUME ~tGhost'.removed, NEW k \in PageKeys
        PROVE  Counted(rowQ[k].data)' /\ Counted(rowQ[k].answer)'
    <2> DEFINE n == Len(tRows)
               m == Len(tRows')
               p == rowQ[k]
               q == rowQ'[k]
               d == PageOf(k)
    <2>1. /\ d \in Pages /\ d.total = n /\ p \in Entries(Pages)
          /\ p.fetch = "read" => p.answer \in Pages
          /\ EntrySteps(p, q, d)
      BY QueryStep, PageInTyped DEF TableTypes, ServerTypes, RowQueryTypes, QuerySteps, PageOf
    <2>2. q.data \in {p.data, p.answer} /\ q.answer \in {p.answer, NoData, d}
      BY <2>1, EntryStepTyped
    <2>3. n \in Nat /\ m \in Nat /\ n <= m
      BY <1>0, <1>1, <1>2
    <2>4. \A e \in {p.data, p.answer, NoData, d} : e # NoData => e.total \in Nat /\ e.total <= n
      <3>1. (p.data # NoData => p.data \in Pages) /\ (p.answer # NoData => p.answer \in Pages)
        BY <2>1 DEF Entries
      <3>2. \A e \in Pages : e.total \in Nat
        BY DEF Pages
      <3>3. (p.data # NoData => p.data.total <= n) /\ (p.answer # NoData => p.answer.total <= n)
        BY <1>1, <1>2 DEF RowsCounted, Counted
      <3>4. d.total \in Nat /\ d.total <= n
        BY <2>1, <2>3
      <3> HIDE DEF d, p, n
      <3> QED  BY <3>1, <3>2, <3>3, <3>4
    <2>5. \A e : e # NoData /\ e.total \in Nat /\ e.total <= n => e.total <= m
      <3> HIDE DEF n, m
      <3> QED  BY <2>3
    <2>6. (q.data # NoData => q.data.total <= m) /\ (q.answer # NoData => q.answer.total <= m)
      <3> HIDE DEF n, m, p, q, d
      <3> QED  BY <2>2, <2>4, <2>5
    <2> QED  BY <2>6 DEF Counted
  <1>3. ASSUME \/ view'.page = 0 \/ view'.page = view.page
               \/ ~tGhost.removed /\ tRows' = tRows => view'.page * PageSize < Len(tRows)
               , view'.page = view.page \/ tRows' = tRows
        PROVE  PageHasRows'
    <2>1. SUFFICES ASSUME view'.page # 0, ~tGhost'.removed
                   PROVE  view'.page * PageSize < Len(tRows')
      BY DEF PageHasRows
    <2>2. CASE view'.page = view.page
      <3> DEFINE a == view.page * PageSize
                 n == Len(tRows)
                 m == Len(tRows')
      <3>1. a < n
        BY <1>1, <2>1, <2>2 DEF RowsCounted, PageHasRows
      <3>2. a \in Nat
        BY <1>0, RowPageNumbers
      <3>3. n \in Nat /\ m \in Nat /\ n <= m
        BY <1>0, <1>1, <2>1
      <3>4. a < m
        <4> HIDE DEF a, n, m
        <4> QED  BY <3>1, <3>2, <3>3
      <3> QED  BY <2>2, <3>4
    <2>3. CASE view'.page # view.page
      <3>1. tRows' = tRows
        BY <1>3, <2>3
      <3> QED  BY <1>1, <1>3, <2>1, <2>3, <3>1
    <2> QED  BY <2>2, <2>3
  <1>4. ASSUME NEW step \in {-1, 1}, TurnPage(step)
        PROVE  PageHasRows'
    <2>1. /\ (step = -1 /\ view.page # 0)
             \/ (step = 1 /\ (view.page + 1) * PageSize < rowQ[Shown].data.total)
          /\ rowQ[Shown].data # NoData /\ tRows' = tRows
          /\ view' = [view EXCEPT !.page = view.page + step, !.sort = view.sort]
      BY <1>4 DEF TurnPage, ShowPage, server
    <2>2. view'.page = view.page + step
      BY <2>1 DEF TableTypes, ViewTypes
    <2>3. ASSUME ~tGhost.removed, step = -1
          PROVE  view'.page * PageSize < Len(tRows)
      <3>1. view.page \in Nat \ {0} /\ view.page * PageSize < Len(tRows)
        BY <1>0, <2>1, <2>3 DEF RowsCounted, PageHasRows
      <3>2. (view.page - 1) * PageSize < Len(tRows)
        BY <1>0, <3>1, EarlierRows
      <3>3. view'.page = view.page - 1
        BY <1>0, <2>2, <2>3
      <3> QED  BY <3>2, <3>3
    <2>4. ASSUME ~tGhost.removed, step = 1
          PROVE  view'.page * PageSize < Len(tRows)
      <3> DEFINE a == (view.page + 1) * PageSize
                 b == rowQ[Shown].data.total
                 n == Len(tRows)
      <3>1. a < b
        BY <2>1, <2>4
      <3>2. b <= n
        BY <1>0, <2>1, <2>4 DEF RowsCounted, Counted
      <3>3. b \in Nat
        <4>1. rowQ[Shown].data \in Pages
          BY <2>1, ShownFacts DEF TableTypes
        <4> QED  BY <4>1 DEF Pages
      <3>4. a \in Nat /\ n \in Nat
        <4>1. view.page \in Nat /\ PageSize \in Nat
          BY <1>0, RowPageNumbers
        <4> QED  BY <1>0, <4>1
      <3>5. a < n
        <4> HIDE DEF a, b, n
        <4> QED  BY <3>1, <3>2, <3>3, <3>4
      <3>6. view'.page = view.page + 1
        BY <2>2, <2>4
      <3> QED  BY <3>5, <3>6
    <2>5. ~tGhost.removed => view'.page * PageSize < Len(tRows)
      BY <1>4, <2>3, <2>4
    <2> QED  BY <1>3, <2>1, <2>5
  <1>5. ASSUME view' = view
        PROVE  PageHasRows'
    BY <1>3, <1>5
  <1>6. ASSUME EnterTable \/ SwitchTab
        PROVE  PageHasRows'
    <2>1. \E t : view' = [view EXCEPT !.tab = t]
      BY <1>6 DEF EnterTable, SwitchTab
    <2>2. view'.page = view.page
      BY <2>1 DEF TableTypes, ViewTypes
    <2> QED  BY <1>3, <2>2
  <1>7. ASSUME LeaveTable \/ \E n \in SortNames : SortBy(n)
        PROVE  PageHasRows'
    <2>1. tRows' = tRows /\ view'.page = 0
      <3>1. CASE LeaveTable
        BY <3>1 DEF LeaveTable, server
      <3>2. ASSUME NEW n \in SortNames, NEW s, ShowPage(0, s)
            PROVE  tRows' = tRows /\ view'.page = 0
        BY <3>2 DEF ShowPage, server, TableTypes, ViewTypes
      <3> QED  BY <1>7, <3>1, <3>2 DEF SortBy
    <2> QED  BY <1>3, <2>1
  <1>8. ASSUME RefreshRows \/ RefreshColumns
        PROVE  PageHasRows'
    BY <1>5, <1>8 DEF RefreshRows, RefreshColumns
  <1>9. ASSUME UsesDialog \/ Sends \/ Fetches
        PROVE  PageHasRows'
    BY <1>5, <1>9, UsesDialogFrame, SendsFrame, FetchesFrame
  <1>10. ASSUME \/ \E o \in tOps : Serves(o) \/ SucceedT(o) \/ FailT(o)
                \/ \E i \in DOMAIN tRows : OthersRemove(i)
         PROVE  PageHasRows'
    BY <1>5, <1>10, ServesFrame DEF SucceedT, FailT, OthersRemove
  <1>11. ASSUME UNCHANGED tableVars
         PROVE  PageHasRows'
    BY <1>5, <1>11 DEF tableVars
  <1>12. PageHasRows'
    BY <1>4, <1>6, <1>7, <1>8, <1>9, <1>10, <1>11, TableStep DEF Browses
  <1> QED  BY <1>2, <1>12 DEF RowsCounted


-----------------------------------------------------------------------------
(* The dialog that edits a row.  Its form holds the values of the row,     *)
(* read off by the cached columns, except where the user typed; until      *)
(* there are columns nothing can be typed.                                 *)

FilledFrom(box, cols) ==
    \A n \in Names : HasColumn(cols, n) =>
        box.form[n] = IF box.typed[n] # NullValue THEN box.typed[n]
                      ELSE TextOf(ValueAt(box.row, Position(cols, n)))

FormFollows(box, cols) ==
    box.open => IF cols = NoData THEN box.typed = [n \in Names |-> NullValue]
                ELSE ~box.reseeded => FilledFrom(box, cols)

LEMMA NoColumnsYet == NoData \notin ColumnLists
  <1>1. Columns \subseteq ColumnInfos
    BY DEF Columns
  <1>2. Seq(Columns) \subseteq Seq(ColumnInfos)
    BY <1>1, SeqMonotonic
  <1>3. NoData \notin Seq(ColumnInfos)
    BY TablePlansAssumption
  <1> QED  BY <1>2, <1>3 DEF ColumnLists

\* A form that was just filled.
LEMMA SeedFills ==
    ASSUME NEW b \in EditBoxes, NEW cols, b.typed = [n \in Names |-> NullValue]
    PROVE  FilledFrom(Seed(b, cols), cols)
  <1> DEFINE f == [n \in Names |-> IF HasColumn(cols, n) THEN TextOf(ValueAt(b.row, Position(cols, n))) ELSE EmptyText]
  <1>1. Seed(b, cols) = [b EXCEPT !.form = f]
    BY DEF Seed
  <1> HIDE DEF f
  <1>2. Seed(b, cols).form = f /\ Seed(b, cols).typed = b.typed /\ Seed(b, cols).row = b.row
    BY <1>1 DEF EditBoxes
  <1>3. \A n \in Names : HasColumn(cols, n) => f[n] = TextOf(ValueAt(b.row, Position(cols, n)))
    BY DEF f
  <1> QED  BY <1>2, <1>3 DEF FilledFrom

LEMMA FormFollowsStep ==
    ASSUME TableTypes, FormFollows(editBox, colQ.data), [TableNext]_tableVars
    PROVE  FormFollows(editBox', colQ'.data)
  <1>0. /\ editBox \in EditBoxes /\ colQ \in Entries(ColumnLists)
        /\ colQ.fetch = "read" => colQ.answer \in ColumnLists
    BY DEF TableTypes, BoxTypes, ColumnQueryTypes
  <1>1. ASSUME editBox' = editBox, colQ'.data = colQ.data
        PROVE  FormFollows(editBox', colQ'.data)
    BY <1>1
  <1>2. ASSUME ~editBox'.open
        PROVE  FormFollows(editBox', colQ'.data)
    BY <1>2 DEF FormFollows
  <1>3. ASSUME ColumnsArrive
        PROVE  FormFollows(editBox', colQ'.data)
    <2> DEFINE cols == colQ.answer
    <2>1. /\ colQ' = Arrive(colQ)
          /\ editBox' = IF editBox.open /\ cols # colQ.data
                        THEN [Seed(editBox, cols) EXCEPT !.reseeded = (colQ.data # NoData)] ELSE editBox
          /\ colQ.fetch = "read"
      BY <1>3 DEF ColumnsArrive
    <2>2. cols \in ColumnLists /\ cols # NoData
      BY <1>0, <2>1, NoColumnsYet
    <2>3. colQ'.data = cols
      BY <1>0, <2>1 DEF Arrive, Entries
    <2> HIDE DEF cols
    <2>4. CASE ~(editBox.open /\ cols # colQ.data)
      <3>1. editBox' = editBox
        BY <2>1, <2>4
      <3>2. CASE ~editBox.open
        BY <1>2, <3>1, <3>2
      <3>3. CASE cols = colQ.data
        BY <1>1, <2>3, <3>1, <3>3
      <3> QED  BY <2>4, <3>2, <3>3
    <2>5. CASE editBox.open /\ cols # colQ.data
      <3> DEFINE s == Seed(editBox, cols)
                 e == (colQ.data # NoData)
      <3>1. editBox' = [s EXCEPT !.reseeded = e] /\ s \in EditBoxes /\ e \in BOOLEAN
        BY <1>0, <2>1, <2>5, SeedTyped
      <3>2. CASE colQ.data = NoData
        <4>1. editBox.typed = [n \in Names |-> NullValue]
          BY <2>5, <3>2 DEF FormFollows
        <4>2. FilledFrom(s, cols)
          BY <1>0, <4>1, SeedFills
        <4> HIDE DEF s, e
        <4>3. editBox'.form = s.form /\ editBox'.typed = s.typed /\ editBox'.row = s.row
          BY <3>1 DEF EditBoxes
        <4> QED  BY <2>2, <2>3, <4>2, <4>3 DEF FormFollows, FilledFrom
      <3>3. CASE colQ.data # NoData
        <4>1. e
          BY <3>3
        <4> HIDE DEF s, e
        <4>2. editBox'.reseeded
          BY <3>1, <4>1 DEF EditBoxes
        <4> QED  BY <2>2, <2>3, <4>2 DEF FormFollows
      <3> QED  BY <3>2, <3>3
    <2> QED  BY <2>4, <2>5
  <1>4. ASSUME NEW i, OpenEdit(i)
        PROVE  FormFollows(editBox', colQ'.data)
    <2> DEFINE box == [ClosedEdit EXCEPT !.open = TRUE, !.row = ShownRows[i],
                                         !.names = rowQ[Shown].data.names, !.form = editBox.form]
    <2>1. /\ editBox' = IF colQ.data = NoData THEN box ELSE Seed(box, colQ.data)
          /\ colQ' = Observe(colQ) /\ i \in DOMAIN ShownRows
      BY <1>4 DEF OpenEdit
    <2>2. colQ'.data = colQ.data
      BY <1>0, <2>1 DEF Observe, Send, Entries
    <2>3. box.typed = [n \in Names |-> NullValue] /\ box \in EditBoxes
      <3>1. box.typed = ClosedEdit.typed
        BY DEF ClosedEdit
      <3>2. box \in EditBoxes
        <4>1. /\ ShownRows[i] \in Row /\ rowQ[Shown].data.names \in Seq(Names)
              /\ DOMAIN ShownRows[i] = DOMAIN rowQ[Shown].data.names
          BY <2>1, ShownFacts DEF TableTypes
        <4>2. editBox.form \in [Names -> Values]
          BY <1>0 DEF EditBoxes
        <4> QED  BY <4>1, <4>2, ClosedTyped DEF EditBoxes
      <3> QED  BY <3>1, <3>2, ClosedTyped
    <2> HIDE DEF box
    <2>4. CASE colQ.data = NoData
      BY <2>1, <2>2, <2>3, <2>4 DEF FormFollows
    <2>5. CASE colQ.data # NoData
      BY <2>1, <2>2, <2>3, <2>5, SeedFills DEF FormFollows
    <2> QED  BY <2>4, <2>5
  <1>5. ASSUME NEW n \in Names, NEW v \in TypedTexts, TypeEdit(n, v)
        PROVE  FormFollows(editBox', colQ'.data)
    <2>1. /\ editBox' = [editBox EXCEPT !.form[n] = v, !.typed[n] = v] /\ colQ' = colQ
          /\ editBox.open /\ HasColumn(ShownColumns, n)
      BY <1>5 DEF TypeEdit, queries
    <2>2. colQ.data # NoData
      <3>1. \A i \in DOMAIN <<>> : FALSE
        BY EmptySeq
      <3> QED  BY <2>1, <3>1 DEF ShownColumns, HasColumn
    <2>3. v # NullValue
      BY CellFacts
    <2>4. /\ editBox'.form = [editBox.form EXCEPT ![n] = v] /\ editBox'.typed = [editBox.typed EXCEPT ![n] = v]
          /\ editBox'.row = editBox.row /\ editBox'.reseeded = editBox.reseeded /\ editBox'.open
          /\ editBox.form \in [Names -> Values] /\ editBox.typed \in [Names -> Values]
      BY <1>0, <2>1 DEF EditBoxes
    <2>5. \A m \in Names : /\ editBox'.form[m] = IF m = n THEN v ELSE editBox.form[m]
                           /\ editBox'.typed[m] = IF m = n THEN v ELSE editBox.typed[m]
      BY <2>4
    <2>6. FilledFrom(editBox, colQ.data) => FilledFrom(editBox', colQ.data)
      BY <2>3, <2>4, <2>5 DEF FilledFrom
    <2> QED  BY <2>1, <2>2, <2>4, <2>6 DEF FormFollows
  <1>6. ASSUME Browses
        PROVE  FormFollows(editBox', colQ'.data)
    <2>1. CASE LeaveTable
      <3>1. editBox' = ClosedEdit
        BY <2>1 DEF LeaveTable
      <3> QED  BY <1>2, <3>1, ClosedTyped
    <2>2. CASE Browses /\ ~LeaveTable
      <3>1. editBox' = editBox /\ (colQ' = colQ \/ colQ' = Observe(colQ) \/ colQ' = Observe(Age(colQ)))
        BY <2>2 DEF Browses, EnterTable, SwitchTab, RefreshRows, RefreshColumns, SortBy, TurnPage, ShowPage, boxes
      <3>2. colQ'.data = colQ.data
        BY <1>0, <3>1 DEF Observe, Age, Send, Entries
      <3> QED  BY <1>1, <3>1, <3>2
    <2> QED  BY <1>6, <2>1, <2>2
  <1>7. ASSUME UsesDialog
        PROVE  FormFollows(editBox', colQ'.data)
    <2>1. colQ'.data = colQ.data
      <3>1. colQ' = colQ \/ colQ' = Observe(colQ)
        BY <1>7, UsesDialogFrame
      <3> QED  BY <1>0, <3>1 DEF Observe, Send, Entries
    <2>2. CASE editBox' = editBox
      BY <1>1, <2>1, <2>2
    <2>3. CASE CancelEdit
      <3>1. ~editBox'.open
        BY <1>0, <2>3 DEF CancelEdit, EditBoxes
      <3> QED  BY <1>2, <3>1
    <2>4. CASE \/ OpenInsert \/ CancelInsert \/ CancelDelete \/ OpenAdd \/ CancelAdd \/ CancelAlter
               \/ \E n \in Names, v \in TypedTexts : TypeInsert(n, v)
               \/ \E i \in 1..PageSize : OpenDelete(i)
               \/ \E f \in ColumnForms : FillAdd(f) \/ FillAlter(f)
               \/ \E c \in Range(ShownColumns) : OpenAlter(c)
      BY <2>2, <2>4 DEF OpenInsert, CancelInsert, CancelDelete, OpenAdd, CancelAdd, CancelAlter,
        TypeInsert, OpenDelete, FillAdd, FillAlter, OpenAlter
    <2> QED  BY <1>4, <1>5, <1>7, <2>3, <2>4 DEF UsesDialog
  <1>8. ASSUME Fetches
        PROVE  FormFollows(editBox', colQ'.data)
    <2>1. CASE Fetches /\ ~ColumnsArrive
      <3>1. editBox' = editBox /\ (colQ' = colQ \/ colQ' = Read(colQ, tCols) \/ colQ' = FetchFails(colQ))
        BY <2>1 DEF Fetches, ReadRows, RowsArrive, RowsFail, ReadColumns, ColumnsFail, boxes
      <3>2. colQ'.data = colQ.data
        BY <1>0, <3>1 DEF Read, FetchFails, Entries
      <3> QED  BY <1>1, <3>1, <3>2
    <2> QED  BY <1>3, <1>8, <2>1
  <1>9. ASSUME NEW o \in tOps, SucceedT(o)
        PROVE  FormFollows(editBox', colQ'.data)
    <2>1. /\ editBox' = editBox \/ editBox' = [editBox EXCEPT !.open = FALSE]
          /\ colQ' = colQ \/ colQ' = Invalidate(colQ, ColumnsShown)
      BY <1>9 DEF SucceedT
    <2>2. colQ'.data = colQ.data
      <3> DEFINE s == [colQ EXCEPT !.stale = TRUE]
                 e == (colQ.fetch # "idle")
      <3>1. colQ' = colQ \/ colQ' = Send(s) \/ colQ' = [s EXCEPT !.overtaken = e]
        BY <2>1 DEF Invalidate
      <3>2. s \in Entries(ColumnLists) /\ s.data = colQ.data
        BY <1>0 DEF Entries
      <3> HIDE DEF s, e
      <3> QED  BY <3>1, <3>2 DEF Send, Entries
    <2>3. CASE editBox' = [editBox EXCEPT !.open = FALSE]
      <3>1. ~editBox'.open
        BY <1>0, <2>3 DEF EditBoxes
      <3> QED  BY <1>2, <3>1
    <2> QED  BY <1>1, <2>1, <2>2, <2>3
  <1>10. ASSUME \/ Sends \/ UNCHANGED tableVars
                \/ \E o \in tOps : Serves(o) \/ FailT(o)
                \/ \E i \in DOMAIN tRows : OthersRemove(i)
         PROVE  FormFollows(editBox', colQ'.data)
    BY <1>1, <1>10, SendsFrame, ServesFrame DEF FailT, OthersRemove, boxes, queries, tableVars
  <1> QED  BY <1>6, <1>7, <1>8, <1>9, <1>10, TableStep


\* Where a request comes from: it was sent by this step, or it was there,
\* with the same contents but for the statements that are done.
SameBut(o, r) ==
    /\ r.kind = o.kind /\ r.set = o.set /\ r.where = o.where /\ r.from = o.from /\ r.names = o.names
    /\ r.column = o.column /\ r.form = o.form
    /\ r.stmts = o.stmts \/ (HandleStatement(o) /\ r.stmts = Tail(o.stmts))

LEMMA SameAltered ==
    ASSUME NEW o \in TableRequests, NEW b
    PROVE  /\ SameBut(o, o)
           /\ SameBut(o, [o EXCEPT !.live = b]) /\ SameBut(o, [o EXCEPT !.done = b])
           /\ HandleStatement(o) => SameBut(o, [o EXCEPT !.stmts = Tail(o.stmts), !.done = b])
  <1>1. \A r : /\ r.kind = o.kind /\ r.set = o.set /\ r.where = o.where /\ r.from = o.from /\ r.names = o.names
               /\ r.column = o.column /\ r.form = o.form /\ r.stmts = o.stmts
               => SameBut(o, r)
    BY DEF SameBut
  <1>2. SameBut(o, [o EXCEPT !.live = b])
    <2> DEFINE r == [o EXCEPT !.live = b]
    <2>1. /\ r.kind = o.kind /\ r.set = o.set /\ r.where = o.where /\ r.from = o.from /\ r.names = o.names
          /\ r.column = o.column /\ r.form = o.form /\ r.stmts = o.stmts
      BY DEF TableRequests
    <2> HIDE DEF r
    <2> QED  BY <1>1, <2>1 DEF r
  <1>3. SameBut(o, [o EXCEPT !.done = b])
    <2> DEFINE r == [o EXCEPT !.done = b]
    <2>1. /\ r.kind = o.kind /\ r.set = o.set /\ r.where = o.where /\ r.from = o.from /\ r.names = o.names
          /\ r.column = o.column /\ r.form = o.form /\ r.stmts = o.stmts
      BY DEF TableRequests
    <2> HIDE DEF r
    <2> QED  BY <1>1, <2>1 DEF r
  <1>4. ASSUME HandleStatement(o)
        PROVE  SameBut(o, [o EXCEPT !.stmts = Tail(o.stmts), !.done = b])
    <2> DEFINE t == Tail(o.stmts)
               r == [o EXCEPT !.stmts = t, !.done = b]
    <2>1. t = Tail(o.stmts)
      OBVIOUS
    <2> HIDE DEF t
    <2>2. /\ r.kind = o.kind /\ r.set = o.set /\ r.where = o.where /\ r.from = o.from /\ r.names = o.names
          /\ r.column = o.column /\ r.form = o.form /\ r.stmts = t
      BY DEF TableRequests
    <2> HIDE DEF r
    <2>3. SameBut(o, r)
      BY <1>4, <2>1, <2>2 DEF SameBut
    <2> QED  BY <2>3 DEF r, t
  <1> QED  BY <1>1, <1>2, <1>3, <1>4

LEMMA RequestOrigin ==
    ASSUME TableTypes, [TableNext]_tableVars, NEW r \in tOps'
    PROVE  (Sends /\ Sent(r)) \/ \E o \in tOps : SameBut(o, r)
  <1>0. tOps \subseteq TableRequests
    BY DEF TableTypes
  <1>1. \A o \in tOps : SameBut(o, o)
    BY <1>0, SameAltered
  <1>2. CASE tOps' \subseteq tOps
    BY <1>1, <1>2
  <1>3. CASE LeaveTable
    <2>1. PICK o \in tOps : r = [o EXCEPT !.live = FALSE]
      BY <1>3 DEF LeaveTable
    <2> QED  BY <1>0, <2>1, SameAltered
  <1>4. CASE SwitchTab /\ view.tab # "data"
    <2>1. tOps' = {[o EXCEPT !.live = (o.live /\ o.kind \notin {"alter", "drop"})] : o \in tOps}
      BY <1>4 DEF SwitchTab
    <2>2. PICK o \in tOps : r = [o EXCEPT !.live = (o.live /\ o.kind \notin {"alter", "drop"})]
      BY <2>1
    <2>3. PICK b : b = (o.live /\ o.kind \notin {"alter", "drop"})
      OBVIOUS
    <2>4. r = [o EXCEPT !.live = b]
      BY <2>2, <2>3
    <2>5. o \in TableRequests
      BY <1>0, <2>2
    <2>6. SameBut(o, [o EXCEPT !.live = b])
      BY <2>5, SameAltered
    <2> QED  BY <2>2, <2>4, <2>6
  <1>5. CASE Browses /\ ~LeaveTable /\ ~(SwitchTab /\ view.tab # "data")
    BY <1>2, <1>5 DEF Browses, EnterTable, SwitchTab, RefreshRows, RefreshColumns, SortBy, TurnPage, ShowPage, requests
  <1>6. CASE UsesDialog \/ Fetches
    BY <1>2, <1>6, UsesDialogFrame, FetchesFrame
  <1>7. CASE Sends
    <2>1. PICK s : Sent(s)
      BY <1>7, SendsRequest
    <2>2. r = s \/ r \in tOps
      BY <2>1 DEF Sent
    <2> QED  BY <1>1, <1>7, <2>1, <2>2
  <1>8. ASSUME NEW o \in tOps, Serves(o)
        PROVE  \E p \in tOps : SameBut(p, r)
    <2>1. CASE HandleStatement(o)
      <3>1. tOps' = (tOps \ {o}) \cup {[o EXCEPT !.stmts = Tail(o.stmts), !.done = (Tail(o.stmts) = <<>>)]}
        BY <2>1 DEF HandleStatement
      <3>2. PICK b : b = (Tail(o.stmts) = <<>>)
        OBVIOUS
      <3>3. o \in TableRequests
        BY <1>0
      <3>4. HandleStatement(o) => SameBut(o, [o EXCEPT !.stmts = Tail(o.stmts), !.done = b])
        BY <3>3, SameAltered
      <3>5. r \in tOps \/ r = [o EXCEPT !.stmts = Tail(o.stmts), !.done = b]
        BY <3>1, <3>2
      <3>6. CASE r \in tOps
        BY <1>1, <3>6
      <3>7. CASE r = [o EXCEPT !.stmts = Tail(o.stmts), !.done = b]
        <4>1. SameBut(o, r)
          BY <2>1, <3>4, <3>7, Zenon
        <4> QED  BY <4>1
      <3> QED  BY <3>5, <3>6, <3>7
    <2>2. CASE Reply(o)
      <3>1. r \in tOps \/ r = [o EXCEPT !.done = TRUE]
        BY <2>2 DEF Reply
      <3>2. o \in TableRequests
        BY <1>0
      <3>3. SameBut(o, [o EXCEPT !.done = TRUE])
        BY <3>2, SameAltered
      <3> QED  BY <1>1, <3>1, <3>3
    <2> QED  BY <1>8, <2>1, <2>2 DEF Serves, HandleInsert, HandleUpdate, HandleDelete, HandleAdd, HandleDrop
  <1>9. CASE \/ \E o \in tOps : SucceedT(o) \/ FailT(o)
             \/ \E i \in DOMAIN tRows : OthersRemove(i)
    BY <1>2, <1>9 DEF SucceedT, FailT, OthersRemove
  <1>10. CASE UNCHANGED tableVars
    BY <1>2, <1>10 DEF tableVars
  <1> QED  BY <1>3, <1>4, <1>5, <1>6, <1>7, <1>8, <1>9, <1>10, TableStep

\* What an update names and writes.
OfRow(o) ==
    o.kind = "update" /\ o.names = o.from.names /\ ~o.from.reseeded =>
        /\ o.where = RowPairs(o.from)
        /\ o.set = {<<p[1], WrittenBack(o.from.typed[p[1]], p[2])>> : p \in RowPairs(o.from)}

\* What survives is what String() and parseValue make of it.
LEMMA WrittenIsParsed ==
    ASSUME NEW t, NEW v
    PROVE  WrittenBack(t, v) = ParsedValue(IF t # NullValue THEN t ELSE TextOf(v))
  <1>1. ASSUME Survives(v)
        PROVE  ParsedValue(TextOf(v)) = v
    <2>1. CASE v = NullValue
      BY <2>1 DEF TextOf, ParsedValue
    <2>2. CASE v \in Cells \ {NullText} /\ StringOf[v] = v
      <3>1. v # NullValue /\ v # EmptyText /\ v # NullText
        BY <2>2, CellAssumption
      <3>2. TextOf(v) = v
        BY <2>2, <3>1 DEF TextOf
      <3> QED  BY <3>1, <3>2 DEF ParsedValue
    <2> QED  BY <1>1, <2>1, <2>2 DEF Survives
  <1> QED  BY <1>1 DEF WrittenBack

LEMMA SentIsOfRow ==
    ASSUME TableTypes, FormFollows(editBox, colQ.data), NEW r, SentUpdate(r)
    PROVE  OfRow(r)
  <1> DEFINE box == editBox
             cols == colQ.data
             Written(n, v) == WrittenBack(box.typed[n], v)
  <1>1. SUFFICES ASSUME r.names = box.names, ~box.reseeded
                 PROVE  /\ r.where = RowPairs(box)
                        /\ r.set = {<<p[1], Written(p[1], p[2])>> : p \in RowPairs(box)}
    BY DEF OfRow, SentUpdate
  <1>2. /\ box.open /\ cols # NoData
        /\ r.set = {<<c.name, ParsedValue(box.form[c.name])>> : c \in Range(cols)}
        /\ r.where = {<<cols[i].name, ValueAt(box.row, i)>> : i \in DOMAIN cols}
        /\ box.names = ColumnNamesOf(cols)
    BY <1>1 DEF SentUpdate
  <1>3. cols \in ColumnLists
    BY <1>2, ShownFacts DEF TableTypes
  <1>4. box.row \in Row /\ DOMAIN box.row = DOMAIN box.names
    BY <1>2 DEF TableTypes, BoxTypes, EditBoxes
  <1>5. FilledFrom(box, cols)
    BY <1>1, <1>2 DEF FormFollows
  <1> HIDE DEF box, cols
  <1>6. DOMAIN box.names = DOMAIN cols /\ \A i \in DOMAIN cols : box.names[i] = cols[i].name
    BY <1>2 DEF ColumnNamesOf
  <1>7. \A i \in DOMAIN cols : ValueAt(box.row, i) = box.row[i]
    BY <1>4, <1>6 DEF ValueAt
  <1>8. RowPairs(box) = {<<cols[i].name, box.row[i]>> : i \in DOMAIN cols}
    BY <1>6 DEF RowPairs
  <1>9. r.where = RowPairs(box)
    BY <1>2, <1>7, <1>8
  <1>10. ASSUME NEW i \in DOMAIN cols
         PROVE  ParsedValue(box.form[cols[i].name]) = Written(cols[i].name, box.row[i])
    <2>1. HasColumn(cols, cols[i].name) /\ Position(cols, cols[i].name) = i /\ cols[i].name \in Names
      BY <1>3, ColumnListFacts
    <2>2. box.form[cols[i].name] = IF box.typed[cols[i].name] # NullValue THEN box.typed[cols[i].name]
                                   ELSE TextOf(box.row[i])
      BY <1>5, <1>7, <2>1 DEF FilledFrom
    <2> QED  BY <2>2, WrittenIsParsed
  <1> HIDE DEF Written
  <1>11. r.set = {<<cols[i].name, ParsedValue(box.form[cols[i].name])>> : i \in DOMAIN cols}
    BY <1>2 DEF Range
  <1>12. {<<p[1], Written(p[1], p[2])>> : p \in RowPairs(box)}
           = {<<cols[i].name, Written(cols[i].name, box.row[i])>> : i \in DOMAIN cols}
    <2> DEFINE pair == [i \in DOMAIN cols |-> <<cols[i].name, box.row[i]>>]
    <2>1. \A i \in DOMAIN cols : pair[i][1] = cols[i].name /\ pair[i][2] = box.row[i]
      OBVIOUS
    <2>2. RowPairs(box) = {pair[i] : i \in DOMAIN cols}
      BY <1>8
    <2> HIDE DEF pair
    <2>3. {<<p[1], Written(p[1], p[2])>> : p \in {pair[i] : i \in DOMAIN cols}}
            = {<<pair[i][1], Written(pair[i][1], pair[i][2])>> : i \in DOMAIN cols}
      OBVIOUS
    <2>4. {<<pair[i][1], Written(pair[i][1], pair[i][2])>> : i \in DOMAIN cols}
            = {<<cols[i].name, Written(cols[i].name, box.row[i])>> : i \in DOMAIN cols}
      BY <2>1
    <2> QED  BY <2>2, <2>3, <2>4
  <1>13. r.set = {<<p[1], Written(p[1], p[2])>> : p \in RowPairs(box)}
    BY <1>10, <1>11, <1>12
  <1> QED  BY <1>9, <1>13

LEMMA UpdateStep ==
    ASSUME TableTypes, FormFollows(editBox, colQ.data), UpdateIsOfRow, [TableNext]_tableVars
    PROVE  UpdateIsOfRow'
  <1>1. \A o \in tOps : OfRow(o)
    BY DEF UpdateIsOfRow, OfRow
  <1>2. ASSUME NEW r \in tOps'
        PROVE  OfRow(r)
    <2>1. CASE Sends /\ Sent(r)
      <3>1. CASE r.kind = "update"
        BY <2>1, <3>1, SentIsOfRow DEF Sent
      <3>2. CASE r.kind # "update"
        BY <3>2 DEF OfRow
      <3> QED  BY <3>1, <3>2
    <2>2. ASSUME NEW o \in tOps, SameBut(o, r)
          PROVE  OfRow(r)
      <3>1. /\ r.kind = o.kind /\ r.set = o.set /\ r.where = o.where /\ r.from = o.from /\ r.names = o.names
            /\ OfRow(o)
        BY <1>1, <2>2 DEF SameBut
      <3> QED  BY <3>1 DEF OfRow
    <2> QED  BY <2>1, <2>2, RequestOrigin
  <1> QED  BY <1>2 DEF UpdateIsOfRow, OfRow



-----------------------------------------------------------------------------
(* The statements of a changed column.  If only one request was ever sent, *)
(* the column it names was read from the table, which nothing else changed *)
(* since: the first statement finds it, and the later ones, none of which  *)
(* renames, find the name it has from the first on.                        *)

AlterReady(o) ==
    o.kind = "alter" /\ o.stmts # <<>> =>
        /\ HasColumn(tCols, Addressed(o))
        /\ \A i \in 2..Len(o.stmts) : o.stmts[i] # "rename"

ColumnsAsRead(data, answer, c) ==
    /\ data \in {NoData, tCols} /\ answer \in {NoData, tCols}
    /\ c = NoColumn \/ \E i \in DOMAIN tCols : tCols[i] = c

AltersReady ==
    /\ tCount.ops = 0 => tOps = {} /\ ColumnsAsRead(colQ.data, colQ.answer, alterBox.column)
    /\ tCount.ops = 1 => (\E x : tOps \subseteq {x}) /\ \A o \in tOps : AlterReady(o)

\* Only the first statement renames, and only to another name.
LEMMA StatementsFacts ==
    ASSUME NEW c, NEW f
    PROVE  /\ Head(Statements(c, f)) = IF f.name # c.name THEN "rename" ELSE "type"
           /\ \A i \in 2..Len(Statements(c, f)) : Statements(c, f)[i] # "rename"
  <1> DEFINE a == IF f.name # c.name THEN <<"rename">> ELSE <<>>
             b == IF f.nullable # c.nullable THEN <<"nullable">> ELSE <<>>
             d == IF f.default # c.default THEN <<"default">> ELSE <<>>
  <1>1. Statements(c, f) = ((a \o <<"type">>) \o b) \o d
    BY DEF Statements
  <1>2. CASE f.name # c.name /\ f.nullable # c.nullable /\ f.default # c.default
    BY <1>1, <1>2
  <1>3. CASE f.name # c.name /\ f.nullable # c.nullable /\ f.default = c.default
    BY <1>1, <1>3
  <1>4. CASE f.name # c.name /\ f.nullable = c.nullable /\ f.default # c.default
    BY <1>1, <1>4
  <1>5. CASE f.name # c.name /\ f.nullable = c.nullable /\ f.default = c.default
    BY <1>1, <1>5
  <1>6. CASE f.name = c.name /\ f.nullable # c.nullable /\ f.default # c.default
    BY <1>1, <1>6
  <1>7. CASE f.name = c.name /\ f.nullable # c.nullable /\ f.default = c.default
    BY <1>1, <1>7
  <1>8. CASE f.name = c.name /\ f.nullable = c.nullable /\ f.default # c.default
    BY <1>1, <1>8
  <1>9. CASE f.name = c.name /\ f.nullable = c.nullable /\ f.default = c.default
    BY <1>1, <1>9
  <1> QED  BY <1>2, <1>3, <1>4, <1>5, <1>6, <1>7, <1>8, <1>9

\* Nothing is sent: a single request stays a single one.
LEMMA OneRequest ==
    ASSUME TableTypes, [TableNext]_tableVars, ~Sends, NEW o, tOps \subseteq {o}
    PROVE  \E x : tOps' \subseteq {x}
  <1>1. CASE tOps' \subseteq tOps
    BY <1>1
  <1>2. CASE LeaveTable
    <2>1. tOps' \subseteq {[o EXCEPT !.live = FALSE]}
      BY <1>2 DEF LeaveTable
    <2> QED  BY <2>1
  <1>3. CASE SwitchTab /\ view.tab # "data"
    <2>1. tOps' \subseteq {[o EXCEPT !.live = (o.live /\ o.kind \notin {"alter", "drop"})]}
      BY <1>3 DEF SwitchTab
    <2> QED  BY <2>1
  <1>4. CASE Browses /\ ~LeaveTable /\ ~(SwitchTab /\ view.tab # "data")
    BY <1>1, <1>4 DEF Browses, EnterTable, SwitchTab, RefreshRows, RefreshColumns, SortBy, TurnPage, ShowPage, requests
  <1>5. CASE UsesDialog \/ Fetches
    BY <1>1, <1>5, UsesDialogFrame, FetchesFrame
  <1>6. ASSUME NEW p \in tOps, Serves(p)
        PROVE  \E x : tOps' \subseteq {x}
    <2>1. p = o
      OBVIOUS
    <2>2. \E x : tOps' = (tOps \ {p}) \cup {x}
      BY <1>6 DEF Serves, HandleInsert, HandleUpdate, HandleDelete, HandleAdd, HandleDrop, HandleStatement, Reply
    <2> QED  BY <2>1, <2>2
  <1>7. CASE \/ \E p \in tOps : SucceedT(p) \/ FailT(p)
             \/ \E i \in DOMAIN tRows : OthersRemove(i)
    BY <1>1, <1>7 DEF SucceedT, FailT, OthersRemove
  <1>8. CASE UNCHANGED tableVars
    BY <1>1, <1>8 DEF tableVars
  <1> QED  BY <1>2, <1>3, <1>4, <1>5, <1>6, <1>7, <1>8, TableStep

\* The first request.
LEMMA FirstSent ==
    ASSUME TableTypes, ColumnsAsRead(colQ.data, colQ.answer, alterBox.column), NEW r, r.kind = "alter" => SentAlter(r)
    PROVE  AlterReady(r)
  <1>1. SUFFICES ASSUME r.kind = "alter"
                 PROVE  HasColumn(tCols, Addressed(r)) /\ \A i \in 2..Len(r.stmts) : r.stmts[i] # "rename"
    BY DEF AlterReady
  <1>2. r.stmts = Statements(r.column, r.form)
    BY <1>1 DEF SentAlter
  <1>3. \E i \in DOMAIN tCols : tCols[i] = r.column
    BY <1>1 DEF SentAlter, ColumnsAsRead
  <1>4. Head(r.stmts) = "rename" \/ (Head(r.stmts) # "rename" /\ r.form.name = r.column.name)
    BY <1>2, StatementsFacts
  <1>5. Addressed(r) = r.column.name
    BY <1>4 DEF Addressed
  <1> QED  BY <1>2, <1>3, <1>5, StatementsFacts DEF HasColumn


\* A statement was handled: the column has the name the rest asks for.
LEMMA StatementHandled ==
    ASSUME ServerTypes, tOps \subseteq TableRequests, NEW o \in tOps, HandleStatement(o), AlterReady(o),
           NEW r, SameBut(o, r), r.stmts = Tail(o.stmts)
    PROVE  AlterReady(r)'
  <1> DEFINE i == Position(tCols, Addressed(o))
             s == Head(o.stmts)
             c == CASE s = "rename" -> [tCols[i] EXCEPT !.name = o.form.name]
                    [] s = "type" -> [tCols[i] EXCEPT !.type = o.form.type]
                    [] s = "nullable" -> [tCols[i] EXCEPT !.nullable = o.form.nullable]
                    [] s = "default" -> [tCols[i] EXCEPT !.default = o.form.default]
  <1>1. /\ o.kind = "alter" /\ o.stmts # <<>> /\ HasColumn(tCols, Addressed(o))
        /\ tCols' = [tCols EXCEPT ![i] = c]
    BY DEF HandleStatement
  <1>2. tCols \in ColumnLists /\ i \in DOMAIN tCols /\ tCols[i].name = Addressed(o)
    BY <1>1, ColumnListFacts DEF ServerTypes
  <1>3. tCols[i] \in ColumnInfos
    BY <1>2, ColumnListFacts
  <1>4. o.stmts \in Seq(StatementNames)
    BY DEF TableRequests
  <1>5. s \in StatementNames
    BY <1>1, <1>4, HeadTailProperties
  <1>6. s = "rename" => c.name = o.form.name
    BY <1>3 DEF ColumnInfos
  <1>7. s # "rename" => c.name = tCols[i].name
    <2>1. CASE s = "type"
      BY <1>3, <2>1 DEF ColumnInfos
    <2>2. CASE s = "nullable"
      BY <1>3, <2>2 DEF ColumnInfos
    <2>3. CASE s = "default"
      BY <1>3, <2>3 DEF ColumnInfos
    <2> QED  BY <1>5, <2>1, <2>2, <2>3 DEF StatementNames
  <1>8. s # "rename" => Addressed(o) = o.form.name
    BY DEF Addressed
  <1> HIDE DEF i, c, s
  <1>9. c.name = o.form.name
    BY <1>2, <1>6, <1>7, <1>8
  <1>10. HasColumn(tCols', o.form.name)
    <2>1. i \in DOMAIN tCols' /\ tCols'[i] = c
      BY <1>1, <1>2
    <2> QED  BY <1>9, <2>1 DEF HasColumn
  <1>11. ASSUME r.stmts # <<>>
         PROVE  /\ Head(r.stmts) # "rename"
                /\ \A j \in 2..Len(r.stmts) : r.stmts[j] # "rename"
    <2> DEFINE t == o.stmts
               u == r.stmts
    <2>1. /\ u \in Seq(StatementNames) /\ Len(u) = Len(t) - 1 /\ Len(t) \in Nat /\ Len(u) \in Nat
          /\ \A j \in 1..Len(u) : u[j] = t[j + 1]
      BY <1>1, <1>4, HeadTailProperties, LenProperties
    <2>2. \A j \in 2..Len(t) : t[j] # "rename"
      BY <1>1 DEF AlterReady
    <2>3. u # <<>>
      BY <1>11
    <2> HIDE DEF t, u
    <2>4. Len(u) # 0
      BY <2>1, <2>3, EmptySeq
    <2>5. Head(u) = u[1]
      BY <2>1, <2>3
    <2>6. \A j \in 1..Len(u) : u[j] # "rename"
      <3>1. \A j \in 1..Len(u) : j + 1 \in 2..Len(t)
        BY <2>1
      <3> QED  BY <2>1, <2>2, <3>1
    <2>7. 1 \in 1..Len(u) /\ \A j \in 2..Len(u) : j \in 1..Len(u)
      BY <2>1, <2>4
    <2> QED  BY <2>5, <2>6, <2>7 DEF u
  <1>12. r.form = o.form
    BY DEF SameBut
  <1>13. r.stmts # <<>> => Addressed(r) = o.form.name
    BY <1>11, <1>12 DEF Addressed
  <1> QED  BY <1>10, <1>11, <1>13 DEF AlterReady

\* The same contents, and the columns as they were.
LEMMA ReadyKept ==
    ASSUME NEW o, NEW r, AlterReady(o), SameBut(o, r), r.stmts = o.stmts, tCols' = tCols
    PROVE  AlterReady(r)'
  <1>1. r.kind = o.kind /\ r.column = o.column /\ r.form = o.form /\ r.stmts = o.stmts
    BY DEF SameBut
  <1>2. Addressed(r) = Addressed(o)
    BY <1>1 DEF Addressed
  <1> QED  BY <1>1, <1>2 DEF AlterReady

\* Only the server's handlers of requests about columns change the columns.
LEMMA ColumnsStay ==
    ASSUME TableTypes, [TableNext]_tableVars
    PROVE  tCols' = tCols \/ \E o \in tOps : HandleAdd(o) \/ HandleDrop(o) \/ HandleStatement(o)
  BY TableStep, BrowsesFrame, UsesDialogFrame, SendsFrame, FetchesFrame
  DEF Serves, HandleInsert, HandleUpdate, HandleDelete, SucceedT, FailT, OthersRemove, tableVars, server

LEMMA AltersReadyStep ==
    ASSUME TableTypes, AltersReady, [TableNext]_tableVars
    PROVE  AltersReady'
  <1>0. tOps \subseteq TableRequests /\ tCount.ops \in Nat /\ tCols \in ColumnLists
    BY PlanFacts DEF TableTypes, CountTypes, ServerTypes
  <1>1. CASE Sends
    <2>1. tCount'.ops = tCount.ops + 1 /\ UNCHANGED <<tCols, colQ, alterBox>>
      BY <1>1, SendsFrame DEF TableTypes, CountTypes
    <2>2. PICK r : Sent(r)
      BY <1>1, SendsRequest
    <2>3. ASSUME tCount.ops = 0
          PROVE  (\E x : tOps' \subseteq {x}) /\ \A o \in tOps' : AlterReady(o)'
      <3>1. tOps' = {r} /\ (r.kind = "alter" => SentAlter(r))
        BY <2>2, <2>3 DEF AltersReady, Sent
      <3>2. AlterReady(r)
        BY <2>3, <3>1, FirstSent DEF AltersReady
      <3>3. AlterReady(r)'
        BY <2>1, <3>2 DEF AlterReady
      <3> QED  BY <3>1, <3>3
    <2>4. tCount'.ops # 0 /\ (tCount'.ops = 1 => tCount.ops = 0)
      BY <1>0, <2>1
    <2>5. tCount'.ops = 1 => (\E x : tOps' \subseteq {x}) /\ \A o \in tOps' : AlterReady(o)'
      BY <2>3, <2>4
    <2> QED  BY <2>4, <2>5 DEF AltersReady
  <1>2. CASE ~Sends
    <2>1. tCount'.ops = tCount.ops
      BY <1>2, TableStep, UsesDialogFrame, FetchesFrame, ServesFrame
      DEF Browses, EnterTable, LeaveTable, SwitchTab, RefreshRows, RefreshColumns, SortBy, TurnPage, ShowPage,
        requests, SucceedT, FailT, OthersRemove, tableVars, TableTypes, CountTypes
    <2>2. ASSUME tCount.ops = 0
          PROVE  tOps' = {} /\ ColumnsAsRead(colQ.data, colQ.answer, alterBox.column)'
      <3>1. tOps = {} /\ ColumnsAsRead(colQ.data, colQ.answer, alterBox.column)
        BY <2>2 DEF AltersReady
      <3>2. tOps' = {}
        BY <1>2, <3>1, RequestOrigin
      <3>3. tCols' = tCols
        BY <3>1, ColumnsStay
      <3>4. /\ colQ'.data \in {colQ.data, colQ.answer}
            /\ colQ'.answer \in {colQ.answer, NoData, tCols}
        <4>1. EntrySteps(colQ, colQ', tCols)
          BY QueryStep DEF QuerySteps, TableTypes
        <4> QED  BY <1>0, <4>1, EntryStepTyped DEF TableTypes, ColumnQueryTypes
      <3>5. alterBox'.column \in {alterBox.column, NoColumn} \/ alterBox'.column \in Range(ShownColumns)
        <4>1. CASE Browses
          <5>1. alterBox' = alterBox \/ alterBox' = ClosedAlter
            BY <4>1, Zenon DEF Browses, EnterTable, LeaveTable, SwitchTab, RefreshRows, RefreshColumns, SortBy, TurnPage,
              ShowPage, boxes
          <5> QED  BY <5>1 DEF ClosedAlter
        <4>2. CASE UsesDialog
          <5>1. CASE alterBox' = alterBox
            BY <5>1
          <5>2. CASE CancelAlter \/ \E f \in ColumnForms : FillAlter(f)
            <6>1. alterBox \in [column : Columns \cup {NoColumn}, form : ColumnInfos]
              BY DEF TableTypes, BoxTypes
            <6>2. \/ alterBox' = [alterBox EXCEPT !.column = NoColumn]
                  \/ \E g : alterBox' = [alterBox EXCEPT !.form = g]
              BY <5>2 DEF CancelAlter, FillAlter
            <6>3. \A g : [alterBox EXCEPT !.form = g].column = alterBox.column
              BY <6>1
            <6>4. [alterBox EXCEPT !.column = NoColumn].column = NoColumn
              BY <6>1
            <6>5. alterBox'.column = alterBox.column \/ alterBox'.column = NoColumn
              BY <6>2, <6>3, <6>4, Zenon
            <6> QED  BY <6>5
          <5>3. CASE \E c \in Range(ShownColumns) : OpenAlter(c)
            BY <5>3 DEF OpenAlter, TableTypes, BoxTypes
          <5> QED
            BY <4>2, <5>1, <5>2, <5>3
            DEF UsesDialog, OpenInsert, CancelInsert, CancelEdit, CancelDelete, OpenAdd, CancelAdd,
              TypeInsert, TypeEdit, OpenEdit, OpenDelete, FillAdd
        <4>3. CASE Fetches \/ (\E i \in DOMAIN tRows : OthersRemove(i)) \/ UNCHANGED tableVars
          BY <4>3, FetchesFrame DEF OthersRemove, boxes, tableVars
        <4> QED  BY <1>2, <3>1, <4>1, <4>2, <4>3, TableStep
      <3>6. \A c \in Range(ShownColumns) : \E i \in DOMAIN tCols : tCols[i] = c
        <4>1. ShownColumns = <<>> \/ ShownColumns = tCols
          BY <3>1 DEF ShownColumns, ColumnsAsRead
        <4> QED  BY <4>1 DEF Range
      <3> QED  BY <3>1, <3>2, <3>3, <3>4, <3>5, <3>6 DEF ColumnsAsRead
    <2>3. ASSUME tCount.ops = 1
          PROVE  (\E x : tOps' \subseteq {x}) /\ \A r \in tOps' : AlterReady(r)'
      <3>1. PICK x : tOps \subseteq {x}
        BY <2>3 DEF AltersReady
      <3>2. \E y : tOps' \subseteq {y}
        BY <1>2, <3>1, OneRequest
      <3>3. ASSUME NEW r \in tOps'
            PROVE  AlterReady(r)'
        <4>1. PICK o \in tOps : SameBut(o, r)
          BY <1>2, RequestOrigin
        <4>2. AlterReady(o)
          BY <2>3, <4>1 DEF AltersReady
        <4>3. CASE HandleStatement(o) /\ r.stmts = Tail(o.stmts)
          BY <1>0, <4>1, <4>2, <4>3, StatementHandled DEF TableTypes
        <4>4. CASE ~(HandleStatement(o) /\ r.stmts = Tail(o.stmts))
          <5>1. r.stmts = o.stmts /\ r.kind = o.kind
            BY <4>1, <4>4 DEF SameBut
          <5>2. CASE tCols' = tCols
            BY <4>1, <4>2, <5>1, <5>2, ReadyKept
          <5>3. CASE HandleAdd(o) \/ HandleDrop(o)
            <6>1. r.kind # "alter"
              BY <5>1, <5>3 DEF HandleAdd, HandleDrop
            <6> QED  BY <6>1 DEF AlterReady
          <5>4. CASE HandleStatement(o)
            <6> DEFINE d == [o EXCEPT !.stmts = Tail(o.stmts), !.done = (Tail(o.stmts) = <<>>)]
            <6>1. tOps' = (tOps \ {o}) \cup {d} /\ d.stmts = Tail(o.stmts)
              BY <1>0, <5>4 DEF HandleStatement, TableRequests
            <6> HIDE DEF d
            <6>2. r = d
              BY <3>1, <6>1
            <6> QED  BY <4>4, <5>4, <6>1, <6>2
          <5> QED  BY <3>1, <5>2, <5>3, <5>4, ColumnsStay
        <4> QED  BY <4>3, <4>4
      <3> QED  BY <3>2, <3>3
    <2>4. (tCount.ops = 0 => tOps' = {} /\ ColumnsAsRead(colQ.data, colQ.answer, alterBox.column)')
      BY <2>2
    <2>5. (tCount.ops = 1 => (\E x : tOps' \subseteq {x}) /\ \A r \in tOps' : AlterReady(r)')
      BY <2>3
    <2> QED  BY <2>1, <2>4, <2>5 DEF AltersReady
  <1> QED  BY <1>1, <1>2



-----------------------------------------------------------------------------
(* The table.                                                              *)

TableInv ==
    /\ TableTypes /\ ColumnsVouch /\ RowsVouch /\ RowsCounted
    /\ FormFollows(editBox, colQ.data) /\ UpdateIsOfRow /\ AltersReady

LEMMA TableInvInit == TableInit => TableInv
  <1> SUFFICES ASSUME TableInit PROVE TableInv
    OBVIOUS
  <1>1. TableTypes
    BY TableTypesInit
  <1>2. /\ colQ = Unasked /\ rowQ = [k \in PageKeys |-> Unasked] /\ tOps = {} /\ ~editBox.open
        /\ view.page = 0 /\ tCount.ops = 0 /\ alterBox.column = NoColumn
    BY DEF TableInit, ClosedEdit, ClosedAlter
  <1>3. ColumnsVouch /\ RowsVouch
    BY <1>2, UnaskedVouched DEF ColumnsVouch, RowsVouch
  <1>4. RowsCounted
    BY <1>2 DEF RowsCounted, Counted, PageHasRows, Unasked
  <1>5. FormFollows(editBox, colQ.data) /\ UpdateIsOfRow
    BY <1>2 DEF FormFollows, UpdateIsOfRow
  <1>6. AltersReady
    BY <1>2 DEF AltersReady, ColumnsAsRead, Unasked
  <1> QED  BY <1>1, <1>3, <1>4, <1>5, <1>6 DEF TableInv

LEMMA TableInvStep == TableInv /\ [TableNext]_tableVars => TableInv'
  BY TableTypesStep, ColumnsVouchStep, RowsVouchStep, RowsCountedStep, FormFollowsStep, UpdateStep, AltersReadyStep
  DEF TableInv

\* The table, the cached pages, the dialogs and the counts have their types.
THEOREM TableTypeCorrect == TableSpec => []TableTypeOK
  <1>1. TableInv => TableTypeOK
    <2> SUFFICES ASSUME TableInv PROVE TableTypeOK
      OBVIOUS
    <2>1. ServerTypes /\ ColumnQueryTypes /\ RowQueryTypes /\ ViewTypes /\ BoxTypes /\ CountTypes
      BY DEF TableInv, TableTypes
    <2>2. Columns \subseteq ColumnInfos /\ Seq(Columns) \subseteq Seq(ColumnInfos)
      <3>1. Columns \subseteq ColumnInfos
        BY DEF Columns
      <3> QED  BY <3>1, SeqMonotonic
    <2>3. ColumnLists \subseteq Seq(ColumnInfos)
      BY <2>2 DEF ColumnLists
    <2>4. tCols \in Seq(ColumnInfos) /\ colQ \in Entries(Seq(ColumnInfos))
      BY <2>1, <2>3 DEF ServerTypes, ColumnQueryTypes, Entries
    <2>5. tRows \in Seq(Row) /\ \A r \in Range(tRows) : Len(r) = Len(tCols)
      <3>1. tCols \in ColumnLists /\ tRows \in Seq(RowsOf(Len(tCols))) /\ Len(tCols) \in Nat
        BY <2>1, ColumnListFacts DEF ServerTypes
      <3>2. \A r \in RowsOf(Len(tCols)) : r \in Row /\ Len(r) = Len(tCols)
        BY <3>1, RowFacts
      <3>3. RowsOf(Len(tCols)) \subseteq Row
        BY <3>2
      <3>4. tRows \in Seq(Row)
        BY <3>1, <3>3, SeqMonotonic
      <3>5. \A r \in Range(tRows) : r \in RowsOf(Len(tCols))
        BY <3>1, RangeOfSeq
      <3> QED  BY <3>2, <3>4, <3>5
    <2>6. Shown \in PageKeys /\ view.tab \in {"away", "data", "structure"}
      BY <2>1 DEF ViewTypes, Shown, PageKeys
    <2>7. tCount.ops \in 0..tPlan.ops /\ tPlan \in TablePlans
      BY <2>1 DEF CountTypes
    <2>8. DOMAIN rowQ = PageKeys
      BY <2>1 DEF RowQueryTypes
    <2>9. /\ insertBox.form \in [Names -> Values]
          /\ editBox.row \in Row \cup {NoRow} /\ editBox.form \in [Names -> Values]
          /\ addBox.form \in ColumnInfos /\ alterBox.form \in ColumnInfos
      BY <2>1 DEF BoxTypes, EditBoxes
    <2> QED  BY <2>4, <2>5, <2>6, <2>7, <2>8, <2>9 DEF TableTypeOK
  <1> QED  BY <1>1, TableInvInit, TableInvStep, PTL DEF TableSpec

\* Once the user's requests are answered, and none of them failed, what
\* counts as up to date of the columns is what the table holds, and what
\* counts as up to date of every cached page if no column was changed;
\* except for what was on its way at an invalidation and not asked anew.
THEOREM TableSynced == TableSpec => []TableInSync
  <1>1. TableInv => TableInSync
    BY DEF TableInv, ColumnsVouch, RowsVouch, ColumnsUntold, RowsUntold, Vouched, TableInSync
  <1> QED  BY <1>1, TableInvInit, TableInvStep, PTL DEF TableSpec

\* An update names the row its dialog was opened for and writes that row's
\* values back, but for what was typed and what String() and parseValue make
\* something else of, however the cached rows changed meanwhile; if the row
\* and the columns arrived with the same names, and the columns that the
\* dialog shows are the first that it got.
THEOREM UpdatesOfRow == TableSpec => []UpdateIsOfRow
  <1>1. TableInv => UpdateIsOfRow
    BY DEF TableInv
  <1> QED  BY <1>1, TableInvInit, TableInvStep, PTL DEF TableSpec

\* The statements of a changed column address it by the name it has then,
\* before and after the rename, if no other request changed the columns.
THEOREM AltersFindColumn == TableSpec => []AlterFindsColumn
  <1>1. TableInv => AlterFindsColumn
    BY DEF TableInv, AltersReady, AlterReady, AlterFindsColumn
  <1> QED  BY <1>1, TableInvInit, TableInvStep, PTL DEF TableSpec

\* If nobody removes a row, the pager never shows a page beyond the last.
THEOREM PagesHaveRows == TableSpec => []PageHasRows
  <1>1. TableInv => PageHasRows
    BY DEF TableInv, RowsCounted
  <1> QED  BY <1>1, TableInvInit, TableInvStep, PTL DEF TableSpec

-----------------------------------------------------------------------------
(* The pages together *)

LEMMA WorkSteps ==
    ASSUME [WorkNext]_workVars
    PROVE  /\ [BackupsNext]_bkVars /\ [TableNext]_tableVars
           /\ [DatabasePageNext]_pageVars /\ [LogsNext]_logsVars
  <1>1. CASE UNCHANGED workVars
    BY <1>1, Zenon DEF workVars
  <1>2. CASE BackupsNext /\ UNCHANGED <<followed, tableVars, pageVars, logsVars>>
    BY <1>2, Zenon
  <1>3. CASE TableNext /\ UNCHANGED <<followed, bkVars, pageVars, logsVars>>
    BY <1>3, Zenon
  <1>4. CASE DatabasePageNext /\ UNCHANGED <<followed, bkVars, tableVars, logsVars>>
    BY <1>4, Zenon
  <1>5. CASE LogsNext /\ UNCHANGED <<followed, bkVars, tableVars, pageVars>>
    BY <1>5, Zenon
  <1> QED  BY <1>1, <1>2, <1>3, <1>4, <1>5, Zenon DEF WorkNext

\* The composition takes no step that is not one of a page, so that what
\* is proved of each alone holds in it.
THEOREM WorkIsItsPages ==
    WorkSpec => BackupsSpec /\ TableSpec /\ DatabasePageSpec /\ LogsSpec
  <1>1. WorkInit => BackupsInit /\ TableInit /\ DatabasePageInit /\ LogsInit
    BY Zenon DEF WorkInit
  <1>2. [WorkNext]_workVars => /\ [BackupsNext]_bkVars /\ [TableNext]_tableVars
                               /\ [DatabasePageNext]_pageVars /\ [LogsNext]_logsVars
    BY WorkSteps, Zenon
  <1> QED
    BY <1>1, <1>2, PTL DEF WorkSpec, BackupsSpec, TableSpec, DatabasePageSpec, LogsSpec

\* Whatever page is followed, every variable of the four has its type.
THEOREM WorkTypeCorrect == WorkSpec => []ClientWorkTypeOK
  <1>1. /\ BackupsTypeOK /\ TableTypeOK /\ DatabasePageTypeOK /\ LogsPageTypeOK
        => ClientWorkTypeOK
    BY Zenon DEF ClientWorkTypeOK
  <1> QED
    BY <1>1, WorkIsItsPages, BackupsTypeCorrect, TableTypeCorrect, DatabaseTypeCorrect,
       LogsTypeCorrect, PTL
=============================================================================
