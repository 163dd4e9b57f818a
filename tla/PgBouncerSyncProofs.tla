------------------------ MODULE PgBouncerSyncProofs ------------------------
(***************************************************************************)
(* Theorems about PgBouncerSync: the types, for any overlap of rebuilds,   *)
(* failures and restarts; if rebuilds do not overlap and as long as        *)
(* nothing has failed, what PgBouncer runs with; for any overlap and any   *)
(* failure, what one undisturbed rebuild heals (PgBouncerHealing), which   *)
(* rows do not follow their databases (PgBouncerRows) and what the text of *)
(* pgbouncer.ini says (PgBouncerIni).                                      *)
(***************************************************************************)
EXTENDS PgBouncerHealing, PgBouncerRows, PgBouncerIni, TLAPS

(* What the helpers on the local variables of a worker do. *)

WorkTyped ==
    /\ work \in [Workers -> Work]
    /\ \A w \in Workers :
         /\ work[w].pc \in {"insert_row", "delete_row", "recreate"} => work[w].db # None
         /\ work[w].pc \in {"truncate_hba", "write_hba"} => work[w].acl # None
         /\ work[w].pc \in {"truncate_ini", "write_ini"} => work[w].ini # None

LEMMA IdleTyped == Idle \in Work /\ Idle.pc = "idle"
  BY DEF Idle, Work, Pcs

\* The other workers stand still, and w goes on as r.
Becomes(w, r) ==
    /\ work'[w] = r
    /\ \A v \in Workers \ {w} : work'[v] = work[v]

\* A request keeps its shape if the worker that moves arrives in shape.
LEMMA TypedStep ==
    ASSUME WorkTyped, NEW w \in Workers, NEW r \in Work,
           work' = [work EXCEPT ![w] = r],
           r.pc \in {"insert_row", "delete_row", "recreate"} => r.db # None,
           r.pc \in {"truncate_hba", "write_hba"} => r.acl # None,
           r.pc \in {"truncate_ini", "write_ini"} => r.ini # None
    PROVE  WorkTyped' /\ Becomes(w, r)
  BY DEF WorkTyped, Becomes

LEMMA GotoStep ==
    ASSUME WorkTyped, NEW w \in Workers, NEW pc \in Pcs, Goto(w, pc),
           pc \notin {"insert_row", "delete_row", "recreate", "truncate_hba", "truncate_ini"},
           pc = "write_hba" => At(w, "truncate_hba"),
           pc = "write_ini" => At(w, "truncate_ini")
    PROVE  WorkTyped' /\ Becomes(w, Onward(w, pc))
  <1>1. work[w] \in Work
    BY DEF WorkTyped
  <1>2. /\ Onward(w, pc) \in Work
        /\ Onward(w, pc).pc = pc
    BY <1>1 DEF Work, Onward, Idle
  <1>3. pc = "write_hba" => Onward(w, pc).acl # None
    BY DEF Onward, Idle, At, WorkTyped
  <1>4. pc = "write_ini" => Onward(w, pc).ini # None
    BY DEF Onward, Idle, At, WorkTyped
  <1> QED  BY <1>2, <1>3, <1>4, TypedStep DEF Goto

LEMMA DoneStep ==
    ASSUME WorkTyped, NEW w \in Workers, Done(w)
    PROVE  WorkTyped' /\ Becomes(w, Idle)
  <1> QED  BY IdleTyped, TypedStep DEF Done

LEMMA ReadStep ==
    ASSUME WorkTyped, NEW w \in Workers, NEW a \in Acls, Read(w, a)
    PROVE  WorkTyped' /\ Becomes(w, [work[w] EXCEPT !.pc = "truncate_hba", !.acl = a])
  <1> DEFINE r == [work[w] EXCEPT !.pc = "truncate_hba", !.acl = a]
  <1>1. r \in Work /\ r.pc = "truncate_hba" /\ r.acl # None
    BY SyncAssumption, ZenonT(60) DEF WorkTyped, Work, Pcs
  <1>2. work' = [work EXCEPT ![w] = r]
    BY DEF Read, WorkTyped, Work
  <1> HIDE DEF r
  <1>3. WorkTyped' /\ Becomes(w, r)
    BY <1>1, <1>2, TypedStep
  <1> QED  BY <1>3 DEF r

LEMMA SpendStep ==
    ASSUME TypeOK, NEW what \in {"changes", "restarts", "failures"}, Spend(what)
    PROVE  /\ budget' \in [changes : 0 .. MaxChanges, restarts : 0 .. MaxRestarts,
                            failures : 0 .. MaxFailures]
           /\ budget'[what] = budget[what] - 1
  BY SyncAssumption DEF TypeOK, Spend

-----------------------------------------------------------------------------
(* Types *)

TablesTyped ==
    /\ databases \subseteq Dbs
    /\ DOMAIN rows \subseteq Dbs /\ rows \in [DOMAIN rows -> BOOLEAN]
    /\ acl \in Acls /\ pool \in Pools

FilesTyped ==
    /\ hba \in Acls \cup {None, TornHba}
    /\ ini \in Ini \cup {None}

LiveTyped ==
    /\ bouncer \in {"down", "copied", "up"}
    /\ live \in [hba : Acls \cup {None, TornHba}, dbs : SUBSET (Dbs \cup {Star}),
                 pool : Pools \cup {None}, rest : BOOLEAN]

BudgetTyped ==
    budget \in [changes : 0 .. MaxChanges, restarts : 0 .. MaxRestarts,
               failures : 0 .. MaxFailures]

LEMMA TypeParts ==
    TypeOK <=> /\ TablesTyped /\ FilesTyped /\ LiveTyped /\ BudgetTyped /\ WorkTyped
               /\ serving \in BOOLEAN
  BY DEF TypeOK, TablesTyped, FilesTyped, LiveTyped, BudgetTyped, WorkTyped

\* Every change of the tables is one of these.
LEMMA RowsTyped ==
    ASSUME TablesTyped, NEW d \in Dbs, NEW b \in BOOLEAN
    PROVE  /\ [rows EXCEPT ![d] = b] \in [DOMAIN rows -> BOOLEAN]
           /\ [e \in DOMAIN rows \cup {d} |-> IF e \in DOMAIN rows THEN rows[e] ELSE TRUE]
                \in [DOMAIN rows \cup {d} -> BOOLEAN]
           /\ [e \in DOMAIN rows \ {d} |-> rows[e]] \in [DOMAIN rows \ {d} -> BOOLEAN]
  BY DEF TablesTyped

LEMMA IniTyped ==
    ASSUME SyncAssumption
    PROVE  /\ BaseIni \in Ini /\ TornIni \in Ini
           /\ \A f \in Ini : \A D \in SUBSET Dbs : WithDatabases(f, D) \in Ini
           /\ \A f \in Ini : \A q \in Pools \cup {None} : WithPool(f, q) \in Ini
  BY DEF SyncAssumption, BaseIni, TornIni, Ini, WithDatabases, WithPool

\* A container starts from the base file, so that it always loads a file.
LEMMA LoadedTyped ==
    ASSUME FilesTyped, ini \in Ini
    PROVE  Loaded \in [hba : Acls \cup {None, TornHba}, dbs : SUBSET (Dbs \cup {Star}),
                      pool : Pools \cup {None}, rest : BOOLEAN]
  BY DEF FilesTyped, Loaded, Ini

\* PgBouncer never runs, or gets launched, without a pgbouncer.ini.
SyncTypeInv == TypeOK /\ (bouncer # "down" => ini # None)

LEMMA PcsTyped ==
    {"idle", "insert_row", "delete_row", "recreate", "query_acl", "truncate_hba", "write_hba",
     "query_dbs", "read_ini", "query_pool", "read_section", "truncate_ini",
     "write_ini", "reload"} \subseteq Pcs
  BY DEF Pcs

\* A request that has changed a database, and goes on to its row or to create it.
LEMMA RowRequest ==
    ASSUME WorkTyped, NEW w \in Workers, NEW pc \in {"insert_row", "delete_row", "recreate"},
           NEW d \in Dbs, work' = [work EXCEPT ![w] = [Idle EXCEPT !.pc = pc, !.db = d]]
    PROVE  WorkTyped' /\ Becomes(w, [Idle EXCEPT !.pc = pc, !.db = d])
  <1> DEFINE r == [Idle EXCEPT !.pc = pc, !.db = d]
  <1>1. r \in Work /\ r.pc = pc /\ r.db # None
    BY SyncAssumption DEF Idle, Work, Pcs
  <1>2. work' = [work EXCEPT ![w] = r]
    OBVIOUS
  <1> HIDE DEF r
  <1>3. WorkTyped' /\ Becomes(w, r)
    BY <1>1, <1>2, TypedStep
  <1> QED  BY <1>3 DEF r

LEMMA BeginTyped ==
    ASSUME SyncTypeInv, NEW w \in Handlers, Begin(w)
    PROVE  SyncTypeInv'
  <1>0. /\ TablesTyped /\ FilesTyped /\ LiveTyped /\ WorkTyped /\ w \in Workers
        /\ serving \in BOOLEAN /\ (bouncer # "down" => ini # None)
    BY TypeParts DEF SyncTypeInv, Workers
  <1> SUFFICES ASSUME UNCHANGED <<acl, files, container, serving>>
               PROVE  /\ TablesTyped' /\ WorkTyped' /\ BudgetTyped'
    <2>1. UNCHANGED <<acl, files, container, serving>>
      BY DEF Begin, CreateDatabase, DeleteDatabase, RestoreBackup, TogglePgBouncerDatabase,
             UpdatePgBouncerConfig, tables
    <2>2. FilesTyped' /\ LiveTyped'
      BY <1>0, <2>1 DEF FilesTyped, LiveTyped, files, container
    <2>3. serving' \in BOOLEAN /\ (bouncer' # "down" => ini' # None)
      BY <1>0, <2>1 DEF files, container
    <2> QED  BY <2>1, <2>2, <2>3, TypeParts DEF SyncTypeInv, TypeOK, TablesTyped, FilesTyped, LiveTyped, BudgetTyped, WorkTyped
  <1>1. Spend("changes")
    BY DEF Begin, CreateDatabase, DeleteDatabase, RestoreBackup, TogglePgBouncerDatabase,
           UpdatePgBouncerConfig
  <1>2. BudgetTyped'
    BY <1>1, SpendStep DEF SyncTypeInv, BudgetTyped
  <1>3. ASSUME NEW d \in Dbs, CreateDatabase(w, d)
        PROVE  TablesTyped' /\ WorkTyped'
    BY <1>0, <1>3, RowRequest DEF CreateDatabase, TablesTyped
  <1>4. ASSUME NEW d \in Dbs, DeleteDatabase(w, d)
        PROVE  TablesTyped' /\ WorkTyped'
    BY <1>0, <1>4, RowRequest DEF DeleteDatabase, TablesTyped
  <1>7. ASSUME NEW d \in Dbs, RestoreBackup(w, d)
        PROVE  TablesTyped' /\ WorkTyped'
    BY <1>0, <1>7, RowRequest DEF RestoreBackup, TablesTyped
  <1>5. ASSUME NEW d \in Dbs, NEW b \in BOOLEAN, TogglePgBouncerDatabase(w, d, b)
        PROVE  TablesTyped' /\ WorkTyped'
    <2>1. TablesTyped'
      <3>1. rows' = [rows EXCEPT ![d] = b] /\ UNCHANGED <<databases, acl, pool>>
        BY <1>5 DEF TogglePgBouncerDatabase
      <3>2. rows' \in [DOMAIN rows -> BOOLEAN]
        BY <1>0, <3>1, RowsTyped
      <3> QED  BY <1>0, <3>1, <3>2 DEF TablesTyped
    <2>2. WorkTyped'
      BY <1>0, <1>5, GotoStep, PcsTyped DEF TogglePgBouncerDatabase
    <2> QED  BY <2>1, <2>2
  <1>6. ASSUME NEW q \in Pools, UpdatePgBouncerConfig(w, q)
        PROVE  TablesTyped' /\ WorkTyped'
    BY <1>0, <1>6, GotoStep, PcsTyped DEF UpdatePgBouncerConfig, TablesTyped
  <1> QED  BY <1>2, <1>3, <1>4, <1>5, <1>6, <1>7 DEF Begin

\* The steps that change a table's row: the local variable names a database.
LEMMA RowStepTyped ==
    ASSUME SyncTypeInv, NEW w \in Workers, InsertRow(w) \/ DeleteRow(w)
    PROVE  SyncTypeInv'
  <1>0. /\ TablesTyped /\ FilesTyped /\ LiveTyped /\ WorkTyped /\ BudgetTyped
        /\ serving \in BOOLEAN /\ (bouncer # "down" => ini # None)
    BY TypeParts DEF SyncTypeInv
  <1>1. work[w].db \in Dbs
    BY <1>0 DEF InsertRow, DeleteRow, At, WorkTyped, Work
  <1>2. UNCHANGED <<databases, acl, pool, files, container, serving>>
    BY DEF InsertRow, DeleteRow
  <1>3. /\ DOMAIN rows' \subseteq Dbs
        /\ rows' \in [DOMAIN rows' -> BOOLEAN]
    <2>1. CASE UNCHANGED rows
      BY <1>0, <2>1 DEF TablesTyped
    <2>2. CASE ~UNCHANGED rows
      <3>1. \/ rows' = [d \in DOMAIN rows \cup {work[w].db} |->
                        IF d \in DOMAIN rows THEN rows[d] ELSE TRUE]
            \/ rows' = [d \in DOMAIN rows \ {work[w].db} |-> rows[d]]
        BY <2>2 DEF InsertRow, DeleteRow
      <3>2. \/ rows' \in [DOMAIN rows \cup {work[w].db} -> BOOLEAN]
            \/ rows' \in [DOMAIN rows \ {work[w].db} -> BOOLEAN]
        BY <1>0, <1>1, <3>1, RowsTyped
      <3> QED  BY <1>0, <1>1, <3>2 DEF TablesTyped
    <2> QED  BY <2>1, <2>2
  <1>4. WorkTyped'
    BY <1>0, GotoStep, PcsTyped DEF InsertRow, DeleteRow
  <1>5. BudgetTyped'
    <2>1. UNCHANGED budget \/ Spend("failures")
      BY DEF InsertRow, DeleteRow
    <2> QED  BY <1>0, <2>1, SpendStep DEF BudgetTyped, SyncTypeInv
  <1>6. TablesTyped' /\ FilesTyped' /\ LiveTyped' /\ serving' \in BOOLEAN
    BY <1>0, <1>2, <1>3 DEF TablesTyped, FilesTyped, LiveTyped, files, container
  <1> QED
    BY <1>0, <1>2, <1>4, <1>5, <1>6
    DEF SyncTypeInv, files, container, TypeOK, TablesTyped, FilesTyped, LiveTyped, BudgetTyped,
        WorkTyped

\* The end of a restore changes the databases and nothing else.
LEMMA RecreateTyped ==
    ASSUME SyncTypeInv, NEW w \in Workers, RecreateDatabase(w)
    PROVE  SyncTypeInv'
  <1>0. /\ TablesTyped /\ FilesTyped /\ LiveTyped /\ WorkTyped /\ BudgetTyped
        /\ serving \in BOOLEAN /\ (bouncer # "down" => ini # None)
    BY TypeParts DEF SyncTypeInv
  <1>1. work[w].db \in Dbs
    BY <1>0 DEF RecreateDatabase, At, WorkTyped, Work
  <1>2. UNCHANGED <<rows, acl, pool, files, container>>
    BY DEF RecreateDatabase
  <1>3. databases' = databases \/ databases' = databases \cup {work[w].db}
    BY DEF RecreateDatabase
  <1>4. TablesTyped' /\ FilesTyped' /\ LiveTyped'
    BY <1>0, <1>1, <1>2, <1>3 DEF TablesTyped, FilesTyped, LiveTyped, files, container
  <1>5. WorkTyped' /\ serving' \in BOOLEAN
    BY <1>0, DoneStep DEF RecreateDatabase, Done
  <1>6. BudgetTyped'
    <2>1. UNCHANGED budget \/ Spend("failures")
      BY DEF RecreateDatabase
    <2> QED  BY <1>0, <2>1, SpendStep DEF BudgetTyped, SyncTypeInv
  <1> QED
    BY <1>0, <1>2, <1>4, <1>5, <1>6
    DEF SyncTypeInv, files, container, TypeOK, TablesTyped, FilesTyped, LiveTyped, BudgetTyped,
        WorkTyped

\* A rebuild changes no table; the shared files and its local variables keep
\* their types, whichever rebuilds run beside it.
LEMMA AclWorkTyped ==
    ASSUME WorkTyped, TablesTyped, NEW w \in Workers,
           QueryAcl(w) \/ TruncateHba(w) \/ WriteHba(w)
    PROVE  WorkTyped'
  <1>1. CASE QueryAcl(w)
    <2>1. Done(w) \/ \E a \in Acls : Read(w, a)
      BY <1>1 DEF QueryAcl, TablesTyped
    <2> QED  BY <2>1, DoneStep, ReadStep
  <1>2. CASE TruncateHba(w)
    BY <1>2, GotoStep, PcsTyped DEF TruncateHba
  <1>3. CASE WriteHba(w)
    <2>1. Goto(w, "query_dbs") \/ Done(w)
      BY <1>3 DEF WriteHba
    <2> QED  BY <2>1, DoneStep, GotoStep, PcsTyped
  <1> QED  BY <1>1, <1>2, <1>3

LEMMA IniWorkTyped ==
    ASSUME WorkTyped, TablesTyped, FilesTyped, NEW w \in Workers,
           QueryDbs(w) \/ ReadIni(w) \/ QueryPool(w) \/ ReadSection(w)
    PROVE  WorkTyped'
  <1>0. work[w] \in Work
    BY DEF WorkTyped
  <1>1. CASE QueryDbs(w)
    <2>1. CASE Goto(w, "reload")
      BY <2>1, GotoStep, PcsTyped
    <2>2. ASSUME NEW D \in SUBSET Allowed,
                 work' = [work EXCEPT ![w].pc = "read_ini", ![w].dbs = D]
          PROVE  WorkTyped'
      <3> DEFINE r == [work[w] EXCEPT !.pc = "read_ini", !.dbs = D]
      <3>1. D \subseteq Dbs
        BY DEF Allowed, TablesTyped
      <3>2. r \in Work /\ r.pc = "read_ini"
        BY <1>0, <3>1 DEF Work, Pcs
      <3>3. work' = [work EXCEPT ![w] = r]
        BY <2>2 DEF WorkTyped, Work
      <3> HIDE DEF r
      <3> QED  BY <3>2, <3>3, TypedStep
    <2> QED  BY <1>1, <2>1, <2>2 DEF QueryDbs
  <1>2. CASE ReadIni(w)
    <2>1. CASE ini = None
      BY <1>2, <2>1, GotoStep, PcsTyped DEF ReadIni
    <2>2. CASE ini # None
      <3> DEFINE f == WithDatabases(ini, work[w].dbs)
      <3> DEFINE r == [work[w] EXCEPT !.pc = "truncate_ini", !.dbs = {}, !.ini = f]
      <3>1. f \in Ini /\ f # None
        <4>1. ini \in Ini /\ work[w].dbs \in SUBSET Dbs
          BY <1>0, <2>2 DEF FilesTyped, Work
        <4> QED  BY <4>1, IniTyped, SyncAssumption, NoFileAssumption
      <3>2. work' = [work EXCEPT ![w] = [work[w] EXCEPT !.pc = "truncate_ini", !.dbs = {}, !.ini = f]]
        BY <1>2, <2>2 DEF ReadIni, WorkTyped, Work
      <3> HIDE DEF f
      <3>3. r \in Work /\ r.pc = "truncate_ini" /\ r.ini # None
        BY <1>0, <3>1 DEF Work, Pcs
      <3>4. work' = [work EXCEPT ![w] = r]
        BY <3>2
      <3> HIDE DEF r
      <3> QED  BY <3>3, <3>4, TypedStep
    <2> QED  BY <2>1, <2>2
  <1>3. CASE QueryPool(w)
    <2>1. CASE Done(w) \/ Goto(w, "reload")
      BY <2>1, DoneStep, GotoStep, PcsTyped
    <2>2. ASSUME NEW q \in Pools,
                 work' = [work EXCEPT ![w].pc = "read_section", ![w].pool = q]
          PROVE  WorkTyped'
      <3> DEFINE r == [work[w] EXCEPT !.pc = "read_section", !.pool = q]
      <3>1. r \in Work /\ r.pc = "read_section"
        BY <1>0 DEF Work, Pcs
      <3>2. work' = [work EXCEPT ![w] = r]
        BY <2>2 DEF WorkTyped, Work
      <3> HIDE DEF r
      <3> QED  BY <3>1, <3>2, TypedStep
    <2> QED  BY <1>3, <2>1, <2>2 DEF QueryPool
  <1>4. CASE ReadSection(w)
    <2>1. CASE ini = None
      BY <1>4, <2>1, GotoStep, PcsTyped DEF ReadSection
    <2>2. CASE ini # None
      <3> DEFINE f == WithPool(ini, work[w].pool)
      <3> DEFINE r == [work[w] EXCEPT !.pc = "truncate_ini", !.pool = None, !.ini = f]
      <3>1. f \in Ini /\ f # None
        <4>1. ini \in Ini /\ work[w].pool \in Pools \cup {None}
          BY <1>0, <2>2 DEF FilesTyped, Work
        <4> QED  BY <4>1, IniTyped, SyncAssumption, NoFileAssumption
      <3>2. work' = [work EXCEPT ![w] = [work[w] EXCEPT !.pc = "truncate_ini", !.pool = None, !.ini = f]]
        BY <1>4, <2>2 DEF ReadSection, WorkTyped, Work
      <3> HIDE DEF f
      <3>3. r \in Work /\ r.pc = "truncate_ini" /\ r.ini # None
        BY <1>0, <3>1 DEF Work, Pcs
      <3>4. work' = [work EXCEPT ![w] = r]
        BY <3>2
      <3> HIDE DEF r
      <3> QED  BY <3>3, <3>4, TypedStep
    <2> QED  BY <2>1, <2>2
  <1> QED  BY <1>1, <1>2, <1>3, <1>4

LEMMA RebuildTyped ==
    ASSUME SyncTypeInv, NEW w \in Workers, RebuildStep(w)
    PROVE  SyncTypeInv'
  <1>0. /\ TablesTyped /\ FilesTyped /\ LiveTyped /\ WorkTyped /\ BudgetTyped
        /\ serving \in BOOLEAN /\ (bouncer # "down" => ini # None)
    BY TypeParts DEF SyncTypeInv
  <1>1. UNCHANGED tables /\ UNCHANGED bouncer
    BY DEF RebuildStep, QueryAcl, TruncateHba, WriteHba, QueryDbs, ReadIni, QueryPool,
           ReadSection, TruncateIni, WriteIni, ReloadPgBouncer, container
  <1>2. BudgetTyped'
    <2>1. UNCHANGED budget \/ Spend("failures")
      BY DEF RebuildStep, QueryAcl, TruncateHba, WriteHba, QueryDbs, ReadIni, QueryPool,
             ReadSection, TruncateIni, WriteIni, ReloadPgBouncer
    <2> QED  BY <1>0, <2>1, SpendStep DEF BudgetTyped, SyncTypeInv
  <1>3. serving' \in BOOLEAN
    BY <1>0 DEF RebuildStep, QueryAcl, TruncateHba, WriteHba, QueryDbs, ReadIni, QueryPool,
           ReadSection, TruncateIni, WriteIni, ReloadPgBouncer, Done
  <1>4. FilesTyped' /\ (bouncer' # "down" => ini' # None)
    <2>1. hba' \in {hba, TornHba} \/ (At(w, "write_hba") /\ hba' = work[w].acl)
      BY DEF RebuildStep, QueryAcl, TruncateHba, WriteHba, QueryDbs, ReadIni, QueryPool,
             ReadSection, TruncateIni, WriteIni, ReloadPgBouncer, files
    <2>2. ini' \in {ini, TornIni} \/ (At(w, "write_ini") /\ ini' = work[w].ini)
      BY DEF RebuildStep, QueryAcl, TruncateHba, WriteHba, QueryDbs, ReadIni, QueryPool,
             ReadSection, TruncateIni, WriteIni, ReloadPgBouncer, files
    <2>3. work[w].acl \in Acls \cup {None} /\ (At(w, "write_ini") => work[w].ini \in Ini)
      BY <1>0 DEF WorkTyped, Work, At
    <2>4. TornIni # None
      BY IniTyped, SyncAssumption, NoFileAssumption
    <2> QED
      BY <1>0, <1>1, <2>1, <2>2, <2>3, <2>4, IniTyped, SyncAssumption, NoFileAssumption DEF FilesTyped
  <1>5. LiveTyped'
    <2>1. UNCHANGED live \/ (bouncer = "up" /\ live' = Loaded)
      BY DEF RebuildStep, QueryAcl, TruncateHba, WriteHba, QueryDbs, ReadIni, QueryPool,
             ReadSection, TruncateIni, WriteIni, ReloadPgBouncer, Reachable, container
    <2> QED  BY <1>0, <1>1, <2>1, LoadedTyped DEF LiveTyped, FilesTyped
  <1>6. WorkTyped'
    <2>1. CASE TruncateIni(w)
      BY <1>0, <2>1, GotoStep, PcsTyped DEF TruncateIni
    <2>2. CASE WriteIni(w)
      BY <1>0, <2>2, GotoStep, PcsTyped DEF WriteIni
    <2>3. CASE ReloadPgBouncer(w)
      BY <1>0, <2>3, DoneStep DEF ReloadPgBouncer
    <2> QED  BY <1>0, <2>1, <2>2, <2>3, AclWorkTyped, IniWorkTyped DEF RebuildStep
  <1>7. TablesTyped'
    BY <1>0, <1>1 DEF TablesTyped, tables
  <1> QED
    BY <1>2, <1>3, <1>4, <1>5, <1>6, <1>7
    DEF SyncTypeInv, TypeOK, TablesTyped, FilesTyped, LiveTyped, BudgetTyped, WorkTyped

\* The tick, the users, the two containers.
Outside == Tick \/ (\E a \in Acls : ManagedUsersChange(a)) \/ StopPgBouncer
           \/ CopyBaseIni \/ LaunchPgBouncer \/ RestartApp

LEMMA IdleWorkTyped ==
    ASSUME work' = [w \in Workers |-> IF w = Ticker THEN [Idle EXCEPT !.pc = "query_acl"]
                                      ELSE Idle]
    PROVE  WorkTyped'
  BY DEF WorkTyped, Idle, Work, Pcs

LEMMA OutsideTyped ==
    ASSUME SyncTypeInv, Outside
    PROVE  SyncTypeInv'
  <1>0. /\ TablesTyped /\ FilesTyped /\ LiveTyped /\ WorkTyped /\ BudgetTyped
        /\ serving \in BOOLEAN /\ (bouncer # "down" => ini # None)
    BY TypeParts DEF SyncTypeInv
  <1> SUFFICES /\ TablesTyped' /\ FilesTyped' /\ LiveTyped' /\ WorkTyped' /\ BudgetTyped'
               /\ serving' \in BOOLEAN /\ (bouncer' # "down" => ini' # None)
    BY DEF SyncTypeInv, TypeOK, TablesTyped, FilesTyped, LiveTyped, BudgetTyped, WorkTyped
  <1>1. BudgetTyped'
    <2>1. UNCHANGED budget \/ Spend("changes") \/ Spend("restarts")
      BY DEF Outside, Tick, ManagedUsersChange, StopPgBouncer, CopyBaseIni, LaunchPgBouncer,
             RestartApp
    <2> QED  BY <1>0, <2>1, SpendStep DEF BudgetTyped, SyncTypeInv
  <1>2. CASE Tick
    <2>1. WorkTyped'
      BY <1>0, <1>2, GotoStep, PcsTyped DEF Tick, Workers
    <2> QED
      BY <1>0, <1>1, <1>2, <2>1 DEF Tick, TablesTyped, FilesTyped, LiveTyped, tables, files, container
  <1>3. CASE \E a \in Acls : ManagedUsersChange(a)
    BY <1>0, <1>1, <1>3
    DEF ManagedUsersChange, TablesTyped, FilesTyped, LiveTyped, WorkTyped, files, container
  <1>4. CASE StopPgBouncer
    BY <1>0, <1>1, <1>4
    DEF StopPgBouncer, TablesTyped, FilesTyped, LiveTyped, WorkTyped, tables, files
  <1>5. CASE CopyBaseIni
    <2>1. BaseIni \in Ini /\ BaseIni # None
      BY IniTyped, SyncAssumption, NoFileAssumption
    <2> QED
      BY <1>0, <1>1, <1>5, <2>1
      DEF CopyBaseIni, TablesTyped, FilesTyped, LiveTyped, WorkTyped, tables
  <1>6. CASE LaunchPgBouncer
    <2>1. ini \in Ini /\ live' = Loaded
      BY <1>0, <1>6 DEF LaunchPgBouncer, FilesTyped
    <2>2. LiveTyped'
      BY <1>0, <1>6, <2>1, LoadedTyped DEF LiveTyped, LaunchPgBouncer
    <2> QED
      BY <1>0, <1>1, <1>6, <2>1, <2>2
      DEF LaunchPgBouncer, TablesTyped, FilesTyped, WorkTyped, tables, files
  <1>7. CASE RestartApp
    <2>1. WorkTyped'
      BY <1>7, IdleWorkTyped DEF RestartApp
    <2> QED
      BY <1>0, <1>1, <1>7, <2>1
      DEF RestartApp, TablesTyped, FilesTyped, LiveTyped, tables, files, container
  <1> QED  BY <1>2, <1>3, <1>4, <1>5, <1>6, <1>7 DEF Outside

\* Every step is one of these.
LEMMA NextParts ==
    Next <=> \/ \E w \in Handlers : Begin(w)
             \/ \E w \in Workers : InsertRow(w) \/ DeleteRow(w)
             \/ \E w \in Workers : RecreateDatabase(w)
             \/ \E w \in Workers : RebuildStep(w)
             \/ Outside
  BY DEF Next, Step, RebuildStep, Outside

LEMMA InitTyped == Init => SyncTypeInv
  <1> SUFFICES ASSUME Init PROVE SyncTypeInv
    OBVIOUS
  <1>1. TablesTyped
    BY SyncAssumption DEF Init, TablesTyped
  <1>2. BaseIni \in Ini /\ BaseIni # None
    BY IniTyped, SyncAssumption, NoFileAssumption
  <1>3. FilesTyped /\ LiveTyped /\ (bouncer # "down" => ini # None)
    BY <1>2, SyncAssumption DEF Init, FilesTyped, LiveTyped
  <1>4. WorkTyped
    BY DEF Init, WorkTyped, Idle, Work, Pcs
  <1>5. BudgetTyped
    BY SyncAssumption DEF Init, BudgetTyped
  <1>6. serving \in BOOLEAN
    BY DEF Init
  <1> QED  BY <1>1, <1>3, <1>4, <1>5, <1>6, TypeParts DEF SyncTypeInv

LEMMA StutterTyped ==
    ASSUME SyncTypeInv, UNCHANGED vars
    PROVE  SyncTypeInv'
  BY DEF SyncTypeInv, TypeOK, vars, Allowed

LEMMA SyncTypeStep ==
    ASSUME SyncTypeInv, [Next]_vars
    PROVE  SyncTypeInv'
  <1>1. CASE UNCHANGED vars
    BY <1>1, StutterTyped
  <1>2. CASE Next
    BY <1>2, NextParts, BeginTyped, RowStepTyped, RecreateTyped, RebuildTyped, OutsideTyped
  <1> QED  BY <1>1, <1>2

\* The types are invariant for any overlap of rebuilds, torn files, failing
\* queries, writes and reloads, and restarts of the app and of PgBouncer; in
\* particular, PgBouncer always loads a file that is there.
THEOREM SyncTyped == Spec => []SyncTypeInv
  BY InitTyped, SyncTypeStep, PTL DEF Spec

\* Tables, files, the process and every rebuild have the types of TypeOK.
THEOREM SyncTypeCorrect == Spec => []TypeOK
  <1>1. SyncTypeInv => TypeOK
    BY DEF SyncTypeInv
  <1> QED  BY <1>1, SyncTyped, PTL

-----------------------------------------------------------------------------
(* One rebuild at a time, and nothing has failed or restarted so far.  At     *)
(* most one worker is busy, and the ticker is until the app serves requests.  *)

Smooth == budget.restarts = MaxRestarts /\ budget.failures = MaxFailures

\* What a step does that leaves the two bounds alone.
Unharmed == ~Spend("failures") /\ ~Spend("restarts")

Quiet ==
    /\ \A w \in Workers : ~At(w, "idle") => Alone(w)
    /\ serving \/ ~At(Ticker, "idle")

QuietInv == SyncTypeInv /\ Quiet

LEMMA BudgetStep ==
    ASSUME Next
    PROVE  UNCHANGED budget \/ \E what \in {"changes", "restarts", "failures"} : Spend(what)
  <1>1. ASSUME NEW w \in Handlers, Begin(w) PROVE Spend("changes")
    BY <1>1 DEF Begin, CreateDatabase, DeleteDatabase, RestoreBackup, TogglePgBouncerDatabase,
                UpdatePgBouncerConfig
  <1>2. ASSUME NEW w \in Workers, InsertRow(w) \/ DeleteRow(w) \/ RecreateDatabase(w)
        PROVE  UNCHANGED budget \/ Spend("failures")
    BY <1>2 DEF InsertRow, DeleteRow, RecreateDatabase
  <1>3. ASSUME NEW w \in Workers, RebuildStep(w)
        PROVE  UNCHANGED budget \/ Spend("failures")
    BY <1>3 DEF RebuildStep, QueryAcl, TruncateHba, WriteHba, QueryDbs, ReadIni, QueryPool,
                ReadSection, TruncateIni, WriteIni, ReloadPgBouncer
  <1>4. ASSUME Outside PROVE UNCHANGED budget \/ Spend("changes") \/ Spend("restarts")
    BY <1>4 DEF Outside, Tick, ManagedUsersChange, StopPgBouncer, CopyBaseIni, LaunchPgBouncer,
                RestartApp
  <1> QED  BY <1>1, <1>2, <1>3, <1>4, NextParts

\* What has not failed after a step had not failed before it.
LEMMA SmoothBefore ==
    ASSUME SyncTypeInv, [Next]_vars, Smooth'
    PROVE  Smooth /\ Unharmed
  <1>0. TypeOK /\ budget \in [changes : 0 .. MaxChanges, restarts : 0 .. MaxRestarts,
                              failures : 0 .. MaxFailures]
    BY DEF SyncTypeInv, TypeOK
  <1>1. CASE UNCHANGED budget
    <2>1. \A what \in {"changes", "restarts", "failures"} : ~Spend(what)
      BY <1>0, <1>1, SpendStep, SyncAssumption
    <2> QED  BY <1>1, <2>1 DEF Smooth, Unharmed
  <1>2. ASSUME NEW what \in {"changes", "restarts", "failures"}, Spend(what)
        PROVE  Smooth /\ Unharmed
    <2>1. /\ budget'.restarts <= budget.restarts /\ budget'.failures <= budget.failures
      BY <1>0, <1>2, SyncAssumption DEF Spend
    <2>2. /\ Spend("restarts") => budget'.restarts < budget.restarts
          /\ Spend("failures") => budget'.failures < budget.failures
      BY <1>0, SyncAssumption DEF Spend
    <2> QED  BY <1>0, <2>1, <2>2, SyncAssumption DEF Smooth, Unharmed
  <1>3. CASE UNCHANGED vars
    BY <1>1, <1>3 DEF vars
  <1> QED  BY <1>1, <1>2, <1>3, BudgetStep

\* A worker that stands alone moves: it still does.
LEMMA AloneStep ==
    ASSUME NEW w \in Workers, NEW r, Alone(w), Becomes(w, r)
    PROVE  Alone(w)' /\ (\A v \in Workers : ~At(v, "idle")' => v = w)
  BY DEF Alone, Becomes, At

LEMMA QuietMove ==
    ASSUME QuietInv, NEW w \in Workers, NEW r, Alone(w), Becomes(w, r),
           \/ r.pc # "idle" /\ UNCHANGED serving
           \/ serving' = (serving \/ w = Ticker)
    PROVE  Quiet'
  <1>2. \A v \in Workers : ~At(v, "idle")' => Alone(v)'
    BY AloneStep
  <1>3. (serving \/ ~At(Ticker, "idle"))'
    <2>1. CASE w = Ticker
      BY <2>1 DEF Becomes, At, QuietInv, Quiet
    <2>2. CASE w # Ticker
      <3>1. At(Ticker, "idle")
        BY <2>2 DEF Alone, Workers
      <3>2. serving
        BY <3>1 DEF QuietInv, Quiet
      <3> QED  BY <3>2
    <2> QED  BY <2>1, <2>2
  <1> QED  BY <1>2, <1>3 DEF Quiet

\* What a request that is let in finds: nobody at work.
LEMMA StartsAlone ==
    ASSUME ~Overlap, NEW w \in Workers, MayStart(w)
    PROVE  serving /\ Idling /\ Alone(w)
  BY DEF MayStart, Idling, Alone

LEMMA BusyAlone ==
    ASSUME QuietInv, NEW w \in Workers, ~At(w, "idle")
    PROVE  Alone(w)
  BY DEF QuietInv, Quiet

(* Where each step takes the worker that makes it. *)

LEMMA PlainMoves ==
    ASSUME SyncTypeInv, NEW w \in Workers
    PROVE  /\ \A a \in Acls : Read(w, a)
                => Becomes(w, [work[w] EXCEPT !.pc = "truncate_hba", !.acl = a])
           /\ \A pc \in Pcs \ {"insert_row", "delete_row", "recreate", "truncate_hba",
                               "truncate_ini", "write_hba", "write_ini"} :
                Goto(w, pc) => Becomes(w, Onward(w, pc))
           /\ At(w, "truncate_hba") /\ Goto(w, "write_hba") => Becomes(w, Onward(w, "write_hba"))
           /\ At(w, "truncate_ini") /\ Goto(w, "write_ini") => Becomes(w, Onward(w, "write_ini"))
           /\ Done(w) => Becomes(w, Idle)
  <1>1. WorkTyped
    BY TypeParts DEF SyncTypeInv
  <1>2. \A a \in Acls : Read(w, a)
          => Becomes(w, [work[w] EXCEPT !.pc = "truncate_hba", !.acl = a])
    BY <1>1, ReadStep
  <1>3. \A pc \in Pcs \ {"insert_row", "delete_row", "recreate", "truncate_hba", "truncate_ini",
                         "write_hba", "write_ini"} :
          Goto(w, pc) => Becomes(w, Onward(w, pc))
    BY <1>1, GotoStep
  <1>4. At(w, "truncate_hba") /\ Goto(w, "write_hba") => Becomes(w, Onward(w, "write_hba"))
    BY <1>1, GotoStep, PcsTyped
  <1>5. At(w, "truncate_ini") /\ Goto(w, "write_ini") => Becomes(w, Onward(w, "write_ini"))
    BY <1>1, GotoStep, PcsTyped
  <1>6. Done(w) => Becomes(w, Idle)
    BY <1>1, DoneStep
  <1> QED  BY <1>2, <1>3, <1>4, <1>5, <1>6

LEMMA NothingSpent ==
    ASSUME SyncTypeInv, UNCHANGED budget
    PROVE  \A what \in {"changes", "restarts", "failures"} : ~Spend(what)
  BY SpendStep, SyncAssumption DEF SyncTypeInv, TypeOK

LEMMA RebuildSpends ==
    ASSUME NEW w \in Workers, RebuildStep(w)
    PROVE  UNCHANGED budget \/ Spend("failures")
  BY DEF RebuildStep, QueryAcl, TruncateHba, WriteHba, QueryDbs, ReadIni, QueryPool,
         ReadSection, TruncateIni, WriteIni, ReloadPgBouncer

\* Where a worker stands after a rebuild's step if nothing fails, and what
\* became of the files.
LEMMA RebuildGoes ==
    ASSUME SyncTypeInv, UNCHANGED budget, NEW w \in Workers, RebuildStep(w)
    PROVE  /\ UNCHANGED <<tables, bouncer, budget>>
           /\ ~At(w, "idle")
           /\ At(w, "truncate_hba") \/ At(w, "write_hba") \/ UNCHANGED hba
           /\ \E r : /\ Becomes(w, r)
                     /\ \/ r.pc # "idle" /\ UNCHANGED <<live, serving>>
                        \/ r.pc = "idle" /\ serving' = (serving \/ w = Ticker)
                     /\ \/ /\ At(w, "query_acl") /\ r.pc = "truncate_hba" /\ r.acl = acl
                           /\ UNCHANGED ini
                        \/ /\ At(w, "truncate_hba") /\ r.pc = "write_hba"
                           /\ r.acl = work[w].acl /\ UNCHANGED ini
                        \/ /\ At(w, "write_hba") /\ r.pc = "query_dbs"
                           /\ hba' = work[w].acl /\ UNCHANGED ini
                        \/ At(w, "query_dbs") /\ r.pc = "read_ini" /\ r.dbs = Allowed
                           /\ UNCHANGED ini
                        \/ /\ At(w, "read_ini") /\ ini # None /\ r.pc = "truncate_ini"
                           /\ r.ini = WithDatabases(ini, work[w].dbs) /\ UNCHANGED ini
                        \/ At(w, "query_pool") /\ r.pc = "read_section" /\ r.pool = pool
                           /\ UNCHANGED ini
                        \/ /\ At(w, "read_section") /\ ini # None /\ r.pc = "truncate_ini"
                           /\ r.ini = WithPool(ini, work[w].pool) /\ UNCHANGED ini
                        \/ At(w, "read_ini") /\ ini = None /\ r.pc = "reload" /\ UNCHANGED ini
                        \/ At(w, "read_section") /\ ini = None /\ r.pc = "reload"
                           /\ UNCHANGED ini
                        \/ At(w, "truncate_ini") /\ r.pc = "write_ini" /\ r.ini = work[w].ini
                        \/ At(w, "write_ini") /\ r.pc = "reload" /\ ini' = work[w].ini
                        \/ /\ At(w, "reload") /\ r.pc = "idle" /\ UNCHANGED ini
                           /\ Reachable \/ Reachable' => live' = Loaded
  <1>0. WorkTyped /\ work[w] \in Work /\ TablesTyped
    BY TypeParts DEF SyncTypeInv, WorkTyped
  <1>a. ~Spend("failures")
    BY NothingSpent
  <1>b. UNCHANGED <<tables, bouncer, budget>> /\ ~At(w, "idle")
    BY <1>a DEF RebuildStep, QueryAcl, TruncateHba, WriteHba, QueryDbs, ReadIni, QueryPool,
           ReadSection, TruncateIni, WriteIni, ReloadPgBouncer, container, At
  <1>c. At(w, "truncate_hba") \/ At(w, "write_hba") \/ UNCHANGED hba
    BY DEF RebuildStep, QueryAcl, TruncateHba, WriteHba, QueryDbs, ReadIni, QueryPool,
           ReadSection, TruncateIni, WriteIni, ReloadPgBouncer, files
  <1>1. CASE QueryAcl(w)
    <2>1. Becomes(w, [work[w] EXCEPT !.pc = "truncate_hba", !.acl = acl])
      BY <1>0, <1>a, <1>1, PlainMoves DEF QueryAcl, TablesTyped
    <2>2. UNCHANGED <<ini, live, serving>> /\ At(w, "query_acl")
      BY <1>a, <1>1 DEF QueryAcl, files, container
    <2>3. /\ [work[w] EXCEPT !.pc = "truncate_hba", !.acl = acl].pc = "truncate_hba"
          /\ [work[w] EXCEPT !.pc = "truncate_hba", !.acl = acl].acl = acl
      BY <1>0 DEF Work
    <2> QED  BY <1>b, <1>c, <2>1, <2>2, <2>3
  <1>2. CASE TruncateHba(w)
    <2>1. Becomes(w, Onward(w, "write_hba"))
      BY <1>2, PlainMoves DEF TruncateHba
    <2>2. UNCHANGED <<ini, live, serving>> /\ At(w, "truncate_hba")
      BY <1>2 DEF TruncateHba, container
    <2>3. /\ Onward(w, "write_hba").pc = "write_hba"
          /\ Onward(w, "write_hba").acl = work[w].acl
      BY DEF Onward, Idle
    <2> QED  BY <1>b, <1>c, <2>1, <2>2, <2>3
  <1>3. CASE WriteHba(w)
    <2>1. Becomes(w, Onward(w, "query_dbs"))
      BY <1>a, <1>3, PlainMoves, PcsTyped DEF WriteHba
    <2>2. UNCHANGED <<ini, live, serving>> /\ At(w, "write_hba") /\ hba' = work[w].acl
      BY <1>a, <1>3 DEF WriteHba, container
    <2>3. Onward(w, "query_dbs").pc = "query_dbs"
      BY DEF Onward, Idle
    <2> QED  BY <1>b, <1>c, <2>1, <2>2, <2>3
  <1>4. CASE QueryDbs(w)
    <2> DEFINE r == [work[w] EXCEPT !.pc = "read_ini", !.dbs = Allowed]
    <2>1. work' = [work EXCEPT ![w].pc = "read_ini", ![w].dbs = Allowed]
      BY <1>a, <1>4 DEF QueryDbs
    <2>2. Becomes(w, r)
      BY <1>0, <2>1 DEF Becomes, WorkTyped, Work
    <2>3. UNCHANGED <<ini, live, serving>> /\ At(w, "query_dbs")
      BY <1>4 DEF QueryDbs, files, container
    <2>4. r.pc = "read_ini" /\ r.dbs = Allowed
      BY <1>0 DEF Work
    <2> QED  BY <1>b, <1>c, <2>2, <2>3, <2>4
  <1>5. CASE ReadIni(w) /\ ini # None
    <2> DEFINE f == WithDatabases(ini, work[w].dbs)
    <2> DEFINE r == [work[w] EXCEPT !.pc = "truncate_ini", !.dbs = {}, !.ini = f]
    <2>1. work' = [work EXCEPT ![w].pc = "truncate_ini", ![w].dbs = {}, ![w].ini = f]
      BY <1>5 DEF ReadIni
    <2>2. UNCHANGED <<ini, live, serving>> /\ At(w, "read_ini")
      BY <1>5 DEF ReadIni, files, container
    <2> HIDE DEF f
    <2>3. Becomes(w, r)
      BY <1>0, <2>1 DEF Becomes, WorkTyped, Work
    <2>4. r.pc = "truncate_ini" /\ r.ini = f
      BY <1>0 DEF Work
    <2> HIDE DEF r
    <2>5. r.ini = WithDatabases(ini, work[w].dbs)
      BY <2>4 DEF f
    <2> QED  BY <1>5, <1>b, <1>c, <2>2, <2>3, <2>4, <2>5
  <1>6. CASE ReadIni(w) /\ ini = None
    <2>1. Becomes(w, Onward(w, "reload"))
      BY <1>6, PlainMoves, PcsTyped DEF ReadIni
    <2>2. UNCHANGED <<ini, live, serving>> /\ At(w, "read_ini")
      BY <1>6 DEF ReadIni, files, container
    <2>3. Onward(w, "reload").pc = "reload"
      BY DEF Onward, Idle
    <2> QED  BY <1>6, <1>b, <1>c, <2>1, <2>2, <2>3
  <1>7. CASE QueryPool(w)
    <2> DEFINE r == [work[w] EXCEPT !.pc = "read_section", !.pool = pool]
    <2>1. work' = [work EXCEPT ![w].pc = "read_section", ![w].pool = pool]
      BY <1>a, <1>7 DEF QueryPool
    <2>2. Becomes(w, r)
      BY <1>0, <2>1 DEF Becomes, WorkTyped, Work
    <2>3. UNCHANGED <<ini, live, serving>> /\ At(w, "query_pool")
      BY <1>a, <1>7 DEF QueryPool, files, container
    <2>4. r.pc = "read_section" /\ r.pool = pool
      BY <1>0 DEF Work
    <2> QED  BY <1>b, <1>c, <2>2, <2>3, <2>4
  <1>8. CASE ReadSection(w) /\ ini # None
    <2> DEFINE f == WithPool(ini, work[w].pool)
    <2> DEFINE r == [work[w] EXCEPT !.pc = "truncate_ini", !.pool = None, !.ini = f]
    <2>1. work' = [work EXCEPT ![w].pc = "truncate_ini", ![w].pool = None, ![w].ini = f]
      BY <1>8 DEF ReadSection
    <2>2. UNCHANGED <<ini, live, serving>> /\ At(w, "read_section")
      BY <1>8 DEF ReadSection, files, container
    <2> HIDE DEF f
    <2>3. Becomes(w, r)
      BY <1>0, <2>1 DEF Becomes, WorkTyped, Work
    <2>4. r.pc = "truncate_ini" /\ r.ini = f
      BY <1>0 DEF Work
    <2> HIDE DEF r
    <2>5. r.ini = WithPool(ini, work[w].pool)
      BY <2>4 DEF f
    <2> QED  BY <1>8, <1>b, <1>c, <2>2, <2>3, <2>4, <2>5
  <1>9. CASE ReadSection(w) /\ ini = None
    <2>1. Becomes(w, Onward(w, "reload"))
      BY <1>9, PlainMoves, PcsTyped DEF ReadSection
    <2>2. UNCHANGED <<ini, live, serving>> /\ At(w, "read_section")
      BY <1>9 DEF ReadSection, files, container
    <2>3. Onward(w, "reload").pc = "reload"
      BY DEF Onward, Idle
    <2> QED  BY <1>9, <1>b, <1>c, <2>1, <2>2, <2>3
  <1>10. CASE TruncateIni(w)
    <2>1. Becomes(w, Onward(w, "write_ini"))
      BY <1>10, PlainMoves DEF TruncateIni
    <2>2. UNCHANGED <<live, serving>> /\ At(w, "truncate_ini")
      BY <1>10 DEF TruncateIni, container
    <2>3. Onward(w, "write_ini").pc = "write_ini" /\ Onward(w, "write_ini").ini = work[w].ini
      BY DEF Onward, Idle
    <2> QED  BY <1>b, <1>c, <2>1, <2>2, <2>3
  <1>11. CASE WriteIni(w)
    <2>1. Becomes(w, Onward(w, "reload"))
      BY <1>11, PlainMoves, PcsTyped DEF WriteIni
    <2>2. UNCHANGED <<live, serving>> /\ At(w, "write_ini") /\ ini' = work[w].ini
      BY <1>a, <1>11 DEF WriteIni, container
    <2>3. Onward(w, "reload").pc = "reload"
      BY DEF Onward, Idle
    <2> QED  BY <1>b, <1>c, <2>1, <2>2, <2>3
  <1>12. CASE ReloadPgBouncer(w)
    <2>1. Becomes(w, Idle) /\ serving' = (serving \/ w = Ticker)
      BY <1>12, PlainMoves DEF ReloadPgBouncer, Done
    <2>2. UNCHANGED ini /\ At(w, "reload") /\ (Reachable \/ Reachable' => live' = Loaded)
      BY <1>a, <1>12 DEF ReloadPgBouncer, Reachable, files
    <2> QED  BY <1>b, <1>c, <2>1, <2>2, IdleTyped
  <1> QED
    BY <1>1, <1>2, <1>3, <1>4, <1>5, <1>6, <1>7, <1>8, <1>9, <1>10, <1>11, <1>12
    DEF RebuildStep

\* Under the same conditions, and if rebuilds do not overlap, the worker is alone.
LEMMA RebuildMoves ==
    ASSUME Unharmed, QuietInv, NEW w \in Workers, RebuildStep(w)
    PROVE  /\ UNCHANGED <<tables, bouncer, budget>>
           /\ Alone(w)
           /\ \E r : /\ Becomes(w, r)
                     /\ \/ r.pc # "idle" /\ UNCHANGED <<live, serving>>
                        \/ r.pc = "idle" /\ serving' = (serving \/ w = Ticker)
                     /\ \/ /\ At(w, "query_acl") \/ At(w, "truncate_hba") \/ At(w, "write_hba")
                           /\ r.pc \in {"truncate_hba", "write_hba", "query_dbs"}
                           /\ UNCHANGED ini
                        \/ At(w, "query_dbs") /\ r.pc = "read_ini" /\ r.dbs = Allowed
                           /\ UNCHANGED ini
                        \/ /\ At(w, "read_ini") /\ ini # None /\ r.pc = "truncate_ini"
                           /\ r.ini = WithDatabases(ini, work[w].dbs) /\ UNCHANGED ini
                        \/ At(w, "query_pool") /\ r.pc = "read_section" /\ r.pool = pool
                           /\ UNCHANGED ini
                        \/ /\ At(w, "read_section") /\ ini # None /\ r.pc = "truncate_ini"
                           /\ r.ini = WithPool(ini, work[w].pool) /\ UNCHANGED ini
                        \/ At(w, "read_ini") /\ ini = None /\ r.pc = "reload" /\ UNCHANGED ini
                        \/ At(w, "read_section") /\ ini = None /\ r.pc = "reload"
                           /\ UNCHANGED ini
                        \/ At(w, "truncate_ini") /\ r.pc = "write_ini" /\ r.ini = work[w].ini
                        \/ At(w, "write_ini") /\ r.pc = "reload" /\ ini' = work[w].ini
                        \/ /\ At(w, "reload") /\ r.pc = "idle" /\ UNCHANGED ini
                           /\ Reachable \/ Reachable' => live' = Loaded
  <1>1. UNCHANGED budget
    BY RebuildSpends DEF Unharmed
  <1>2. Alone(w)
    BY <1>1, RebuildGoes, BusyAlone DEF QuietInv
  <1> QED  BY <1>1, <1>2, RebuildGoes DEF QuietInv

\* A request that begins finds nobody at work and changes one table.
LEMMA BeginMoves ==
    ASSUME ~Overlap, QuietInv, NEW w \in Handlers, Begin(w)
    PROVE  /\ Idling /\ Alone(w) /\ Spend("changes")
           /\ UNCHANGED <<files, container, serving>>
           /\ \E r : /\ Becomes(w, r)
                     /\ \/ \E d \in Dbs : /\ r.pc = "insert_row" /\ r.db = d
                                          /\ databases' = databases \cup {d}
                                          /\ UNCHANGED <<rows, pool>>
                        \/ \E d \in Dbs : /\ r.pc = "delete_row" /\ r.db = d
                                          /\ databases' = databases \ {d}
                                          /\ UNCHANGED <<rows, pool>>
                        \/ \E d \in DOMAIN rows, b \in BOOLEAN :
                             /\ r.pc = "query_acl" /\ rows' = [rows EXCEPT ![d] = b]
                             /\ UNCHANGED <<databases, pool>>
                        \/ r.pc = "query_pool" /\ UNCHANGED <<databases, rows>>
                        \/ r.pc = "recreate" /\ UNCHANGED <<rows, pool>>
  <1>0. w \in Workers /\ WorkTyped
    BY TypeParts DEF Workers, QuietInv, SyncTypeInv
  <1>1. MayStart(w) /\ Spend("changes") /\ UNCHANGED <<files, container, serving>>
    BY DEF Begin, CreateDatabase, DeleteDatabase, RestoreBackup, TogglePgBouncerDatabase,
           UpdatePgBouncerConfig
  <1>2. Idling /\ Alone(w)
    BY <1>0, <1>1, StartsAlone
  <1>3. ASSUME NEW d \in Dbs, CreateDatabase(w, d)
        PROVE  \E r : /\ Becomes(w, r) /\ r.pc = "insert_row" /\ r.db = d
                      /\ databases' = databases \cup {d} /\ UNCHANGED <<rows, pool>>
    <2>1. Becomes(w, [Idle EXCEPT !.pc = "insert_row", !.db = d])
      BY <1>0, <1>3, RowRequest DEF CreateDatabase
    <2> QED  BY <1>3, <2>1 DEF CreateDatabase, Idle
  <1>4. ASSUME NEW d \in Dbs, DeleteDatabase(w, d)
        PROVE  \E r : /\ Becomes(w, r) /\ r.pc = "delete_row" /\ r.db = d
                      /\ databases' = databases \ {d} /\ UNCHANGED <<rows, pool>>
    <2>1. Becomes(w, [Idle EXCEPT !.pc = "delete_row", !.db = d])
      BY <1>0, <1>4, RowRequest DEF DeleteDatabase
    <2> QED  BY <1>4, <2>1 DEF DeleteDatabase, Idle
  <1>5. ASSUME NEW d \in Dbs, NEW b \in BOOLEAN, TogglePgBouncerDatabase(w, d, b)
        PROVE  \E r : /\ Becomes(w, r) /\ r.pc = "query_acl" /\ d \in DOMAIN rows
                      /\ rows' = [rows EXCEPT ![d] = b] /\ UNCHANGED <<databases, pool>>
    <2>1. Becomes(w, Onward(w, "query_acl")) /\ Onward(w, "query_acl").pc = "query_acl"
      BY <1>0, <1>5, PlainMoves, PcsTyped DEF QuietInv, TogglePgBouncerDatabase, Onward, Idle
    <2> QED  BY <1>5, <2>1 DEF TogglePgBouncerDatabase
  <1>6. ASSUME NEW q \in Pools, UpdatePgBouncerConfig(w, q)
        PROVE  \E r : Becomes(w, r) /\ r.pc = "query_pool" /\ UNCHANGED <<databases, rows>>
    <2>1. Becomes(w, Onward(w, "query_pool")) /\ Onward(w, "query_pool").pc = "query_pool"
      BY <1>0, <1>6, PlainMoves, PcsTyped DEF QuietInv, UpdatePgBouncerConfig, Onward, Idle
    <2> QED  BY <1>6, <2>1 DEF UpdatePgBouncerConfig
  <1>11. ASSUME NEW d \in Dbs, RestoreBackup(w, d)
         PROVE  \E r : Becomes(w, r) /\ r.pc = "recreate" /\ UNCHANGED <<rows, pool>>
    <2>1. Becomes(w, [Idle EXCEPT !.pc = "recreate", !.db = d])
      BY <1>0, <1>11, RowRequest DEF RestoreBackup
    <2> QED  BY <1>11, <2>1 DEF RestoreBackup, Idle
  <1>7. \/ \E d \in Dbs : CreateDatabase(w, d) \/ DeleteDatabase(w, d)
        \/ \E d \in Dbs : RestoreBackup(w, d)
        \/ \E d \in Dbs, b \in BOOLEAN : TogglePgBouncerDatabase(w, d, b)
        \/ \E q \in Pools : UpdatePgBouncerConfig(w, q)
    BY DEF Begin
  <1>8. CASE \E d \in Dbs : CreateDatabase(w, d) \/ DeleteDatabase(w, d)
    BY <1>1, <1>2, <1>3, <1>4, <1>8
  <1>9. CASE \E d \in Dbs, b \in BOOLEAN : TogglePgBouncerDatabase(w, d, b)
    BY <1>1, <1>2, <1>5, <1>9
  <1>10. CASE \E q \in Pools : UpdatePgBouncerConfig(w, q)
    BY <1>1, <1>2, <1>6, <1>10
  <1>12. CASE \E d \in Dbs : RestoreBackup(w, d)
    BY <1>1, <1>2, <1>11, <1>12
  <1> QED  BY <1>7, <1>8, <1>9, <1>10, <1>12

LEMMA RowMoves ==
    ASSUME Unharmed, QuietInv, NEW w \in Workers, InsertRow(w) \/ DeleteRow(w)
    PROVE  /\ Alone(w)
           /\ UNCHANGED <<databases, pool, files, container, serving, budget>>
           /\ \E r : Becomes(w, r) /\ r.pc = "query_acl"
           /\ \/ /\ At(w, "insert_row")
                 /\ rows' = [d \in DOMAIN rows \cup {work[w].db} |->
                              IF d \in DOMAIN rows THEN rows[d] ELSE TRUE]
              \/ /\ At(w, "delete_row")
                 /\ rows' = [d \in DOMAIN rows \ {work[w].db} |-> rows[d]]
  <1>1. ~Spend("failures")
    BY DEF Unharmed
  <1>2. Alone(w)
    BY BusyAlone DEF InsertRow, DeleteRow, At
  <1>3. Becomes(w, Onward(w, "query_acl")) /\ Onward(w, "query_acl").pc = "query_acl"
    BY PlainMoves, PcsTyped DEF QuietInv, InsertRow, DeleteRow, Onward, Idle
  <1>4. UNCHANGED <<databases, pool, files, container, serving, budget>>
    BY <1>1 DEF InsertRow, DeleteRow
  <1>5. \/ /\ At(w, "insert_row")
           /\ rows' = [d \in DOMAIN rows \cup {work[w].db} |->
                        IF d \in DOMAIN rows THEN rows[d] ELSE TRUE]
        \/ /\ At(w, "delete_row")
           /\ rows' = [d \in DOMAIN rows \ {work[w].db} |-> rows[d]]
    BY <1>1 DEF InsertRow, DeleteRow
  <1> QED  BY <1>2, <1>3, <1>4, <1>5

LEMMA RecreateMoves ==
    ASSUME QuietInv, NEW w \in Workers, RecreateDatabase(w)
    PROVE  /\ Alone(w) /\ At(w, "recreate")
           /\ UNCHANGED <<rows, acl, pool, files, container>>
           /\ Becomes(w, Idle) /\ serving' = (serving \/ w = Ticker)
  <1>1. Alone(w) /\ At(w, "recreate")
    BY BusyAlone DEF RecreateDatabase, At
  <1>2. Becomes(w, Idle) /\ serving' = (serving \/ w = Ticker)
    BY PlainMoves DEF QuietInv, RecreateDatabase, Done
  <1>3. UNCHANGED <<rows, acl, pool, files, container>>
    BY DEF RecreateDatabase
  <1> QED  BY <1>1, <1>2, <1>3

\* The ticker starts when nobody is at work; users and containers leave the
\* rebuilds alone, and a container that runs goes on running.
LEMMA OutsideMoves ==
    ASSUME ~Overlap, Unharmed, QuietInv, Outside
    PROVE  /\ UNCHANGED <<databases, rows, pool, hba, serving>>
           /\ bouncer = "up" => UNCHANGED <<ini, container>>
           /\ UNCHANGED budget \/ Spend("changes")
           /\ \/ UNCHANGED work
              \/ /\ Idling /\ Alone(Ticker) /\ UNCHANGED <<ini, container>>
                 /\ \E r : Becomes(Ticker, r) /\ r.pc = "query_acl"
  <1>1. ~Spend("restarts")
    BY DEF Unharmed
  <1>2. CASE Tick
    <2>1. Ticker \in Workers /\ MayStart(Ticker)
      BY <1>2 DEF Tick, Workers
    <2>2. Idling /\ Alone(Ticker)
      BY <2>1, StartsAlone
    <2>3. Becomes(Ticker, Onward(Ticker, "query_acl")) /\ Onward(Ticker, "query_acl").pc = "query_acl"
      BY <1>2, <2>1, PlainMoves, PcsTyped DEF QuietInv, Tick, Onward, Idle
    <2>4. UNCHANGED <<databases, rows, pool, hba, ini, container, serving, budget>>
      BY <1>2 DEF Tick, tables, files
    <2> QED  BY <2>2, <2>3, <2>4
  <1>3. CASE \E a \in Acls : ManagedUsersChange(a)
    BY <1>3 DEF ManagedUsersChange, files
  <1>4. CASE CopyBaseIni
    BY <1>4 DEF CopyBaseIni, tables
  <1>5. CASE LaunchPgBouncer
    BY <1>5 DEF LaunchPgBouncer, tables, files
  <1> QED  BY <1>1, <1>2, <1>3, <1>4, <1>5 DEF Outside, StopPgBouncer, RestartApp

LEMMA QuietInit == ASSUME Init PROVE QuietInv
  <1>1. work = [w \in Workers |-> IF w = Ticker THEN [Idle EXCEPT !.pc = "query_acl"] ELSE Idle]
    BY DEF Init
  <1>2. \A w \in Workers : work[w].pc = IF w = Ticker THEN "query_acl" ELSE "idle"
    BY <1>1, IdleTyped DEF Idle
  <1>3. Ticker \in Workers
    BY DEF Workers
  <1> QED  BY <1>2, <1>3, InitTyped DEF QuietInv, Quiet, Alone, At

LEMMA QuietStep ==
    ASSUME ~Overlap, Unharmed, QuietInv, [Next]_vars
    PROVE  QuietInv'
  <1>0. SyncTypeInv'
    BY SyncTypeStep DEF QuietInv
  <1>1. CASE UNCHANGED vars
    BY <1>0, <1>1 DEF vars, QuietInv, Quiet, Alone, At
  <1>2. ASSUME NEW w \in Handlers, Begin(w) PROVE Quiet'
    <2>1. PICK r : Becomes(w, r) /\ r.pc # "idle"
      BY <1>2, BeginMoves
    <2>2. Alone(w) /\ Spend("changes") /\ UNCHANGED serving /\ w \in Workers
      BY <1>2, BeginMoves DEF Workers
    <2> QED  BY <2>1, <2>2, QuietMove
  <1>3. ASSUME NEW w \in Workers, InsertRow(w) \/ DeleteRow(w) PROVE Quiet'
    <2>1. PICK r : Becomes(w, r) /\ r.pc # "idle"
      BY <1>3, RowMoves
    <2>2. Alone(w) /\ UNCHANGED <<serving, budget>>
      BY <1>3, RowMoves
    <2> QED  BY <2>1, <2>2, QuietMove
  <1>4. ASSUME NEW w \in Workers, RebuildStep(w) PROVE Quiet'
    <2>1. PICK r : /\ Becomes(w, r)
                   /\ \/ r.pc # "idle" /\ UNCHANGED serving
                      \/ serving' = (serving \/ w = Ticker)
      BY <1>4, RebuildMoves
    <2>2. Alone(w) /\ UNCHANGED budget
      BY <1>4, RebuildMoves
    <2> QED  BY <2>1, <2>2, QuietMove
  <1>5. ASSUME Outside PROVE Quiet'
    <2>1. CASE UNCHANGED work
      BY <1>5, <2>1, OutsideMoves DEF QuietInv, Quiet, Alone, At
    <2>2. CASE ~UNCHANGED work
      <3>1. PICK r : Becomes(Ticker, r) /\ r.pc # "idle"
        BY <1>5, <2>2, OutsideMoves
      <3>2. /\ Alone(Ticker) /\ UNCHANGED serving /\ Ticker \in Workers
            /\ UNCHANGED budget \/ Spend("changes")
        BY <1>5, <2>2, OutsideMoves DEF Workers
      <3> QED  BY <3>1, <3>2, QuietMove
    <2> QED  BY <2>1, <2>2
  <1>6. ASSUME NEW w \in Workers, RecreateDatabase(w) PROVE Quiet'
    BY <1>6, RecreateMoves, QuietMove
  <1> QED  BY <1>0, <1>1, <1>2, <1>3, <1>4, <1>5, <1>6, NextParts DEF QuietInv

-----------------------------------------------------------------------------
(* What PgBouncer runs with. *)

Synced == [dbs |-> Allowed, pool |-> pool, rest |-> TRUE]

\* How far a worker's copy, or the file it goes on to rewrite, is the one the
\* tables call for: the rebuild of the HBA file brings the [databases] section
\* and finds the settings in place, the one of the settings the other way round.
Sound(r) ==
    /\ r.pc \in {"insert_row", "delete_row", "query_acl", "truncate_hba", "write_hba",
                 "query_dbs", "read_ini"}
         => ini \in Ini /\ ini.rest /\ ini.pool = pool
    /\ r.pc = "read_ini" => r.dbs = Allowed
    /\ r.pc \in {"query_pool", "read_section"}
         => ini \in Ini /\ ini.rest /\ ini.dbs = Allowed
    /\ r.pc = "read_section" => r.pool = pool
    /\ r.pc \in {"truncate_ini", "write_ini"} => r.ini = Synced
    /\ r.pc = "reload" => ini = Synced

\* No rebuild is under way, or called for.
Resting == \A w \in Workers : work[w].pc \in {"idle", "recreate"}

InPlace == ini = Synced /\ live.dbs = Allowed /\ live.pool = pool

SyncInv ==
    /\ Reachable
    /\ \A w \in Workers : Sound(work[w])
    /\ Resting => InPlace

LEMMA SyncedTyped ==
    ASSUME SyncTypeInv
    PROVE  Synced \in Ini /\ Synced.rest /\ Synced.pool = pool /\ Synced.dbs = Allowed
  BY DEF SyncTypeInv, TypeOK, Synced, Ini, Allowed

LEMMA SameIni ==
    \A f, g \in Ini : f.dbs = g.dbs /\ f.pool = g.pool /\ f.rest = g.rest => f = g
  BY DEF Ini

\* Replacing the one part that is out of date gives the file the tables call for.
LEMMA SectionsReplaced ==
    ASSUME SyncTypeInv, ini \in Ini, ini.rest
    PROVE  /\ ini.pool = pool => WithDatabases(ini, Allowed) = Synced
           /\ ini.dbs = Allowed => WithPool(ini, pool) = Synced
  <1>1. ini.rest = TRUE
    BY DEF Ini
  <1>2. /\ WithDatabases(ini, Allowed) \in Ini /\ WithPool(ini, pool) \in Ini
        /\ Synced \in Ini /\ Synced.rest = TRUE /\ Synced.pool = pool /\ Synced.dbs = Allowed
    BY IniTyped, SyncAssumption, SyncedTyped DEF Allowed, SyncTypeInv, TypeOK, Synced
  <1>3. /\ WithDatabases(ini, Allowed).dbs = Allowed
        /\ WithDatabases(ini, Allowed).pool = ini.pool
        /\ WithDatabases(ini, Allowed).rest = ini.rest
    BY DEF WithDatabases, Ini
  <1>4. /\ WithPool(ini, pool).dbs = ini.dbs
        /\ WithPool(ini, pool).pool = pool
        /\ WithPool(ini, pool).rest = ini.rest
    BY DEF WithPool, Ini
  <1> QED  BY <1>1, <1>2, <1>3, <1>4, SameIni

\* The worker that moves stands alone; the others have nothing to lose.
LEMMA SyncMove ==
    ASSUME NEW w \in Workers, NEW r, Alone(w), Becomes(w, r), Reachable',
           Sound(work[w])',
           r.pc \in {"idle", "recreate"} => InPlace'
    PROVE  SyncInv'
  <1>1. \A v \in Workers \ {w} : work'[v].pc = "idle"
    BY DEF Alone, Becomes, At
  <1>2. \A v \in Workers : Sound(work[v])'
    BY <1>1 DEF Sound
  <1>3. Resting' => r.pc \in {"idle", "recreate"}
    BY DEF Resting, Becomes
  <1> QED  BY <1>2, <1>3 DEF SyncInv

LEMMA SyncInit == ASSUME Boot, Init PROVE SyncInv
  <1>1. work = [w \in Workers |-> IF w = Ticker THEN [Idle EXCEPT !.pc = "query_acl"] ELSE Idle]
    BY DEF Init
  <1>2. \A w \in Workers : work[w].pc = IF w = Ticker THEN "query_acl" ELSE "idle"
    BY <1>1, IdleTyped DEF Idle
  <1>3. Ticker \in Workers
    BY DEF Workers
  <1>4. ini \in Ini /\ ini.rest /\ ini.pool = pool /\ Reachable
    BY IniTyped, SyncAssumption DEF Init, BaseIni, Reachable
  <1>5. \A w \in Workers : Sound(work[w])
    BY <1>2, <1>4 DEF Sound
  <1>6. ~Resting
    BY <1>2, <1>3 DEF Resting
  <1> QED  BY <1>4, <1>5, <1>6 DEF SyncInv

LEMMA SyncStep ==
    ASSUME ~Overlap, Unharmed, QuietInv, SyncInv, [Next]_vars
    PROVE  SyncInv'
  <1>0. SyncTypeInv
    BY DEF QuietInv
  <1>1. CASE UNCHANGED vars
    BY <1>1 DEF vars, SyncInv, Sound, Synced, Allowed, Resting, InPlace, Reachable
  <1>2. ASSUME NEW w \in Handlers, Begin(w) PROVE SyncInv'
    <2>0. /\ Idling /\ Alone(w) /\ w \in Workers
          /\ UNCHANGED <<ini, bouncer, live>> /\ UNCHANGED Reachable
      BY <1>2, BeginMoves DEF Workers, files, container, Reachable
    <2>4. InPlace
      BY <2>0 DEF SyncInv, Idling, Resting, At
    <2>1. ini \in Ini /\ ini.rest /\ ini.pool = pool /\ ini.dbs = Allowed
      BY <1>0, <2>4, SyncedTyped DEF InPlace
    <2>2. PICK r : /\ Becomes(w, r)
                   /\ \/ r.pc \in {"insert_row", "delete_row", "query_acl"} /\ UNCHANGED pool
                      \/ r.pc = "query_pool" /\ UNCHANGED rows
                      \/ r.pc = "recreate" /\ UNCHANGED <<rows, pool>>
      BY <1>2, BeginMoves
    <2>3. Sound(work[w])'
      BY <2>0, <2>1, <2>2 DEF Sound, Becomes, Allowed
    <2>5. r.pc = "recreate" => InPlace'
      BY <2>0, <2>2, <2>4 DEF InPlace, Synced, Allowed
    <2> QED  BY <2>0, <2>2, <2>3, <2>5, SyncMove DEF SyncInv
  <1>3. ASSUME NEW w \in Workers, InsertRow(w) \/ DeleteRow(w) PROVE SyncInv'
    <2>1. PICK r : Becomes(w, r) /\ r.pc = "query_acl"
      BY <1>3, RowMoves
    <2>2. /\ Alone(w) /\ UNCHANGED <<pool, ini, bouncer, live>>
          /\ At(w, "insert_row") \/ At(w, "delete_row")
      BY <1>3, RowMoves DEF files, container
    <2>3. Sound(work[w])'
      BY <2>1, <2>2 DEF SyncInv, Sound, Becomes, At
    <2>4. Reachable'
      BY <2>2 DEF SyncInv, Reachable
    <2> QED  BY <2>1, <2>2, <2>3, <2>4, SyncMove
  <1>6. ASSUME NEW w \in Workers, RecreateDatabase(w) PROVE SyncInv'
    <2>1. /\ Alone(w) /\ At(w, "recreate") /\ Becomes(w, Idle) /\ Idle.pc = "idle"
          /\ UNCHANGED <<rows, pool, ini, bouncer, live>>
      BY <1>6, RecreateMoves, IdleTyped DEF files, container
    <2>2. Resting /\ InPlace /\ Reachable
      BY <2>1 DEF SyncInv, Resting, Alone, At
    <2>3. InPlace' /\ Reachable'
      BY <2>1, <2>2 DEF InPlace, Reachable, Synced, Allowed
    <2>4. Sound(work[w])'
      BY <2>1 DEF Sound, Becomes
    <2> QED  BY <2>1, <2>3, <2>4, SyncMove
  <1>4. ASSUME NEW w \in Workers, RebuildStep(w) PROVE SyncInv'
    <2>0. Alone(w) /\ UNCHANGED <<rows, pool, bouncer>>
      BY <1>4, RebuildMoves DEF tables
    <2>1. UNCHANGED Allowed /\ UNCHANGED Synced /\ bouncer' = "up"
      BY <2>0 DEF Allowed, Synced, SyncInv, Reachable
    <2>2. Sound(work[w]) /\ Reachable
      BY DEF SyncInv
    <2>3. PICK r :
            /\ Becomes(w, r)
            /\ r.pc # "idle" => UNCHANGED live
            /\ \/ /\ At(w, "query_acl") \/ At(w, "truncate_hba") \/ At(w, "write_hba")
                  /\ r.pc \in {"truncate_hba", "write_hba", "query_dbs"}
                  /\ UNCHANGED ini
               \/ At(w, "query_dbs") /\ r.pc = "read_ini" /\ r.dbs = Allowed /\ UNCHANGED ini
               \/ /\ At(w, "read_ini") /\ ini # None /\ r.pc = "truncate_ini"
                  /\ r.ini = WithDatabases(ini, work[w].dbs) /\ UNCHANGED ini
               \/ At(w, "query_pool") /\ r.pc = "read_section" /\ r.pool = pool
                  /\ UNCHANGED ini
               \/ /\ At(w, "read_section") /\ ini # None /\ r.pc = "truncate_ini"
                  /\ r.ini = WithPool(ini, work[w].pool) /\ UNCHANGED ini
               \/ At(w, "read_ini") /\ ini = None
               \/ At(w, "read_section") /\ ini = None
               \/ At(w, "truncate_ini") /\ r.pc = "write_ini" /\ r.ini = work[w].ini
               \/ At(w, "write_ini") /\ r.pc = "reload" /\ ini' = work[w].ini
               \/ /\ At(w, "reload") /\ r.pc = "idle" /\ UNCHANGED ini
                  /\ Reachable \/ Reachable' => live' = Loaded
      BY <1>4, RebuildMoves
    <2>4. None \notin Ini
      BY NoFileAssumption
    <2>5. Sound(work[w])'
      <3>1. work'[w] = r
        BY <2>3 DEF Becomes
      <3>2. Sound(r)' <=> Sound(work[w])'
        BY <3>1
      <3> QED  BY <1>0, <2>0, <2>1, <2>2, <2>3, <2>4, <3>1, SectionsReplaced DEF Sound, At
    <2>6. r.pc \in {"idle", "recreate"} => InPlace' /\ live'.rest
      <3>1. CASE r.pc \in {"idle", "recreate"}
        <4>1. At(w, "reload") /\ UNCHANGED ini /\ live' = Loaded
          BY <2>2, <2>3, <2>4, <3>1 DEF Sound, At
        <4>2. ini = Synced
          BY <2>2, <4>1 DEF Sound, At
        <4>3. live'.dbs = Synced.dbs /\ live'.pool = Synced.pool /\ live'.rest = Synced.rest
          BY <4>1, <4>2 DEF Loaded
        <4> QED  BY <1>0, <2>0, <2>1, <4>1, <4>2, <4>3, SyncedTyped DEF InPlace
      <3> QED  BY <3>1
    <2>7. r.pc # "idle" => UNCHANGED live
      BY <2>3
    <2>8. Reachable'
      BY <2>1, <2>2, <2>6, <2>7 DEF Reachable
    <2> QED  BY <2>0, <2>3, <2>5, <2>6, <2>8, SyncMove
  <1>5. ASSUME Outside PROVE SyncInv'
    <2>0. UNCHANGED <<rows, pool, ini, bouncer, live>> /\ Reachable'
      BY <1>5, OutsideMoves DEF container, SyncInv, Reachable
    <2>1. UNCHANGED Allowed /\ UNCHANGED Synced
      BY <2>0 DEF Allowed, Synced
    <2>2. CASE UNCHANGED work
      BY <2>0, <2>1, <2>2 DEF SyncInv, Sound, Resting, InPlace
    <2>3. CASE ~UNCHANGED work
      <3>1. PICK r : Becomes(Ticker, r) /\ r.pc = "query_acl"
        BY <1>5, <2>3, OutsideMoves
      <3>2. Alone(Ticker) /\ Idling /\ Ticker \in Workers
        BY <1>5, <2>3, OutsideMoves DEF Workers
      <3>3. ini \in Ini /\ ini.rest /\ ini.pool = pool
        BY <1>0, <3>2, SyncedTyped DEF SyncInv, Idling, Resting, InPlace, At
      <3>4. Sound(work[Ticker])'
        BY <2>0, <3>1, <3>3 DEF Sound, Becomes
      <3> QED  BY <2>0, <3>1, <3>2, <3>4, SyncMove
    <2> QED  BY <2>2, <2>3
  <1> QED  BY <1>1, <1>2, <1>3, <1>4, <1>5, <1>6, NextParts

LEMMA IdleRests == Idling => Resting
  BY DEF Idling, Resting, At

SmoothSyncInv == SyncTypeInv /\ (Smooth => Quiet /\ SyncInv)

LEMMA SyncCorrect ==
    ASSUME Boot, ~Overlap
    PROVE  Spec => []SmoothSyncInv
  <1>1. Init => SmoothSyncInv
    BY QuietInit, SyncInit DEF SmoothSyncInv, QuietInv
  <1>2. SmoothSyncInv /\ [Next]_vars => SmoothSyncInv'
    <2> SUFFICES ASSUME SmoothSyncInv, [Next]_vars PROVE SmoothSyncInv'
      OBVIOUS
    <2>1. SyncTypeInv'
      BY SyncTypeStep DEF SmoothSyncInv
    <2>2. ASSUME Smooth' PROVE Quiet' /\ SyncInv'
      <3>1. Smooth /\ Unharmed
        BY <2>2, SmoothBefore DEF SmoothSyncInv
      <3>2. QuietInv /\ SyncInv
        BY <3>1 DEF SmoothSyncInv, QuietInv
      <3>3. QuietInv' /\ SyncInv'
        BY <3>1, <3>2, QuietStep, SyncStep
      <3> QED  BY <3>3 DEF QuietInv
    <2> QED  BY <2>1, <2>2 DEF SmoothSyncInv
  <1> QED  BY <1>1, <1>2, PTL DEF Spec

\* If PgBouncer was launched before the app and rebuilds do not overlap, then as
\* long as nothing has failed or restarted: whenever nothing is being rebuilt,
\* PgBouncer runs with the allowed databases and no others.
THEOREM AccessSynced ==
    ASSUME Boot, ~Overlap
    PROVE  Spec => [](Smooth => AccessInSync)
  <1>1. SmoothSyncInv => (Smooth => AccessInSync)
    BY IdleRests DEF SmoothSyncInv, SyncInv, InPlace, AccessInSync
  <1> QED  BY <1>1, SyncCorrect, PTL

\* Under the same conditions, it runs with the stored pool settings.
THEOREM PoolSynced ==
    ASSUME Boot, ~Overlap
    PROVE  Spec => [](Smooth => PoolInSync)
  <1>1. SmoothSyncInv => (Smooth => PoolInSync)
    BY IdleRests DEF SmoothSyncInv, SyncInv, InPlace, PoolInSync
  <1> QED  BY <1>1, SyncCorrect, PTL

\* Under the same conditions, no rebuild drops the [pgbouncer] section: what
\* breaks SectionKept is the overlap.
THEOREM SectionsKept ==
    ASSUME Boot, ~Overlap
    PROVE  Spec => [](Smooth => SectionKept)
  <1>1. SmoothSyncInv => (Smooth => SectionKept)
    BY IdleRests, SyncedTyped DEF SmoothSyncInv, SyncInv, InPlace, SectionKept
  <1> QED  BY <1>1, SyncCorrect, PTL

-----------------------------------------------------------------------------
(* What one rebuild mends if nothing comes in between, after any overlap,     *)
(* failure or restart.                                                        *)

AccessPcs == {"query_acl", "truncate_hba", "write_hba", "query_dbs", "read_ini",
              "truncate_ini", "write_ini", "reload"}

PoolPcs == {"query_pool", "read_section", "truncate_ini", "write_ini", "reload"}

RowPcs == {"insert_row", "delete_row", "recreate"}

DbsRight(f) == f # None => f.dbs = Allowed

PoolRight(f) == f # None /\ f.rest => f.pool = pool

\* The file there will be once the worker r has written what it holds.
Coming(r) == IF r.pc \in {"truncate_ini", "write_ini"} THEN r.ini ELSE ini

\* How far the rebuild of the HBA file and the databases has got.
AccessOnTheWay(r) ==
    /\ r.pc \in {"truncate_hba", "write_hba"} => r.acl = acl
    /\ r.pc \in {"query_dbs", "read_ini", "truncate_ini", "write_ini", "reload"} => hba = acl
    /\ r.pc = "read_ini" => r.dbs = Allowed
    /\ r.pc \in {"truncate_ini", "write_ini", "reload"} => DbsRight(Coming(r))

PoolOnTheWay(r) ==
    /\ r.pc = "read_section" => r.pool = pool
    /\ r.pc \in {"truncate_ini", "write_ini", "reload"} => PoolRight(Coming(r))

\* What is known of the only worker that may be busy.
Fits(r) ==
    /\ pass \notin settled /\ (pass = "outdated" => "access" \notin settled)
    /\ pass = "none" /\ settled # {} => r.pc \in {"idle"} \cup RowPcs
    /\ pass = "pool" => r.pc \in PoolPcs
    /\ pass \in {"access", "outdated"} => r.pc \in AccessPcs
    /\ pass = "access" => AccessOnTheWay(r)
    /\ pass = "pool" => PoolOnTheWay(r)
    /\ "access" \in settled => hba = acl /\ DbsRight(Coming(r))
    /\ "pool" \in settled => PoolRight(Coming(r))
    /\ pass = "none" /\ settled # {} /\ Reachable => live = Loaded

HealInv ==
    /\ pass # "none" \/ settled # {} => \A w \in Workers : ~At(w, "idle") => Alone(w)
    /\ \A w \in Workers : Alone(w) => Fits(work[w])

HealTyped == SyncTypeInv /\ HealTypeOK

LEMMA HealMove ==
    ASSUME NEW w \in Workers, NEW r, Alone(w), Becomes(w, r), Fits(r)'
    PROVE  HealInv'
  <1>1. Alone(w)' /\ \A v \in Workers : ~At(v, "idle")' => v = w
    BY AloneStep
  <1>2. ASSUME NEW v \in Workers, Alone(v)' PROVE Fits(work[v])'
    <2>1. CASE v = w
      BY <2>1 DEF Becomes
    <2>2. CASE v # w
      <3>1. r.pc = "idle" /\ work'[v].pc = "idle"
        BY <1>1, <1>2, <2>2 DEF Alone, At, Becomes
      <3>2. Coming(work[v])' = Coming(r)'
        BY <3>1 DEF Coming
      <3> QED
        BY <3>1, <3>2 DEF Fits, AccessOnTheWay, PoolOnTheWay, AccessPcs, PoolPcs
    <2> QED  BY <2>1, <2>2
  <1> QED  BY <1>1, <1>2 DEF HealInv

LEMMA DisturbedHeals == ASSUME Disturbed PROVE HealInv' /\ HealTypeOK'
  BY DEF Disturbed, HealInv, Fits, HealTypeOK, Parts

LEMMA HealStart == ASSUME HealInit PROVE HealTyped /\ HealInv
  <1>0. SyncTypeInv /\ HealTypeOK
    BY InitTyped DEF HealInit, HealTypeOK, Parts
  <1>1. work = [w \in Workers |-> IF w = Ticker THEN [Idle EXCEPT !.pc = "query_acl"] ELSE Idle]
    BY DEF HealInit, Init
  <1>2. \A w \in Workers : work[w].pc = IF w = Ticker THEN "query_acl" ELSE "idle"
    BY <1>1, IdleTyped DEF Idle
  <1>3. Ticker \in Workers
    BY DEF Workers
  <1>4. \A w \in Workers : ~At(w, "idle") => Alone(w)
    BY <1>2 DEF At, Alone
  <1>5. \A w \in Workers : Alone(w) => w = Ticker
    BY <1>2, <1>3 DEF At, Alone
  <1>6. Coming(work[Ticker]) = ini /\ work[Ticker].pc = "query_acl"
    BY <1>2, <1>3 DEF Coming
  <1>7. Boot => ini.pool = pool
    BY DEF HealInit, Init, BaseIni
  <1>8. pass = "access" /\ "access" \notin settled /\ ("pool" \in settled => Boot)
    BY DEF HealInit
  <1>9. Fits(work[Ticker])
    BY <1>6, <1>7, <1>8 DEF Fits, AccessOnTheWay, AccessPcs, PoolRight
  <1> QED  BY <1>0, <1>4, <1>5, <1>9 DEF HealTyped, HealInv

\* What the steps between rebuilds leave alone.
LEMMA OpeningMoves ==
    ASSUME SyncTypeInv, NEW w \in Workers, Opening(w)
    PROVE  /\ UNCHANGED <<files, container>>
           /\ work[w].pc \in {"idle"} \cup RowPcs
           /\ \E r : /\ Becomes(w, r)
                     /\ \/ r.pc = "query_acl" /\ UNCHANGED pool
                        \/ r.pc = "query_pool" /\ UNCHANGED <<rows, acl>>
  <1>0. Onward(w, "query_acl").pc = "query_acl" /\ Onward(w, "query_pool").pc = "query_pool"
    BY DEF Onward, Idle
  <1>a. /\ Goto(w, "query_acl") => Becomes(w, Onward(w, "query_acl"))
        /\ Goto(w, "query_pool") => Becomes(w, Onward(w, "query_pool"))
    <2>1. WorkTyped /\ "query_acl" \in Pcs /\ "query_pool" \in Pcs
      BY TypeParts DEF SyncTypeInv, Pcs
    <2> QED  BY <2>1, GotoStep
  <1>1. CASE w = Ticker /\ Tick
    <2>1. Becomes(w, Onward(w, "query_acl"))
      BY <1>a, <1>1 DEF Tick
    <2> QED  BY <1>0, <1>1, <2>1 DEF Tick, tables, MayStart, At
  <1>2. ASSUME NEW d \in Dbs, NEW b \in BOOLEAN, TogglePgBouncerDatabase(w, d, b)
        PROVE  /\ UNCHANGED <<files, container, pool>> /\ work[w].pc = "idle"
               /\ Becomes(w, Onward(w, "query_acl"))
    BY <1>a, <1>2 DEF TogglePgBouncerDatabase, MayStart, At
  <1>3. ASSUME NEW p \in Pools, UpdatePgBouncerConfig(w, p)
        PROVE  /\ UNCHANGED <<files, container, rows, acl>> /\ work[w].pc = "idle"
               /\ Becomes(w, Onward(w, "query_pool"))
    BY <1>a, <1>3 DEF UpdatePgBouncerConfig, MayStart, At
  <1>4. CASE InsertRow(w) \/ DeleteRow(w)
    <2>1. Becomes(w, Onward(w, "query_acl"))
      BY <1>a, <1>4 DEF InsertRow, DeleteRow
    <2>2. UNCHANGED <<files, container, pool>> /\ work[w].pc \in RowPcs
      BY <1>4 DEF InsertRow, DeleteRow, At, RowPcs
    <2> QED  BY <1>0, <2>1, <2>2
  <1> QED  BY <1>0, <1>1, <1>2, <1>3, <1>4 DEF Opening

LEMMA AnnouncingMoves ==
    ASSUME SyncTypeInv, NEW w \in Workers, Announcing(w)
    PROVE  /\ UNCHANGED <<rows, acl, pool, files, container>>
           /\ work[w].pc \in {"idle"} \cup RowPcs
           /\ \E r : Becomes(w, r) /\ r.pc \in {"idle"} \cup RowPcs
  <1>0. WorkTyped
    BY TypeParts DEF SyncTypeInv
  <1>1. ASSUME NEW d \in Dbs, CreateDatabase(w, d) \/ DeleteDatabase(w, d) \/ RestoreBackup(w, d)
        PROVE  /\ UNCHANGED <<rows, acl, pool, files, container>> /\ At(w, "idle")
               /\ \E r : Becomes(w, r) /\ r.pc \in RowPcs
    <2>1. PICK pc \in RowPcs : work' = [work EXCEPT ![w] = [Idle EXCEPT !.pc = pc, !.db = d]]
      BY <1>1 DEF CreateDatabase, DeleteDatabase, RestoreBackup, RowPcs
    <2>2. Becomes(w, [Idle EXCEPT !.pc = pc, !.db = d])
      BY <1>0, <2>1, RowRequest DEF RowPcs
    <2>3. [Idle EXCEPT !.pc = pc, !.db = d].pc = pc
      BY DEF Idle
    <2>4. UNCHANGED <<rows, acl, pool, files, container>> /\ At(w, "idle")
      BY <1>1 DEF CreateDatabase, DeleteDatabase, RestoreBackup, MayStart
    <2> QED  BY <2>2, <2>3, <2>4
  <1>2. CASE RecreateDatabase(w)
    <2>1. Becomes(w, Idle) /\ Idle.pc = "idle"
      BY <1>0, <1>2, DoneStep, IdleTyped DEF RecreateDatabase
    <2>2. UNCHANGED <<rows, acl, pool, files, container>> /\ At(w, "recreate")
      BY <1>2 DEF RecreateDatabase
    <2> QED  BY <2>1, <2>2 DEF At, RowPcs
  <1> QED  BY <1>1, <1>2 DEF Announcing, At

\* A rebuild that starts, or a row that is about to change, finds the rest in order.
LEMMA OpeningHeals ==
    ASSUME HealTyped, HealInv, NEW w \in Workers, Opening(w), Opens(w)
    PROVE  HealInv' /\ HealTypeOK'
  <1>1. CASE ~Alone(w)
    BY <1>1, DisturbedHeals DEF Opens
  <1>2. CASE Alone(w)
    <2>1. /\ UNCHANGED <<files, container>> /\ work[w].pc \in {"idle"} \cup RowPcs
          /\ Fits(work[w]) /\ HealTypeOK
      BY <1>2, OpeningMoves DEF HealTyped, HealInv
    <2>2. PICK r : /\ Becomes(w, r)
                   /\ \/ r.pc = "query_acl" /\ UNCHANGED pool
                      \/ r.pc = "query_pool" /\ UNCHANGED <<rows, acl>>
      BY OpeningMoves DEF HealTyped
    <2>3. Coming(work[w]) = ini /\ Coming(r)' = ini
      BY <2>1, <2>2 DEF Coming, RowPcs, files
    <2>4. CASE r.pc = "query_acl"
      <3>1. pass' = "access" /\ settled' = settled \ {"access"}
        BY <1>2, <2>2, <2>4 DEF Opens, Becomes
      <3>2. "pool" \in settled' => PoolRight(ini)'
        BY <2>1, <2>2, <2>3, <2>4, <3>1 DEF Fits, PoolRight, files
      <3>3. Fits(r)'
        BY <2>1, <2>3, <2>4, <3>1, <3>2 DEF Fits, AccessOnTheWay, AccessPcs, files
      <3> QED  BY <1>2, <2>1, <2>2, <3>1, <3>3, HealMove DEF HealTypeOK, Parts
    <2>5. CASE r.pc = "query_pool"
      <3>1. pass' = "pool" /\ settled' = settled \ {"pool"}
        BY <1>2, <2>2, <2>5 DEF Opens, Becomes
      <3>2. "access" \in settled' => hba' = acl' /\ DbsRight(ini)'
        BY <2>1, <2>2, <2>3, <2>5, <3>1 DEF Fits, DbsRight, files, Allowed
      <3>3. Fits(r)'
        BY <2>1, <2>3, <2>5, <3>1, <3>2 DEF Fits, PoolOnTheWay, PoolPcs, files
      <3> QED  BY <1>2, <2>1, <2>2, <3>1, <3>3, HealMove DEF HealTypeOK, Parts
    <2> QED  BY <2>2, <2>4, <2>5
  <1> QED  BY <1>1, <1>2

LEMMA AnnouncingHeals ==
    ASSUME HealTyped, HealInv, NEW w \in Workers, Announcing(w),
           IF Alone(w) THEN UNCHANGED history ELSE Disturbed
    PROVE  HealInv' /\ HealTypeOK'
  <1>1. CASE ~Alone(w)
    BY <1>1, DisturbedHeals
  <1>2. CASE Alone(w)
    <2>1. /\ UNCHANGED <<rows, acl, pool, files, container, history>>
          /\ work[w].pc \in {"idle"} \cup RowPcs /\ Fits(work[w])
      BY <1>2, AnnouncingMoves DEF HealTyped, HealInv
    <2>2. PICK r : Becomes(w, r) /\ r.pc \in {"idle"} \cup RowPcs
      BY AnnouncingMoves DEF HealTyped
    <2>3. Coming(work[w]) = ini /\ Coming(r)' = ini
      BY <2>1, <2>2 DEF Coming, RowPcs, files
    <2>4. UNCHANGED <<pass, settled, rows, acl, pool, hba, ini, bouncer, live>>
      BY <2>1 DEF history, files, container
    <2>5. pass \notin {"pool", "access", "outdated"}
      BY <2>1 DEF Fits, RowPcs, PoolPcs, AccessPcs
    <2>6. /\ "access" \in settled' => hba' = acl' /\ DbsRight(ini)'
          /\ "pool" \in settled' => PoolRight(ini)'
      BY <2>1, <2>3, <2>4 DEF Fits, DbsRight, PoolRight, Allowed
    <2>7. pass' = "none" /\ settled' # {} /\ Reachable' => live' = Loaded'
      BY <2>1, <2>4 DEF Fits, Loaded, Reachable
    <2>10. pass' \notin settled'
      BY <2>1, <2>4 DEF Fits
    <2>8. Fits(r)'
      BY <2>2, <2>3, <2>4, <2>5, <2>6, <2>7, <2>10 DEF Fits
    <2>9. HealTypeOK'
      BY <2>4 DEF HealTyped, HealTypeOK
    <2> QED  BY <1>2, <2>2, <2>8, <2>9, HealMove
  <1> QED  BY <1>1, <1>2

\* Replacing one part leaves the other.
LEMMA PartsKept ==
    ASSUME NEW f \in Ini
    PROVE  /\ \A D : /\ WithDatabases(f, D).dbs = D
                    /\ WithDatabases(f, D).pool = f.pool
                    /\ WithDatabases(f, D).rest = f.rest
           /\ \A p : /\ WithPool(f, p).dbs = f.dbs
                    /\ f.rest => WithPool(f, p).pool = p
                    /\ WithPool(f, p).rest = f.rest
  BY DEF Ini, WithDatabases, WithPool

\* What becomes of the file there will be, while a rebuild goes on.
LEMMA ComingMoves ==
    ASSUME SyncTypeInv, UNCHANGED budget, NEW w \in Workers, RebuildStep(w)
    PROVE  \E r, f, g :
             /\ Becomes(w, r) /\ f = Coming(work[w]) /\ g = Coming(r)'
             /\ \/ At(w, "query_acl") /\ r.pc = "truncate_hba" /\ r.acl = acl /\ g = f
                \/ At(w, "truncate_hba") /\ r.pc = "write_hba" /\ r.acl = work[w].acl /\ g = f
                \/ At(w, "write_hba") /\ r.pc = "query_dbs" /\ hba' = work[w].acl /\ g = f
                \/ At(w, "query_dbs") /\ r.pc = "read_ini" /\ r.dbs = Allowed /\ g = f
                \/ /\ At(w, "read_ini") /\ r.pc = "truncate_ini" /\ f # None
                   /\ g.dbs = work[w].dbs /\ g.pool = f.pool /\ g.rest = f.rest
                \/ At(w, "query_pool") /\ r.pc = "read_section" /\ r.pool = pool /\ g = f
                \/ /\ At(w, "read_section") /\ r.pc = "truncate_ini" /\ f # None
                   /\ g.dbs = f.dbs /\ g.rest = f.rest /\ (f.rest => g.pool = work[w].pool)
                \/ At(w, "read_ini") /\ r.pc = "reload" /\ f = None /\ g = f
                \/ At(w, "read_section") /\ r.pc = "reload" /\ f = None /\ g = f
                \/ At(w, "truncate_ini") /\ r.pc = "write_ini" /\ g = f
                \/ At(w, "write_ini") /\ r.pc = "reload" /\ g = f
                \/ At(w, "reload") /\ r.pc = "idle" /\ g = f /\ (Reachable \/ Reachable' => live' = Loaded)
  <1>0. ini = None \/ ini \in Ini
    BY DEF SyncTypeInv, TypeOK
  <1>1. PICK r :
          /\ Becomes(w, r)
          /\ \/ At(w, "query_acl") /\ r.pc = "truncate_hba" /\ r.acl = acl /\ UNCHANGED ini
             \/ /\ At(w, "truncate_hba") /\ r.pc = "write_hba" /\ r.acl = work[w].acl
                /\ UNCHANGED ini
             \/ /\ At(w, "write_hba") /\ r.pc = "query_dbs" /\ hba' = work[w].acl
                /\ UNCHANGED ini
             \/ At(w, "query_dbs") /\ r.pc = "read_ini" /\ r.dbs = Allowed /\ UNCHANGED ini
             \/ /\ At(w, "read_ini") /\ ini # None /\ r.pc = "truncate_ini"
                /\ r.ini = WithDatabases(ini, work[w].dbs) /\ UNCHANGED ini
             \/ At(w, "query_pool") /\ r.pc = "read_section" /\ r.pool = pool /\ UNCHANGED ini
             \/ /\ At(w, "read_section") /\ ini # None /\ r.pc = "truncate_ini"
                /\ r.ini = WithPool(ini, work[w].pool) /\ UNCHANGED ini
             \/ At(w, "read_ini") /\ ini = None /\ r.pc = "reload" /\ UNCHANGED ini
             \/ At(w, "read_section") /\ ini = None /\ r.pc = "reload" /\ UNCHANGED ini
             \/ At(w, "truncate_ini") /\ r.pc = "write_ini" /\ r.ini = work[w].ini
             \/ At(w, "write_ini") /\ r.pc = "reload" /\ ini' = work[w].ini
             \/ /\ At(w, "reload") /\ r.pc = "idle" /\ UNCHANGED ini
                /\ Reachable \/ Reachable' => live' = Loaded
    BY RebuildGoes
  <1>2. CASE At(w, "read_ini") /\ ini # None
    <2>1. /\ r.pc = "truncate_ini" /\ r.ini = WithDatabases(ini, work[w].dbs)
          /\ Coming(work[w]) = ini /\ Coming(r)' = r.ini
      BY <1>1, <1>2 DEF At, Coming
    <2>2. /\ r.ini.dbs = work[w].dbs /\ r.ini.rest = ini.rest
          /\ r.ini.pool = ini.pool
      BY <1>0, <1>2, <2>1, PartsKept
    <2> QED  BY <1>1, <1>2, <2>1, <2>2
  <1>3. CASE At(w, "read_section") /\ ini # None
    <2>1. /\ r.pc = "truncate_ini" /\ r.ini = WithPool(ini, work[w].pool)
          /\ Coming(work[w]) = ini /\ Coming(r)' = r.ini
      BY <1>1, <1>3 DEF At, Coming
    <2>2. /\ r.ini.dbs = ini.dbs /\ r.ini.rest = ini.rest
          /\ ini.rest => r.ini.pool = work[w].pool
      <3>1. ini \in Ini
        BY <1>0, <1>3
      <3>2. /\ WithPool(ini, work[w].pool).dbs = ini.dbs
            /\ ini.rest => WithPool(ini, work[w].pool).pool = work[w].pool
            /\ WithPool(ini, work[w].pool).rest = ini.rest
        BY <3>1 DEF WithPool, Ini
      <3> QED  BY <2>1, <3>2, Zenon
    <2> QED  BY <1>1, <1>3, <2>1, <2>2
  <1>4. CASE ~(At(w, "read_ini") /\ ini # None) /\ ~(At(w, "read_section") /\ ini # None)
    <2>1. Coming(r)' = Coming(work[w])
      BY <1>1, <1>4 DEF At, Coming
    <2>2. At(w, "read_ini") \/ At(w, "read_section") => Coming(work[w]) = ini
      BY DEF At, Coming
    <2> QED  BY <1>1, <1>4, <2>1, <2>2
  <1> QED  BY <1>2, <1>3, <1>4

\* Nothing fails and nothing comes in between: the rebuild gets on, and at its
\* reload PgBouncer has read what it was to write.
LEMMA RebuildHeals ==
    ASSUME HealTyped, HealInv, NEW w \in Workers, RebuildStep(w), GoesOn(w)
    PROVE  HealInv' /\ HealTypeOK'
  <1>1. CASE pass = "none" \/ budget' # budget
    BY <1>1, DisturbedHeals DEF GoesOn
  <1>2. CASE ~(pass = "none" \/ budget' # budget)
    <2>0. SyncTypeInv /\ HealTypeOK /\ UNCHANGED budget /\ pass # "none"
      BY <1>2 DEF HealTyped
    <2>1. /\ UNCHANGED <<rows, acl, pool, bouncer, Allowed>> /\ ~At(w, "idle")
          /\ At(w, "truncate_hba") \/ At(w, "write_hba") \/ UNCHANGED hba
      BY <2>0, RebuildGoes DEF tables, Allowed
    <2>2. Alone(w) /\ Fits(work[w])
      BY <2>0, <2>1 DEF HealInv
    <2>3. PICK r, f, g :
            /\ Becomes(w, r) /\ f = Coming(work[w]) /\ g = Coming(r)'
            /\ \/ At(w, "query_acl") /\ r.pc = "truncate_hba" /\ r.acl = acl /\ g = f
               \/ At(w, "truncate_hba") /\ r.pc = "write_hba" /\ r.acl = work[w].acl /\ g = f
               \/ At(w, "write_hba") /\ r.pc = "query_dbs" /\ hba' = work[w].acl /\ g = f
               \/ At(w, "query_dbs") /\ r.pc = "read_ini" /\ r.dbs = Allowed /\ g = f
               \/ /\ At(w, "read_ini") /\ r.pc = "truncate_ini" /\ f # None
                  /\ g.dbs = work[w].dbs /\ g.pool = f.pool /\ g.rest = f.rest
               \/ At(w, "query_pool") /\ r.pc = "read_section" /\ r.pool = pool /\ g = f
               \/ /\ At(w, "read_section") /\ r.pc = "truncate_ini" /\ f # None
                  /\ g.dbs = f.dbs /\ g.rest = f.rest /\ (f.rest => g.pool = work[w].pool)
               \/ At(w, "read_ini") /\ r.pc = "reload" /\ f = None /\ g = f
               \/ At(w, "read_section") /\ r.pc = "reload" /\ f = None /\ g = f
               \/ At(w, "truncate_ini") /\ r.pc = "write_ini" /\ g = f
               \/ At(w, "write_ini") /\ r.pc = "reload" /\ g = f
               \/ At(w, "reload") /\ r.pc = "idle" /\ g = f /\ (Reachable \/ Reachable' => live' = Loaded)
      BY <2>0, ComingMoves
    \* What is known of the file now, and of the one the step leads to.
    <2>4. /\ "access" \in settled => hba = acl /\ DbsRight(f)
          /\ "pool" \in settled => PoolRight(f)
          /\ pass \notin settled /\ (pass = "outdated" => "access" \notin settled)
          /\ pass = "pool" \/ pass \in {"access", "outdated"}
      BY <2>0, <2>2, <2>3 DEF Fits, HealTypeOK, Parts
    <2>5. CASE pass = "pool"
      <3>1. work[w].pc \in PoolPcs /\ PoolOnTheWay(work[w])
        BY <2>2, <2>5 DEF Fits
      <3>2. UNCHANGED hba
        BY <2>1, <3>1 DEF At, PoolPcs
      <3>3. "access" \in settled => hba' = acl' /\ DbsRight(g)'
        BY <2>1, <2>3, <2>4, <3>1, <3>2 DEF DbsRight, PoolPcs, At
      <3>4. CASE r.pc # "idle"
        <4>1. pass' = pass /\ settled' = settled
          BY <1>2, <2>3, <3>4 DEF GoesOn, Becomes, history
        <4>2. r.pc \in PoolPcs
          BY <2>3, <3>1, <3>4 DEF PoolPcs, At
        <4>3. PoolOnTheWay(r)'
          BY <2>1, <2>3, <3>1, <3>4 DEF PoolOnTheWay, PoolPcs, PoolRight, At
        <4>4. Fits(r)'
          BY <2>3, <2>4, <2>5, <3>3, <4>1, <4>2, <4>3 DEF Fits
        <4> QED  BY <2>0, <2>2, <2>3, <4>1, <4>4, HealMove DEF HealTypeOK
      <3>5. CASE r.pc = "idle"
        <4>1. pass' = "none" /\ settled' = settled \cup {"pool"}
          BY <1>2, <2>3, <2>5, <3>5 DEF GoesOn, Becomes, Parts
        <4>2. PoolRight(g)' /\ (Reachable' => live' = Loaded')
          BY <2>1, <2>3, <3>1, <3>2, <3>5 DEF PoolOnTheWay, PoolRight, At, Loaded, Coming
        <4>3. "none" \notin settled'
          BY <2>0, <4>1 DEF HealTypeOK, Parts
        <4>4. Fits(r)'
          BY <2>3, <3>3, <3>5, <4>1, <4>2, <4>3 DEF Fits
        <4> QED  BY <2>0, <2>2, <2>3, <4>1, <4>4, HealMove DEF HealTypeOK, Parts
      <3> QED  BY <3>4, <3>5
    <2>6. CASE pass \in {"access", "outdated"}
      <3>1. work[w].pc \in AccessPcs /\ (pass = "access" => AccessOnTheWay(work[w]))
        BY <2>2, <2>6 DEF Fits
      <3>2. "access" \notin settled
        BY <2>4, <2>6
      <3>3. "pool" \in settled => PoolRight(g)'
        <4>1. g = f \/ (f # None /\ g.pool = f.pool /\ g.rest = f.rest)
          BY <2>3, <3>1 DEF AccessPcs, At
        <4> QED  BY <2>1, <2>4, <4>1 DEF PoolRight
      <3>4. CASE r.pc # "idle"
        <4>1. pass' = pass /\ settled' = settled
          BY <1>2, <2>3, <3>4 DEF GoesOn, Becomes, history
        <4>2. r.pc \in AccessPcs
          BY <2>3, <3>1, <3>4 DEF AccessPcs, At
        <4>3. pass = "access" => AccessOnTheWay(r)'
          BY <2>1, <2>3, <3>1, <3>4 DEF AccessOnTheWay, AccessPcs, DbsRight, At
        <4>4. Fits(r)'
          BY <2>3, <2>4, <2>6, <3>2, <3>3, <4>1, <4>2, <4>3 DEF Fits
        <4> QED  BY <2>0, <2>2, <2>3, <4>1, <4>4, HealMove DEF HealTypeOK
      <3>5. CASE r.pc = "idle"
        <4>1. pass' = "none" /\ settled' = settled \cup ({pass} \cap Parts)
          BY <1>2, <2>3, <3>5 DEF GoesOn, Becomes
        <4>2. /\ pass = "access" => hba' = acl' /\ DbsRight(g)'
              /\ Reachable' => live' = Loaded'
          BY <2>1, <2>3, <3>1, <3>5 DEF AccessOnTheWay, DbsRight, At, Loaded, Coming
        <4>3. "access" \in settled' => pass = "access"
          BY <2>6, <3>2, <4>1 DEF Parts
        <4>4. "pool" \in settled' => "pool" \in settled
          BY <2>6, <4>1
        <4>5. "none" \notin settled'
          BY <2>0, <2>6, <4>1 DEF HealTypeOK, Parts
        <4>6. Fits(r)'
          BY <2>3, <3>3, <3>5, <4>1, <4>2, <4>3, <4>4, <4>5 DEF Fits
        <4> QED  BY <2>0, <2>2, <2>3, <4>1, <4>6, HealMove DEF HealTypeOK, Parts
      <3> QED  BY <3>4, <3>5
    <2> QED  BY <2>4, <2>5, <2>6
  <1> QED  BY <1>1, <1>2

\* A rebuild that is under way will not bring the change of the users.
LEMMA UsersHeal ==
    ASSUME HealTyped, HealInv, NEW a \in Acls, ManagedUsersChange(a),
           pass' = IF pass = "access" THEN "outdated" ELSE pass,
           settled' = settled \ {"access"}
    PROVE  HealInv' /\ HealTypeOK'
  <1>1. UNCHANGED <<rows, pool, hba, ini, bouncer, live, work>>
    BY DEF ManagedUsersChange, files, container
  <1>2. HealTypeOK'
    BY DEF HealTyped, HealTypeOK, Parts
  <1>3. \A w \in Workers : At(w, "idle")' = At(w, "idle") /\ Alone(w)' = Alone(w)
    BY <1>1 DEF At, Alone
  <1>4. ASSUME NEW w \in Workers, Fits(work[w]) PROVE Fits(work[w])'
    <2>1. Coming(work[w])' = Coming(work[w]) /\ work'[w] = work[w] /\ Loaded' = Loaded
      BY <1>1 DEF Coming, Loaded
    <2>2. "access" \notin settled' /\ pass' # "access" /\ ("pool" \in settled' => "pool" \in settled)
      OBVIOUS
    <2>3. /\ pass' = "pool" => PoolOnTheWay(work[w])'
          /\ "pool" \in settled' => PoolRight(Coming(work[w]))'
      BY <1>1, <1>4, <2>1, <2>2 DEF Fits, PoolOnTheWay, PoolRight
    <2>4. /\ pass' = "none" /\ settled' # {} => pass = "none" /\ settled # {}
          /\ pass' \in {"access", "outdated"} => pass \in {"access", "outdated"}
          /\ pass' = "pool" => pass = "pool"
      OBVIOUS
    <2>5. pass' \notin settled'
      BY <1>4 DEF HealTyped, HealTypeOK, Parts, Fits
    <2> QED  BY <1>1, <1>4, <2>1, <2>2, <2>3, <2>4, <2>5 DEF Fits, Reachable
  <1>5. pass' # "none" \/ settled' # {} => pass # "none" \/ settled # {}
    OBVIOUS
  <1> QED  BY <1>2, <1>3, <1>4, <1>5 DEF HealInv

\* PgBouncer stops, or starts with the files as they are.
LEMMA ContainerHeals ==
    ASSUME HealTyped, HealInv, StopPgBouncer \/ LaunchPgBouncer, UNCHANGED history
    PROVE  HealInv' /\ HealTypeOK'
  <1>1. UNCHANGED <<rows, acl, pool, hba, ini, work, pass, settled>>
    BY DEF StopPgBouncer, LaunchPgBouncer, tables, files, history
  <1>2. Reachable' => live' = Loaded'
    BY <1>1 DEF StopPgBouncer, LaunchPgBouncer, Loaded, Reachable
  <1>3. \A w \in Workers : At(w, "idle")' = At(w, "idle") /\ Alone(w)' = Alone(w)
    BY <1>1 DEF At, Alone
  <1>4. ASSUME NEW w \in Workers, Fits(work[w]) PROVE Fits(work[w])'
    <2>1. Coming(work[w])' = Coming(work[w]) /\ work'[w] = work[w] /\ UNCHANGED Allowed
      BY <1>1 DEF Coming, Allowed
    <2>2. UNCHANGED <<AccessOnTheWay(work[w]), PoolOnTheWay(work[w])>>
      BY <1>1, <2>1 DEF AccessOnTheWay, PoolOnTheWay, DbsRight, PoolRight
    <2>3. UNCHANGED <<DbsRight(Coming(work[w])), PoolRight(Coming(work[w]))>>
      BY <1>1, <2>1 DEF DbsRight, PoolRight
    <2> QED  BY <1>1, <1>2, <1>4, <2>1, <2>2, <2>3 DEF Fits
  <1> QED  BY <1>1, <1>3, <1>4 DEF HealInv, HealTyped, HealTypeOK

\* The app that starts again is busy with its first rebuild.
LEMMA RestartHeals ==
    ASSUME HealTyped, RestartApp, pass' = "access", settled' = {}
    PROVE  HealInv' /\ HealTypeOK'
  <1>1. work' = [w \in Workers |-> IF w = Ticker THEN [Idle EXCEPT !.pc = "query_acl"] ELSE Idle]
    BY DEF RestartApp
  <1>2. \A w \in Workers : work'[w].pc = IF w = Ticker THEN "query_acl" ELSE "idle"
    BY <1>1, IdleTyped DEF Idle
  <1>3. Ticker \in Workers
    BY DEF Workers
  <1>4. \A w \in Workers : ~At(w, "idle")' => Alone(w)'
    BY <1>2 DEF At, Alone
  <1>5. \A w \in Workers : Alone(w)' => w = Ticker
    BY <1>2, <1>3 DEF At, Alone
  <1>6. work'[Ticker].pc = "query_acl"
    BY <1>2, <1>3
  <1>7. Fits(work[Ticker])'
    BY <1>6 DEF Fits, AccessOnTheWay, AccessPcs
  <1> QED  BY <1>4, <1>5, <1>7 DEF HealInv, HealTypeOK, Parts

\* The history variables hold nothing up and add no step.
LEMMA HealNextSteps ==
    ASSUME HealNext
    PROVE  Next
  <1>1. ASSUME NEW w \in Workers, Opening(w) PROVE Next
    BY <1>1 DEF Opening, Next, Begin, Step
  <1>2. ASSUME NEW w \in Workers, Announcing(w) PROVE Next
    BY <1>2 DEF Announcing, Next, Begin, Step
  <1>3. ASSUME NEW w \in Workers, RebuildStep(w) PROVE Next
    BY <1>3 DEF RebuildStep, Next, Step
  <1>4. (\E a \in Acls : ManagedUsersChange(a)) \/ StopPgBouncer \/ CopyBaseIni
          \/ LaunchPgBouncer \/ RestartApp => Next
    BY DEF Next
  <1> QED  BY <1>1, <1>2, <1>3, <1>4 DEF HealNext

LEMMA HealStep ==
    ASSUME HealTyped, HealInv, [HealNext]_healVars
    PROVE  HealTyped' /\ HealInv'
  <1>1. SyncTypeInv'
    BY HealNextSteps, SyncTypeStep DEF HealTyped, healVars
  <1>2. CASE HealNext
    <2> SUFFICES HealInv' /\ HealTypeOK'
      BY <1>1 DEF HealTyped
    <2>1. ASSUME NEW w \in Workers, Opening(w), Opens(w) PROVE HealInv' /\ HealTypeOK'
      BY <2>1, OpeningHeals
    <2>2. ASSUME NEW w \in Workers, Announcing(w),
                 IF Alone(w) THEN UNCHANGED history ELSE Disturbed
          PROVE  HealInv' /\ HealTypeOK'
      BY <2>2, AnnouncingHeals
    <2>3. ASSUME NEW w \in Workers, RebuildStep(w), GoesOn(w) PROVE HealInv' /\ HealTypeOK'
      BY <2>3, RebuildHeals
    <2>4. CASE /\ \E a \in Acls : ManagedUsersChange(a)
               /\ pass' = IF pass = "access" THEN "outdated" ELSE pass
               /\ settled' = settled \ {"access"}
      BY <2>4, UsersHeal
    <2>5. CASE (StopPgBouncer \/ LaunchPgBouncer) /\ UNCHANGED history
      BY <2>5, ContainerHeals
    <2>6. CASE CopyBaseIni /\ Disturbed
      BY <2>6, DisturbedHeals
    <2>7. CASE RestartApp /\ pass' = "access" /\ settled' = {}
      BY <2>7, RestartHeals
    <2> QED
      BY <1>2, <2>1, <2>2, <2>3, <2>4, <2>5, <2>6, <2>7, Zenon DEF HealNext
  <1>3. CASE UNCHANGED healVars
    <2>1. UNCHANGED <<rows, acl, pool, hba, ini, bouncer, live, work, pass, settled>>
      BY <1>3 DEF healVars, vars, history
    <2>2. \A w \in Workers : At(w, "idle")' = At(w, "idle") /\ Alone(w)' = Alone(w)
      BY <2>1 DEF At, Alone
    <2>3. \A w \in Workers : Fits(work[w])' = Fits(work[w])
      BY <2>1 DEF Fits, AccessOnTheWay, PoolOnTheWay, DbsRight, PoolRight, Coming, Allowed,
             Loaded, Reachable
    <2> QED  BY <1>1, <2>1, <2>2, <2>3 DEF HealTyped, HealInv, HealTypeOK
  <1> QED  BY <1>2, <1>3

LEMMA HealCorrect == HealSpec => [](HealTyped /\ HealInv)
  <1>1. HealInit => HealTyped /\ HealInv
    BY HealStart
  <1>2. HealTyped /\ HealInv /\ [HealNext]_healVars => (HealTyped /\ HealInv)'
    BY HealStep
  <1> QED  BY <1>1, <1>2, PTL DEF HealSpec

\* What is known when nobody is at work.
LEMMA HealedFacts ==
    ASSUME HealTyped, HealInv, Idling, Reachable, settled # {}
    PROVE  /\ live = Loaded /\ ini # None
           /\ "access" \in settled => hba = acl /\ DbsRight(ini)
           /\ "pool" \in settled => PoolRight(ini)
  <1>1. Ticker \in Workers
    BY DEF Workers
  <1>2. Alone(Ticker) /\ Fits(work[Ticker]) /\ work[Ticker].pc = "idle"
    BY <1>1 DEF Idling, Alone, At, HealInv
  <1>3. pass = "none"
    BY <1>2 DEF Fits, HealTyped, HealTypeOK, Parts, AccessPcs, PoolPcs
  <1>4. Coming(work[Ticker]) = ini
    BY <1>2 DEF Coming
  <1> QED  BY <1>2, <1>3, <1>4 DEF Fits, HealTyped, SyncTypeInv, Reachable

\* The history variables add no behaviour: what is recorded is recorded of the
\* rebuilds, requests, failures and restarts of PgBouncerSync.
THEOREM HealingRefinesSync == HealSpec => Spec
  <1>1. HealInit => Init
    BY DEF HealInit
  <1>2. [HealNext]_healVars => [Next]_vars
    BY HealNextSteps DEF healVars
  <1> QED  BY <1>1, <1>2, PTL DEF HealSpec, Spec

\* One rebuild of the HBA file and the databases that ran undisturbed is enough:
\* PgBouncer, if its admin console can be reached, has the allow list of the users
\* and exactly the allowed databases, whatever rebuilds overlapped, failed or were cut short before, for any number
\* of requests, changes, failures and restarts.
THEOREM AccessIsHealed == HealSpec => []AccessHealed
  <1>1. HealTyped /\ HealInv => AccessHealed
    <2>1. SUFFICES ASSUME HealTyped, HealInv, "access" \in settled, Idling, Reachable
                   PROVE  live.hba = acl /\ live.dbs = Allowed
      BY DEF AccessHealed
    <2>2. live = Loaded /\ ini # None /\ hba = acl /\ DbsRight(ini)
      BY <2>1, HealedFacts
    <2> QED  BY <2>2 DEF Loaded, DbsRight
  <1> QED  BY <1>1, HealCorrect, PTL

\* The same for a save of the pool settings that ran undisturbed, and PgBouncer
\* has the stored ones.
THEOREM PoolIsHealed == HealSpec => []PoolHealed
  <1>1. HealTyped /\ HealInv => PoolHealed
    <2>1. SUFFICES ASSUME HealTyped, HealInv, "pool" \in settled, Idling, Reachable
                   PROVE  live.pool = pool
      BY DEF PoolHealed
    <2>2. live = Loaded /\ ini # None /\ PoolRight(ini)
      BY <2>1, HealedFacts
    <2> QED  BY <2>1, <2>2 DEF Loaded, PoolRight, Reachable
  <1> QED  BY <1>1, HealCorrect, PTL

-----------------------------------------------------------------------------
(* The text of pgbouncer.ini (PgBouncerIni). *)

\* The values a line may have.
Entry == Pools \cup {Absent, Host, "hba"}

\* The text f says what r records, and cannot be mistaken by a rebuild: every
\* [pgbouncer] section is a whole one.
Matches(f, r) ==
    /\ f \in Seq(Section)
    /\ Says(f, r)
    /\ \A i \in DOMAIN f : f[i].name = "pgbouncer" => f[i].entries["auth_type"] = "hba"
    /\ r.rest => r.pool \in Pools

LEMMA SectionsAt ==
    ASSUME NEW f \in Seq(Section)
    PROVE  /\ Len(f) \in Nat /\ DOMAIN f = 1 .. Len(f)
           /\ \A i \in DOMAIN f : f[i] \in Section
  OBVIOUS

LEMMA SectionParts ==
    ASSUME NEW s \in Section
    PROVE  /\ s.name \in {"top", "databases", "pgbouncer"}
           /\ \A k \in Keys : s.entries[k] \in Entry
  BY DEF Section, Entry

LEMMA SectionMade ==
    ASSUME NEW n \in {"top", "databases", "pgbouncer"}, NEW e \in [Keys -> Entry]
    PROVE  [name |-> n, entries |-> e] \in Section
  BY DEF Section, Entry

LEMMA KeysKnown == /\ PoolKeys \subseteq Keys /\ Dbs \subseteq Keys /\ Star \in Keys
                   /\ "auth_type" \in Keys /\ "auth_type" \notin PoolKeys
  BY DEF Keys, PoolKeys

LEMMA EntriesApart == /\ \A q \in Pools : q # Absent /\ q # Host /\ q # "hba"
                      /\ Absent # Host /\ Absent # "hba" /\ Host # "hba"
  BY LineAssumption DEF Absent, Host

LEMMA DatabasesSectionMade ==
    ASSUME NEW D \in SUBSET Dbs
    PROVE  /\ DatabasesSection(D) \in Section
           /\ DatabasesSection(D).name = "databases"
           /\ \A k \in Keys : DatabasesSection(D).entries[k] = Host <=> k \in D
  <1> DEFINE e == [k \in Keys |-> IF k \in D THEN Host ELSE Absent]
  <1>1. e \in [Keys -> Entry]
    BY DEF Entry
  <1>2. \A k \in Keys : e[k] = Host <=> k \in D
    BY EntriesApart
  <1> HIDE DEF e
  <1>3. [name |-> "databases", entries |-> e] \in Section
    BY <1>1, SectionMade
  <1> QED  BY <1>2, <1>3 DEF DatabasesSection, e

LEMMA DatabasesReplaced ==
    ASSUME NEW f, NEW r \in Ini, NEW D \in SUBSET Dbs, Matches(f, r)
    PROVE  /\ Matches(ReplaceDatabases(f, D), WithDatabases(r, D))
           /\ Readable(ReplaceDatabases(f, D)) = WithDatabases(r, D).dbs
  <1> DEFINE s == DatabasesSection(D)
             t == WithDatabases(r, D)
             g == ReplaceDatabases(f, D)
  <1>1. /\ s \in Section /\ s.name = "databases"
        /\ \A k \in Keys : s.entries[k] = Host <=> k \in D
    BY DatabasesSectionMade
  <1>2. t.dbs = D /\ t.rest = r.rest /\ t.pool = r.pool
    BY DEF WithDatabases, Ini
  <1>3. f \in Seq(Section) /\ Len(f) \in Nat /\ DOMAIN f = 1 .. Len(f)
        /\ \A i \in DOMAIN f : f[i] \in Section
    BY SectionsAt DEF Matches
  \* The sections of the new text are the new one and those of the old text
  \* that are not [databases].
  <1>4. /\ g \in Seq(Section)
        /\ \A j \in DOMAIN g : g[j] = s \/ (j \in DOMAIN f /\ g[j] = f[j] /\ f[j].name # "databases")
        /\ \A i \in DOMAIN f : f[i].name # "databases" => i \in DOMAIN g /\ g[i] = f[i]
        /\ \E j \in DOMAIN g : g[j] = s
    <2> HIDE DEF s
    <2>1. CASE \E i \in DOMAIN f : f[i].name = "databases"
      <3>1. g = [i \in DOMAIN f |-> IF f[i].name = "databases" THEN s ELSE f[i]]
        BY <2>1 DEF ReplaceDatabases, s
      <3>2. g \in Seq(Section) /\ DOMAIN g = DOMAIN f
        BY <1>1, <1>3, <3>1
      <3> HIDE DEF g
      <3> QED  BY <2>1, <3>1, <3>2
    <2>2. CASE ~ \E i \in DOMAIN f : f[i].name = "databases"
      <3>1. g = Append(f, s)
        BY <2>2 DEF ReplaceDatabases, s
      <3>2. /\ g \in Seq(Section) /\ DOMAIN g = 1 .. Len(f) + 1
            /\ \A i \in DOMAIN f : g[i] = f[i]
            /\ g[Len(f) + 1] = s
        BY <1>1, <1>3, <3>1
      <3> HIDE DEF g
      <3> QED  BY <1>3, <2>2, <3>2
    <2> QED  BY <2>1, <2>2
  <1> HIDE DEF s, g
  <1>5. Readable(g) = D
    BY <1>1, <1>4, KeysKnown DEF Readable
  <1>6. /\ \A i \in DOMAIN f : f[i].name = "pgbouncer" => f[i].entries["auth_type"] = "hba"
        /\ r.rest <=> \E i \in DOMAIN f : f[i].name = "pgbouncer" /\ f[i].entries["auth_type"] = "hba"
        /\ \A i \in DOMAIN f : f[i].name = "pgbouncer" =>
             \A k \in PoolKeys : f[i].entries[k] = r.pool
        /\ r.rest => r.pool \in Pools
    BY DEF Matches, Says
  <1>7. \A j \in DOMAIN g : g[j].name = "pgbouncer" => j \in DOMAIN f /\ g[j] = f[j]
    BY <1>1, <1>4
  <1>8. \A i \in DOMAIN f : f[i].name = "pgbouncer" => i \in DOMAIN g /\ g[i] = f[i]
    BY <1>4
  <1> HIDE DEF t
  <1>9. Says(g, t)
    <2>1. Readable(g) \subseteq t.dbs /\ t.dbs \ Readable(g) \subseteq PoolKeys
      BY <1>2, <1>5
    <2>2. t.rest <=> \E i \in DOMAIN g : g[i].name = "pgbouncer" /\ g[i].entries["auth_type"] = "hba"
      BY <1>2, <1>6, <1>7, <1>8
    <2>3. \A i \in DOMAIN g : g[i].name = "pgbouncer" =>
            \A k \in PoolKeys : g[i].entries[k] = t.pool
      BY <1>2, <1>6, <1>7
    <2> QED  BY <2>1, <2>2, <2>3 DEF Says
  <1>10. Matches(g, t)
    BY <1>2, <1>4, <1>6, <1>7, <1>9 DEF Matches
  <1> QED  BY <1>2, <1>5, <1>10 DEF g, t

LEMMA SettingsReplaced ==
    ASSUME NEW f, NEW r \in Ini, NEW p \in Pools, Matches(f, r)
    PROVE  Matches(ReplaceSettings(f, p), WithPool(r, p))
  <1> DEFINE t == WithPool(r, p)
             g == ReplaceSettings(f, p)
             New(i, k) == k \in PoolKeys /\ (f[i].entries[k] # Absent \/ (i = Len(f) /\ k \notin Found(f)))
  <1>1. t.dbs = r.dbs /\ t.rest = r.rest /\ t.pool = IF r.rest THEN p ELSE None
    BY DEF WithPool, Ini
  <1>2. f \in Seq(Section) /\ Len(f) \in Nat /\ DOMAIN f = 1 .. Len(f)
        /\ \A i \in DOMAIN f : f[i] \in Section
    BY SectionsAt DEF Matches
  <1>3. /\ DOMAIN g = DOMAIN f
        /\ \A i \in DOMAIN f : /\ g[i].name = f[i].name
                               /\ g[i] = [name |-> f[i].name, entries |-> g[i].entries]
                               /\ g[i].entries = [k \in Keys |-> IF New(i, k) THEN p ELSE f[i].entries[k]]
                               /\ \A k \in Keys : g[i].entries[k] = IF New(i, k) THEN p ELSE f[i].entries[k]
    BY DEF ReplaceSettings
  <1> HIDE DEF g, t
  <1>4. g \in Seq(Section)
    <2>1. \A i \in DOMAIN f : g[i].entries \in [Keys -> Entry]
      <3> SUFFICES ASSUME NEW i \in DOMAIN f PROVE g[i].entries \in [Keys -> Entry]
        OBVIOUS
      <3>1. \A k \in Keys : f[i].entries[k] \in Entry
        BY <1>2, SectionParts
      <3> QED  BY <1>3, <3>1 DEF Entry
    <2>2. \A i \in DOMAIN f : g[i] \in Section
      <3> SUFFICES ASSUME NEW i \in DOMAIN f PROVE g[i] \in Section
        OBVIOUS
      <3>1. f[i].name \in {"top", "databases", "pgbouncer"}
        BY <1>2, SectionParts
      <3> QED  BY <1>3, <2>1, <3>1, SectionMade
    <2>3. g = [i \in 1 .. Len(f) |-> g[i]]
      BY <1>2 DEF g, ReplaceSettings
    <2> QED  BY <1>2, <2>2, <2>3
  <1>5. /\ Readable(f) \subseteq r.dbs /\ r.dbs \ Readable(f) \subseteq PoolKeys
        /\ \A i \in DOMAIN f : f[i].name = "pgbouncer" => f[i].entries["auth_type"] = "hba"
        /\ r.rest <=> \E i \in DOMAIN f : f[i].name = "pgbouncer" /\ f[i].entries["auth_type"] = "hba"
        /\ \A i \in DOMAIN f : f[i].name = "pgbouncer" =>
             \A k \in PoolKeys : f[i].entries[k] = r.pool
        /\ r.rest => r.pool \in Pools
    BY DEF Matches, Says
  <1>6. \A i \in DOMAIN f : \A k \in Keys \ PoolKeys : g[i].entries[k] = f[i].entries[k]
    BY <1>3
  <1>7. Readable(g) = Readable(f) \ PoolKeys
    <2>1. ASSUME NEW k \in PoolKeys, NEW i \in DOMAIN f PROVE g[i].entries[k] # Host
      <3>1. k \in Keys
        BY KeysKnown
      <3>2. g[i].entries[k] = IF New(i, k) THEN p ELSE f[i].entries[k]
        BY <1>3, <3>1
      <3>3. ~New(i, k) => f[i].entries[k] = Absent
        OBVIOUS
      <3> HIDE DEF New
      <3> QED  BY <3>2, <3>3, EntriesApart
    <2>2. Readable(g) \subseteq Readable(f) \ PoolKeys
      BY <1>3, <1>6, <2>1 DEF Readable
    <2>3. Readable(f) \ PoolKeys \subseteq Readable(g)
      BY <1>3, <1>6 DEF Readable
    <2> QED  BY <2>2, <2>3
  <1>8. \A i \in DOMAIN f : g[i].entries["auth_type"] = f[i].entries["auth_type"]
    BY <1>6, KeysKnown
  <1>8a. DOMAIN g = DOMAIN f /\ \A i \in DOMAIN f : g[i].name = f[i].name
    BY <1>3
  <1>9. ASSUME NEW i \in DOMAIN f, f[i].name = "pgbouncer", NEW k \in PoolKeys
        PROVE  r.rest /\ g[i].entries[k] = p
    <2>1. r.rest
      BY <1>5, <1>9
    <2>2. f[i].entries[k] # Absent
      BY <1>5, <1>9, <2>1, EntriesApart
    <2> QED  BY <1>3, <2>1, <2>2, KeysKnown
  <1>10. Says(g, t)
    <2>1. Readable(g) \subseteq t.dbs /\ t.dbs \ Readable(g) \subseteq PoolKeys
      BY <1>1, <1>5, <1>7
    <2>2. t.rest <=> \E i \in DOMAIN g : g[i].name = "pgbouncer" /\ g[i].entries["auth_type"] = "hba"
      <3>1. t.rest = r.rest
        BY <1>1
      <3>2. r.rest <=> \E i \in DOMAIN f : f[i].name = "pgbouncer" /\ f[i].entries["auth_type"] = "hba"
        BY <1>5
      <3> QED  BY <1>8, <1>8a, <3>1, <3>2, Zenon
    <2>3. ASSUME NEW i \in DOMAIN g, g[i].name = "pgbouncer", NEW k \in PoolKeys
          PROVE  g[i].entries[k] = t.pool
      <3>1. i \in DOMAIN f /\ f[i].name = "pgbouncer"
        BY <1>3, <2>3
      <3>2. r.rest /\ g[i].entries[k] = p
        BY <1>9, <3>1
      <3> QED  BY <1>1, <3>2
    <2> QED  BY <2>1, <2>2, <2>3 DEF Says
  <1>11. \A i \in DOMAIN g : g[i].name = "pgbouncer" => g[i].entries["auth_type"] = "hba"
    <2>1. \A i \in DOMAIN f : f[i].name = "pgbouncer" => f[i].entries["auth_type"] = "hba"
      BY <1>5
    <2> QED  BY <1>8, <1>8a, <2>1, Zenon
  <1>12. t.rest => t.pool \in Pools
    BY <1>1
  <1> QED  BY <1>4, <1>10, <1>11, <1>12 DEF Matches, g, t

LEMMA EmptyMatches == Matches(EmptyFile, TornIni) /\ Readable(EmptyFile) = {} /\ EmptyFile \in Seq(Section)
  <1>1. NoLines \in [Keys -> Entry]
    BY DEF NoLines, Entry
  <1> DEFINE s == [name |-> "top", entries |-> NoLines]
  <1>2. s \in Section /\ s.name = "top"
    BY <1>1, SectionMade
  <1> HIDE DEF s
  <1>3. EmptyFile = <<s>>
    BY DEF EmptyFile, s
  <1>4. EmptyFile \in Seq(Section) /\ DOMAIN EmptyFile = {1} /\ EmptyFile[1] = s
    BY <1>2, <1>3
  <1>5. Readable(EmptyFile) = {}
    BY <1>2, <1>4 DEF Readable
  <1>6. TornIni.dbs = {} /\ TornIni.rest = FALSE
    BY DEF TornIni
  <1>7. \A i \in DOMAIN EmptyFile : EmptyFile[i].name # "pgbouncer"
    BY <1>2, <1>4
  <1> QED  BY <1>4, <1>5, <1>6, <1>7 DEF Matches, Says

LEMMA BaseMatches == /\ Matches(BaseFile, BaseIni) /\ Readable(BaseFile) = BaseIni.dbs
  <1> DEFINE s1 == [name |-> "top", entries |-> NoLines]
             e2 == [k \in Keys |-> IF k = Star THEN Host ELSE Absent]
             e3 == [k \in Keys |-> CASE k \in PoolKeys -> BasePool
                                     [] k = "auth_type" -> "hba"
                                     [] OTHER -> Absent]
             s2 == [name |-> "databases", entries |-> e2]
             s3 == [name |-> "pgbouncer", entries |-> e3]
  <1>1. /\ NoLines \in [Keys -> Entry] /\ e2 \in [Keys -> Entry]
        /\ \A k \in Keys : e2[k] = Host <=> k = Star
    BY EntriesApart DEF NoLines, Entry
  <1>2. e3 \in [Keys -> Entry]
    <2>1. BasePool \in Entry /\ "hba" \in Entry /\ Absent \in Entry
      BY SyncAssumption DEF Entry
    <2> QED  BY <2>1
  <1>3. e3["auth_type"] = "hba" /\ \A k \in PoolKeys : e3[k] = BasePool
    BY KeysKnown
  <1> HIDE DEF e2, e3
  <1>4. /\ s1 \in Section /\ s2 \in Section /\ s3 \in Section
        /\ s1.name = "top" /\ s2.name = "databases" /\ s3.name = "pgbouncer"
        /\ s2.entries = e2 /\ s3.entries = e3
    BY <1>1, <1>2, SectionMade
  <1>5. BaseFile = <<s1, s2, s3>>
    BY DEF BaseFile, e2, e3
  <1> HIDE DEF s1, s2, s3
  <1>6. /\ BaseFile \in Seq(Section) /\ DOMAIN BaseFile = {1, 2, 3}
        /\ BaseFile[1] = s1 /\ BaseFile[2] = s2 /\ BaseFile[3] = s3
    BY <1>4, <1>5
  <1>7. BaseIni.dbs = {Star} /\ BaseIni.rest = TRUE /\ BaseIni.pool = BasePool /\ BasePool \in Pools
    BY SyncAssumption DEF BaseIni
  <1>8. Readable(BaseFile) = {Star}
    BY <1>1, <1>4, <1>6, KeysKnown DEF Readable
  <1>9. \A i \in DOMAIN BaseFile : BaseFile[i].name = "pgbouncer" <=> i = 3
    BY <1>4, <1>6
  <1> QED  BY <1>3, <1>4, <1>6, <1>7, <1>8, <1>9 DEF Matches, Says

\* What a rebuild is about to write; the databases are all in the text of the
\* rebuild that writes them.
Drafted(d, r) ==
    /\ Matches(d.text, r)
    /\ d.by \in {"databases", "settings"}
    /\ d.by = "databases" => Readable(d.text) = r.dbs

Held == ini # None => /\ Matches(file, ini)
                      /\ author # "settings" => Readable(file) = ini.dbs

Planned(w) ==
    /\ work[w].pc \in {"truncate_ini", "write_ini"} => Drafted(drafts[w], work[w].ini)
    /\ work[w].pc = "read_section" => work[w].pool \in Pools

LinesInv == LineTypeOK /\ Held /\ \A w \in Workers : Planned(w)

\* The worker w has moved, and what it will write, if it will, is drafted.
LEMMA PlannedMove ==
    ASSUME \A v \in Workers : Planned(v), NEW w \in Workers, NEW r, Becomes(w, r),
           \A v \in Workers \ {w} : drafts'[v] = drafts[v],
           r.pc \in {"truncate_ini", "write_ini"} => Drafted(drafts'[w], r.ini),
           r.pc = "read_section" => r.pool \in Pools
    PROVE  (\A v \in Workers : Planned(v))'
  <1> SUFFICES ASSUME NEW v \in Workers PROVE Planned(v)'
    OBVIOUS
  <1>1. Drafted(drafts[v], work[v].ini)' <=> Drafted(drafts'[v], work'[v].ini)
    BY DEF Drafted, Matches, Says, Readable
  <1>2. CASE v = w
    <2>1. work'[v] = r /\ drafts'[v] = drafts'[w]
      BY <1>2 DEF Becomes
    <2> QED  BY <1>1, <2>1 DEF Planned
  <1>3. CASE v # w
    <2>1. work'[v] = work[v] /\ drafts'[v] = drafts[v]
      BY <1>3 DEF Becomes
    <2> QED  BY <1>1, <2>1 DEF Planned
  <1> QED  BY <1>2, <1>3

\* The step w makes neither reads nor writes pgbouncer.ini.
Aside(w) == \E r : /\ Becomes(w, r)
                   /\ r.pc \notin {"truncate_ini", "write_ini"}
                   /\ r.pc = "read_section" => r.pool \in Pools

LEMMA AsideMoves ==
    ASSUME SyncTypeInv, NEW w \in Workers
    PROVE  /\ Done(w) => Aside(w)
           /\ \A a \in Acls : Read(w, a) => Aside(w)
           /\ \A pc \in {"query_acl", "query_dbs", "query_pool", "reload"} :
                Goto(w, pc) => Aside(w)
           /\ At(w, "truncate_hba") /\ Goto(w, "write_hba") => Aside(w)
  <1>0. WorkTyped
    BY TypeParts DEF SyncTypeInv
  <1>1. ASSUME Done(w) PROVE Aside(w)
    <2>1. Becomes(w, Idle)
      BY <1>1, PlainMoves
    <2>2. Idle.pc = "idle"
      BY IdleTyped
    <2> QED  BY <2>1, <2>2 DEF Aside
  <1>2. ASSUME NEW a \in Acls, Read(w, a) PROVE Aside(w)
    <2>1. Becomes(w, [work[w] EXCEPT !.pc = "truncate_hba", !.acl = a])
      BY <1>2, PlainMoves
    <2>2. work[w] \in Work
      BY <1>0 DEF WorkTyped
    <2>3. [work[w] EXCEPT !.pc = "truncate_hba", !.acl = a].pc = "truncate_hba"
      BY <2>2 DEF Work
    <2> QED  BY <2>1, <2>3 DEF Aside
  <1>3. ASSUME NEW pc \in {"query_acl", "query_dbs", "query_pool", "reload"}, Goto(w, pc)
        PROVE  Aside(w)
    <2>1. Becomes(w, Onward(w, pc))
      BY <1>3, PlainMoves, PcsTyped
    <2>2. Onward(w, pc).pc = pc
      BY DEF Onward, Idle
    <2> QED  BY <2>1, <2>2 DEF Aside
  <1>4. ASSUME At(w, "truncate_hba"), Goto(w, "write_hba") PROVE Aside(w)
    <2>1. Becomes(w, Onward(w, "write_hba"))
      BY <1>4, PlainMoves
    <2>2. Onward(w, "write_hba").pc = "write_hba"
      BY DEF Onward, Idle
    <2> QED  BY <2>1, <2>2 DEF Aside
  <1> QED  BY <1>1, <1>2, <1>3, <1>4

\* The queries leave what they have read in a local variable.
LEMMA QueryMoves ==
    ASSUME SyncTypeInv, NEW w \in Workers, QueryDbs(w) \/ QueryPool(w)
    PROVE  Aside(w)
  <1>0. WorkTyped /\ work[w] \in Work /\ pool \in Pools
    BY TypeParts DEF SyncTypeInv, WorkTyped, TablesTyped
  <1>1. CASE QueryDbs(w)
    <2>1. CASE Goto(w, "reload")
      BY <2>1, AsideMoves
    <2>2. ASSUME NEW D, work' = [work EXCEPT ![w].pc = "read_ini", ![w].dbs = D]
          PROVE  Aside(w)
      <3> DEFINE r == [work[w] EXCEPT !.pc = "read_ini", !.dbs = D]
      <3>1. Becomes(w, r)
        BY <1>0, <2>2 DEF WorkTyped, Work, Becomes
      <3>2. r.pc = "read_ini"
        BY <1>0 DEF Work
      <3> HIDE DEF r
      <3> QED  BY <3>1, <3>2 DEF Aside
    <2> QED  BY <1>1, <2>1, <2>2 DEF QueryDbs
  <1>2. CASE QueryPool(w)
    <2>1. CASE Done(w) \/ Goto(w, "reload")
      BY <2>1, AsideMoves
    <2>2. ASSUME NEW q \in Pools,
                 work' = [work EXCEPT ![w].pc = "read_section", ![w].pool = q]
          PROVE  Aside(w)
      <3> DEFINE r == [work[w] EXCEPT !.pc = "read_section", !.pool = q]
      <3>1. Becomes(w, r)
        BY <1>0, <2>2 DEF WorkTyped, Work, Becomes
      <3>2. r.pc = "read_section" /\ r.pool = q
        BY <1>0 DEF Work
      <3> HIDE DEF r
      <3> QED  BY <3>1, <3>2 DEF Aside
    <2> QED  BY <1>2, <2>1, <2>2 DEF QueryPool
  <1> QED  BY <1>1, <1>2

LEMMA BeginAside ==
    ASSUME SyncTypeInv, NEW w \in Handlers, Begin(w)
    PROVE  Aside(w) /\ UNCHANGED ini
  <1>0. w \in Workers /\ WorkTyped
    BY TypeParts DEF Workers, SyncTypeInv
  <1>1. ASSUME NEW d \in Dbs, CreateDatabase(w, d) \/ DeleteDatabase(w, d) \/ RestoreBackup(w, d)
        PROVE  Aside(w) /\ UNCHANGED ini
    <2>1. PICK pc \in RowPcs : work' = [work EXCEPT ![w] = [Idle EXCEPT !.pc = pc, !.db = d]]
      BY <1>1 DEF CreateDatabase, DeleteDatabase, RestoreBackup, RowPcs
    <2>2. Becomes(w, [Idle EXCEPT !.pc = pc, !.db = d])
      BY <1>0, <2>1, RowRequest DEF RowPcs
    <2>3. [Idle EXCEPT !.pc = pc, !.db = d].pc = pc
      BY DEF Idle
    <2>4. UNCHANGED ini
      BY <1>1 DEF CreateDatabase, DeleteDatabase, RestoreBackup, files
    <2> QED  BY <2>2, <2>3, <2>4 DEF Aside, RowPcs
  <1>2. ASSUME NEW d \in Dbs, NEW b \in BOOLEAN, TogglePgBouncerDatabase(w, d, b)
        PROVE  Aside(w) /\ UNCHANGED ini
    BY <1>0, <1>2, AsideMoves DEF TogglePgBouncerDatabase, files
  <1>3. ASSUME NEW q \in Pools, UpdatePgBouncerConfig(w, q)
        PROVE  Aside(w) /\ UNCHANGED ini
    BY <1>0, <1>3, AsideMoves DEF UpdatePgBouncerConfig, files
  <1> QED  BY <1>1, <1>2, <1>3 DEF Begin

LEMMA ElsewhereMoves ==
    ASSUME SyncTypeInv, NEW w \in Workers, Elsewhere(w)
    PROVE  Aside(w) /\ UNCHANGED ini
  <1>1. CASE w \in Handlers /\ Begin(w)
    BY <1>1, BeginAside
  <1>2. CASE InsertRow(w) \/ DeleteRow(w)
    BY <1>2, AsideMoves DEF InsertRow, DeleteRow, files
  <1>3. CASE QueryAcl(w)
    <2>1. acl \in Acls
      BY DEF SyncTypeInv, TypeOK
    <2> QED  BY <1>3, <2>1, AsideMoves DEF QueryAcl, files
  <1>4. CASE TruncateHba(w)
    BY <1>4, AsideMoves DEF TruncateHba
  <1>5. CASE WriteHba(w)
    BY <1>5, AsideMoves DEF WriteHba
  <1>6. CASE QueryDbs(w) \/ QueryPool(w)
    BY <1>6, QueryMoves DEF QueryDbs, QueryPool, files
  <1>7. CASE RecreateDatabase(w)
    BY <1>7, AsideMoves DEF RecreateDatabase, files
  <1>8. CASE ReloadPgBouncer(w)
    BY <1>8, AsideMoves DEF ReloadPgBouncer, files
  <1> QED  BY <1>1, <1>2, <1>3, <1>4, <1>5, <1>6, <1>7, <1>8 DEF Elsewhere

LEMMA AsideKept ==
    ASSUME SyncTypeInv, LinesInv, NEW w \in Workers, Aside(w), UNCHANGED <<ini, lineVars>>
    PROVE  LinesInv'
  <1>1. PICK r : /\ Becomes(w, r)
                 /\ r.pc \notin {"truncate_ini", "write_ini"}
                 /\ r.pc = "read_section" => r.pool \in Pools
    BY DEF Aside
  <1>2. (\A v \in Workers : Planned(v))'
    BY <1>1, PlannedMove DEF LinesInv, lineVars
  <1>3. LineTypeOK' /\ Held'
    BY DEF LinesInv, LineTypeOK, Held, lineVars, Matches, Says, Readable
  <1> QED  BY <1>2, <1>3 DEF LinesInv

\* A rebuild takes the file for a draft of what its own table says.
LEMMA DraftKept ==
    ASSUME SyncTypeInv, LinesInv, NEW w \in Workers, NEW text \in Seq(Section),
           NEW by \in {"databases", "settings"}, NEW r, Becomes(w, r),
           ini # None, UNCHANGED ini, Drafts(w, text, by),
           r.pc = "truncate_ini", Matches(text, r.ini),
           by = "databases" => Readable(text) = r.ini.dbs
    PROVE  LinesInv'
  <1> DEFINE d == [text |-> text, by |-> by]
  <1>1. /\ drafts \in [Workers -> [text : Seq(Section), by : Authors]]
        /\ d \in [text : Seq(Section), by : Authors]
        /\ d.text = text /\ d.by = by
    BY DEF LinesInv, LineTypeOK, Authors
  <1>2. drafts' = [drafts EXCEPT ![w] = d] /\ UNCHANGED <<file, author>>
    BY DEF Drafts
  <1> HIDE DEF d
  <1>3. /\ drafts'[w] = d /\ \A v \in Workers \ {w} : drafts'[v] = drafts[v]
        /\ drafts' \in [Workers -> [text : Seq(Section), by : Authors]]
    BY <1>1, <1>2
  <1>4. Drafted(drafts'[w], r.ini)
    BY <1>1, <1>3 DEF Drafted
  <1>5. (\A v \in Workers : Planned(v))'
    BY <1>3, <1>4, PlannedMove DEF LinesInv
  <1>6. LineTypeOK' /\ Held'
    BY <1>2, <1>3 DEF LinesInv, LineTypeOK, Held, Matches, Says, Readable
  <1> QED  BY <1>5, <1>6 DEF LinesInv

\* Without a file, the rebuild goes on to the reload.
LEMMA NothingDrafted ==
    ASSUME SyncTypeInv, LinesInv, NEW w \in Workers, NEW text, NEW by,
           ini = None, UNCHANGED ini, Drafts(w, text, by), Goto(w, "reload")
    PROVE  LinesInv'
  <1>1. UNCHANGED lineVars
    BY DEF Drafts, lineVars
  <1> QED  BY <1>1, AsideMoves, AsideKept

LEMMA DatabasesDrafted ==
    ASSUME SyncTypeInv, LinesInv, NEW w \in Workers, ReadIni(w),
           Drafts(w, ReplaceDatabases(file, work[w].dbs), "databases")
    PROVE  LinesInv'
  <1>0. /\ At(w, "read_ini") /\ UNCHANGED <<ini, budget>> /\ RebuildStep(w)
        /\ ini \in Ini \cup {None} /\ work[w].dbs \in SUBSET Dbs
    BY TypeParts DEF ReadIni, RebuildStep, files, SyncTypeInv, FilesTyped, WorkTyped, Work
  <1>1. CASE ini = None
    BY <1>0, <1>1, NothingDrafted DEF ReadIni
  <1>2. CASE ini # None
    <2> DEFINE D == work[w].dbs
               text == ReplaceDatabases(file, D)
    <2>1. Matches(file, ini) /\ ini \in Ini
      BY <1>0, <1>2 DEF LinesInv, Held
    <2>2. Matches(text, WithDatabases(ini, D)) /\ Readable(text) = WithDatabases(ini, D).dbs
      BY <1>0, <2>1, DatabasesReplaced
    <2>3. PICK r : Becomes(w, r) /\ r.pc = "truncate_ini" /\ r.ini = WithDatabases(ini, D)
      BY <1>0, <1>2, RebuildGoes DEF At
    <2>4. text \in Seq(Section)
      BY <2>2 DEF Matches
    <2>5. Drafts(w, text, "databases")
      OBVIOUS
    <2> HIDE DEF D, text
    <2> QED  BY <1>0, <1>2, <2>2, <2>3, <2>4, <2>5, DraftKept
  <1> QED  BY <1>1, <1>2

LEMMA SettingsDrafted ==
    ASSUME SyncTypeInv, LinesInv, NEW w \in Workers, ReadSection(w),
           Drafts(w, ReplaceSettings(file, work[w].pool), "settings")
    PROVE  LinesInv'
  <1>0. /\ At(w, "read_section") /\ UNCHANGED <<ini, budget>> /\ RebuildStep(w)
        /\ ini \in Ini \cup {None}
    BY TypeParts DEF ReadSection, RebuildStep, files, SyncTypeInv, FilesTyped
  <1>1. CASE ini = None
    BY <1>0, <1>1, NothingDrafted DEF ReadSection
  <1>2. CASE ini # None
    <2> DEFINE p == work[w].pool
               text == ReplaceSettings(file, p)
    <2>1. Matches(file, ini) /\ ini \in Ini /\ p \in Pools
      BY <1>0, <1>2 DEF LinesInv, Held, Planned, At
    <2>2. Matches(text, WithPool(ini, p))
      BY <2>1, SettingsReplaced
    <2>3. PICK r : Becomes(w, r) /\ r.pc = "truncate_ini" /\ r.ini = WithPool(ini, p)
      BY <1>0, <1>2, RebuildGoes DEF At
    <2>4. text \in Seq(Section)
      BY <2>2 DEF Matches
    <2>5. Drafts(w, text, "settings")
      OBVIOUS
    <2> HIDE DEF p, text
    <2> QED  BY <1>0, <1>2, <2>2, <2>3, <2>4, <2>5, DraftKept
  <1> QED  BY <1>1, <1>2

LEMMA TruncateKept ==
    ASSUME SyncTypeInv, LinesInv, NEW w \in Workers, TruncateIni(w),
           file' = EmptyFile, author' = "nobody", UNCHANGED drafts
    PROVE  LinesInv'
  <1>0. At(w, "truncate_ini") /\ UNCHANGED budget /\ RebuildStep(w) /\ ini' = TornIni
    BY DEF TruncateIni, RebuildStep
  <1>1. PICK r : Becomes(w, r) /\ r.pc = "write_ini" /\ r.ini = work[w].ini
    BY <1>0, RebuildGoes DEF At
  <1>2. Drafted(drafts'[w], r.ini)
    BY <1>0, <1>1 DEF LinesInv, Planned, At
  <1>3. (\A v \in Workers : Planned(v))'
    BY <1>1, <1>2, PlannedMove DEF LinesInv
  <1>4. LineTypeOK'
    BY EmptyMatches DEF LinesInv, LineTypeOK, Authors
  <1>5. Held'
    <2>1. TornIni.dbs = {}
      BY DEF TornIni
    <2>2. Matches(file', ini') /\ Readable(file') = ini'.dbs
      BY <1>0, <2>1, EmptyMatches
    <2> QED  BY <2>2 DEF Held, Matches, Says, Readable
  <1> QED  BY <1>3, <1>4, <1>5 DEF LinesInv

LEMMA WriteKept ==
    ASSUME SyncTypeInv, LinesInv, NEW w \in Workers, WriteIni(w), Writes(w)
    PROVE  LinesInv'
  <1>0. At(w, "write_ini") /\ Goto(w, "reload") /\ Drafted(drafts[w], work[w].ini)
    BY DEF WriteIni, LinesInv, Planned, At
  <1>1. PICK r : /\ Becomes(w, r)
                 /\ r.pc \notin {"truncate_ini", "write_ini"}
                 /\ r.pc = "read_section" => r.pool \in Pools
    BY <1>0, AsideMoves DEF Aside
  <1>2. /\ drafts \in [Workers -> [text : Seq(Section), by : Authors]]
        /\ NoDraft \in [text : Seq(Section), by : Authors]
        /\ drafts' = [drafts EXCEPT ![w] = NoDraft]
    BY EmptyMatches DEF LinesInv, LineTypeOK, NoDraft, Authors, Writes
  <1>3. /\ \A v \in Workers \ {w} : drafts'[v] = drafts[v]
        /\ drafts' \in [Workers -> [text : Seq(Section), by : Authors]]
        /\ drafts[w].text \in Seq(Section) /\ drafts[w].by \in Authors
    BY <1>2
  <1>4. (\A v \in Workers : Planned(v))'
    BY <1>1, <1>3, PlannedMove DEF LinesInv
  <1>5. CASE UNCHANGED budget
    <2>1. ini' = work[w].ini
      <3>1. ~Spend("failures")
        BY <1>5, NothingSpent
      <3> QED  BY <3>1 DEF WriteIni
    <2>2. file' = drafts[w].text /\ author' = drafts[w].by
      BY <1>5 DEF Writes
    <2>3. LineTypeOK'
      BY <1>3, <2>2 DEF LineTypeOK
    <2>4. Matches(file', ini') /\ (author' # "settings" => Readable(file') = ini'.dbs)
      BY <1>0, <2>1, <2>2 DEF Drafted
    <2>5. Held'
      BY <2>4 DEF Held, Matches, Says, Readable
    <2> QED  BY <1>4, <2>3, <2>5 DEF LinesInv
  <1>6. CASE ~UNCHANGED budget
    <2>1. UNCHANGED <<ini, file, author>>
      BY <1>6 DEF WriteIni, Writes
    <2>2. LineTypeOK' /\ Held'
      BY <1>3, <2>1 DEF LinesInv, LineTypeOK, Held, Matches, Says, Readable
    <2> QED  BY <1>4, <2>2 DEF LinesInv
  <1> QED  BY <1>5, <1>6

\* Nobody's local variables change.
LEMMA StillKept ==
    ASSUME LinesInv, UNCHANGED <<work, ini, lineVars>>
    PROVE  LinesInv'
  BY DEF LinesInv, LineTypeOK, Held, Planned, Drafted, Matches, Says, Readable, lineVars

LEMMA CopyKept ==
    ASSUME LinesInv, CopyBaseIni, file' = BaseFile, author' = "base", UNCHANGED drafts
    PROVE  LinesInv'
  <1>1. UNCHANGED work /\ ini' = BaseIni
    BY DEF CopyBaseIni
  <1>2. (\A v \in Workers : Planned(v))'
    BY <1>1 DEF LinesInv, Planned, Drafted, Matches, Says, Readable
  <1>3. Matches(file', ini') /\ Readable(file') = ini'.dbs
    BY <1>1, BaseMatches
  <1>4. LineTypeOK'
    <2>1. file' \in Seq(Section)
      BY <1>3 DEF Matches
    <2> QED  BY <2>1 DEF LinesInv, LineTypeOK, Authors
  <1>5. Held'
    BY <1>3 DEF Held, Matches, Says, Readable
  <1> QED  BY <1>2, <1>4, <1>5 DEF LinesInv

LEMMA NoDraftTyped ==
    [w \in Workers |-> NoDraft] \in [Workers -> [text : Seq(Section), by : Authors]]
  BY EmptyMatches DEF NoDraft, Authors

LEMMA AppRestartKept ==
    ASSUME LinesInv, RestartApp, drafts' = [w \in Workers |-> NoDraft],
           UNCHANGED <<file, author>>
    PROVE  LinesInv'
  <1>1. /\ UNCHANGED ini
        /\ \A w \in Workers : work'[w].pc \in {"idle", "query_acl"}
    BY IdleTyped DEF RestartApp, files, Idle
  <1>2. (\A v \in Workers : Planned(v))'
    BY <1>1 DEF Planned
  <1>3. LineTypeOK'
    BY NoDraftTyped DEF LinesInv, LineTypeOK
  <1>4. Held'
    BY <1>1 DEF LinesInv, Held, Matches, Says, Readable
  <1> QED  BY <1>2, <1>3, <1>4 DEF LinesInv

LEMMA LinesStart == ASSUME IniInit PROVE LinesInv
  <1>1. \A w \in Workers : work[w].pc \in {"idle", "query_acl"}
    BY DEF IniInit, Init, Idle
  <1>2. \A w \in Workers : Planned(w)
    BY <1>1 DEF Planned
  <1>3. IF Boot THEN file = BaseFile /\ ini = BaseIni /\ author = "base"
                ELSE file = EmptyFile /\ ini = None /\ author = "nobody"
    BY SyncAssumption DEF IniInit, Init
  <1>4. BaseFile \in Seq(Section) /\ EmptyFile \in Seq(Section)
    BY BaseMatches, EmptyMatches DEF Matches
  <1>5. LineTypeOK
    BY <1>3, <1>4, NoDraftTyped DEF IniInit, LineTypeOK, Authors
  <1>6. Held
    BY <1>3, BaseMatches DEF Held
  <1> QED  BY <1>2, <1>5, <1>6 DEF LinesInv

\* Every step of the text is a step of PgBouncerSync.
LEMMA IniNextSteps == IniNext => Next
  BY DEF IniNext, Next, Step, Elsewhere

LEMMA LinesStep ==
    ASSUME SyncTypeInv, LinesInv, [IniNext]_iniVars
    PROVE  LinesInv'
  <1>1. CASE UNCHANGED iniVars
    BY <1>1, StillKept DEF iniVars, vars
  <1>2. ASSUME NEW w \in Workers, ReadIni(w),
               Drafts(w, ReplaceDatabases(file, work[w].dbs), "databases")
        PROVE  LinesInv'
    BY <1>2, DatabasesDrafted
  <1>3. ASSUME NEW w \in Workers, ReadSection(w),
               Drafts(w, ReplaceSettings(file, work[w].pool), "settings")
        PROVE  LinesInv'
    BY <1>3, SettingsDrafted
  <1>4. ASSUME NEW w \in Workers, TruncateIni(w), file' = EmptyFile, author' = "nobody",
               UNCHANGED drafts
        PROVE  LinesInv'
    BY <1>4, TruncateKept
  <1>5. ASSUME NEW w \in Workers, WriteIni(w), Writes(w) PROVE LinesInv'
    BY <1>5, WriteKept
  <1>6. ASSUME NEW w \in Workers, Elsewhere(w), UNCHANGED lineVars PROVE LinesInv'
    BY <1>6, ElsewhereMoves, AsideKept
  <1>7. ASSUME Tick, UNCHANGED lineVars PROVE LinesInv'
    <2>1. Ticker \in Workers
      BY DEF Workers
    <2>2. Aside(Ticker) /\ UNCHANGED ini
      BY <1>7, <2>1, AsideMoves DEF Tick, files
    <2> QED  BY <1>7, <2>1, <2>2, AsideKept
  <1>8. ASSUME StopPgBouncer \/ LaunchPgBouncer \/ (\E a \in Acls : ManagedUsersChange(a)),
               UNCHANGED lineVars
        PROVE  LinesInv'
    <2>1. UNCHANGED <<work, ini>>
      BY <1>8 DEF StopPgBouncer, LaunchPgBouncer, ManagedUsersChange, files
    <2> QED  BY <1>8, <2>1, StillKept
  <1>9. ASSUME CopyBaseIni, file' = BaseFile, author' = "base", UNCHANGED drafts
        PROVE  LinesInv'
    BY <1>9, CopyKept
  <1>10. ASSUME RestartApp, drafts' = [w \in Workers |-> NoDraft], UNCHANGED <<file, author>>
         PROVE  LinesInv'
    BY <1>10, AppRestartKept
  <1> QED  BY <1>1, <1>2, <1>3, <1>4, <1>5, <1>6, <1>7, <1>8, <1>9, <1>10 DEF IniNext

\* The text only follows: every behaviour is one of the rebuilds, requests,
\* failures and restarts of PgBouncerSync.
THEOREM LinesFollow == IniSpec => Spec
  <1>1. IniInit => Init
    BY DEF IniInit
  <1>2. [IniNext]_iniVars => [Next]_vars
    BY IniNextSteps DEF iniVars
  <1> QED  BY <1>1, <1>2, PTL DEF IniSpec, Spec

LEMMA LinesCorrect == IniSpec => [](SyncTypeInv /\ LinesInv)
  <1>1. IniInit => SyncTypeInv /\ LinesInv
    BY InitTyped, LinesStart DEF IniInit
  <1>2. SyncTypeInv /\ LinesInv /\ [IniNext]_iniVars => (SyncTypeInv /\ LinesInv)'
    <2> SUFFICES ASSUME SyncTypeInv, LinesInv, [IniNext]_iniVars
                 PROVE  SyncTypeInv' /\ LinesInv'
      OBVIOUS
    <2>1. [Next]_vars
      BY IniNextSteps DEF iniVars
    <2> QED  BY <2>1, SyncTypeStep, LinesStep
  <1> QED  BY <1>1, <1>2, PTL DEF IniSpec

\* The two loops over the lines of pgbouncer.ini do what PgBouncerSync says of
\* them, and what every rebuild is about to write is as well, whatever file they
\* find: one that another rebuild has truncated, one that a failing write has
\* left, one that a container has just copied.
THEOREM TextIsRecord == IniSpec => []TextSaysRecord
  <1>1. LinesInv => TextSaysRecord
    BY DEF LinesInv, Held, Planned, Drafted, Matches, TextSaysRecord
  <1> QED  BY <1>1, LinesCorrect, PTL

\* Only a save of the pool settings can close an open database, only one that is
\* named like a pool setting, and only until the next write.
THEOREM OnlySavesOverwrite == IniSpec => []OverwrittenBySave
  <1>1. LinesInv => OverwrittenBySave
    <2>1. SUFFICES ASSUME LinesInv, ini # None, Readable(file) # ini.dbs
                   PROVE  author = "settings" /\ ini.dbs \cap PoolKeys # {}
      BY DEF OverwrittenBySave
    <2>2. author = "settings" /\ Says(file, ini)
      BY <2>1 DEF LinesInv, Held, Matches
    <2>3. Readable(file) \subseteq ini.dbs /\ ini.dbs \ Readable(file) \subseteq PoolKeys
      BY <2>2 DEF Says
    <2>4. PICK d \in ini.dbs : d \notin Readable(file)
      BY <2>1, <2>3
    <2> QED  BY <2>2, <2>3, <2>4
  <1> QED  BY <1>1, LinesCorrect, PTL
-----------------------------------------------------------------------------
(* The rows, with any overlap and any failure (PgBouncerRows). *)

OwingPcs == {"insert_row", "delete_row"}

\* What is known of a database whose row has not gone astray: one worker at most
\* owes its row, and knows what has become of the database.
Agrees(d) ==
    /\ \A v, w \in Workers : Owes(v, d) /\ Owes(w, d) => v = w
    /\ \A w \in Workers : Owes(w, d) => (At(w, "insert_row") <=> d \in databases)
    /\ ~ Owed(d) => (d \in DOMAIN rows <=> d \in databases)

StrayInv == \A d \in Dbs : d \notin astray => Agrees(d)

\* Only w moves.
Stirs(w) == \A v \in Workers \ {w} : work'[v] = work[v]

LEMMA Primitives ==
    ASSUME SyncTypeInv, NEW w \in Workers
    PROVE  /\ Done(w) => Stirs(w) /\ work'[w].pc = "idle"
           /\ \A pc : Goto(w, pc) => Stirs(w) /\ work'[w].pc = pc
           /\ \A a : Read(w, a) => Stirs(w) /\ work'[w].pc = "truncate_hba"
  <1>1. WorkTyped
    BY TypeParts DEF SyncTypeInv
  <1>2. work \in [Workers -> Work]
    BY <1>1 DEF WorkTyped
  <1>3. Done(w) => Stirs(w) /\ work'[w].pc = "idle"
    BY <1>2, IdleTyped DEF Done, Stirs
  <1>4. ASSUME NEW pc, Goto(w, pc) PROVE Stirs(w) /\ work'[w].pc = pc
    BY <1>2, <1>4 DEF Goto, Onward, Idle, Stirs
  <1>5. ASSUME NEW a, Read(w, a) PROVE Stirs(w) /\ work'[w].pc = "truncate_hba"
    BY <1>2, <1>5 DEF Read, Stirs, Work
  <1> QED  BY <1>3, <1>4, <1>5

\* No step of a rebuild has to do with a row.
LEMMA RebuildPasses ==
    ASSUME SyncTypeInv, NEW w \in Workers, RebuildStep(w)
    PROVE  /\ UNCHANGED tables /\ Stirs(w)
           /\ work[w].pc \notin OwingPcs /\ work'[w].pc \notin OwingPcs
  <1>1. WorkTyped
    BY TypeParts DEF SyncTypeInv
  <1>2. work \in [Workers -> Work]
    BY <1>1 DEF WorkTyped
  <1>3. UNCHANGED tables /\ work[w].pc \notin OwingPcs
    BY DEF RebuildStep, QueryAcl, TruncateHba, WriteHba, QueryDbs, ReadIni, QueryPool,
           ReadSection, TruncateIni, WriteIni, ReloadPgBouncer, At, OwingPcs
  <1>4. CASE QueryAcl(w)
    BY <1>3, <1>4, Primitives DEF QueryAcl, OwingPcs
  <1>5. CASE TruncateHba(w) \/ WriteHba(w)
    BY <1>3, <1>5, Primitives DEF TruncateHba, WriteHba, OwingPcs
  <1>6. CASE QueryDbs(w)
    <2>1. CASE Goto(w, "reload")
      BY <1>3, <2>1, Primitives DEF OwingPcs
    <2>2. ASSUME NEW D, work' = [work EXCEPT ![w].pc = "read_ini", ![w].dbs = D]
          PROVE  Stirs(w) /\ work'[w].pc = "read_ini"
      BY <1>2, <2>2 DEF Stirs, Work
    <2> QED  BY <1>3, <1>6, <2>1, <2>2 DEF QueryDbs, OwingPcs
  <1>7. CASE ReadIni(w)
    <2>1. CASE Goto(w, "reload")
      BY <1>3, <2>1, Primitives DEF OwingPcs
    <2>2. ASSUME NEW f, work' = [work EXCEPT ![w].pc = "truncate_ini", ![w].dbs = {}, ![w].ini = f]
          PROVE  Stirs(w) /\ work'[w].pc = "truncate_ini"
      BY <1>2, <2>2 DEF Stirs, Work
    <2> QED  BY <1>3, <1>7, <2>1, <2>2 DEF ReadIni, OwingPcs
  <1>8. CASE QueryPool(w)
    <2>1. CASE Done(w) \/ Goto(w, "reload")
      BY <1>3, <2>1, Primitives DEF OwingPcs
    <2>2. ASSUME NEW q, work' = [work EXCEPT ![w].pc = "read_section", ![w].pool = q]
          PROVE  Stirs(w) /\ work'[w].pc \notin OwingPcs
      BY <1>2, <2>2 DEF Stirs, Work, OwingPcs
    <2> QED  BY <1>3, <1>8, <2>1, <2>2 DEF QueryPool
  <1>9. CASE ReadSection(w)
    <2>1. CASE Goto(w, "reload")
      BY <1>3, <2>1, Primitives DEF OwingPcs
    <2>2. ASSUME NEW f, work' = [work EXCEPT ![w].pc = "truncate_ini", ![w].pool = None, ![w].ini = f]
          PROVE  Stirs(w) /\ work'[w].pc = "truncate_ini"
      BY <1>2, <2>2 DEF Stirs, Work
    <2> QED  BY <1>3, <1>9, <2>1, <2>2 DEF ReadSection, OwingPcs
  <1>10. CASE TruncateIni(w) \/ WriteIni(w) \/ ReloadPgBouncer(w)
    BY <1>3, <1>10, Primitives DEF TruncateIni, WriteIni, ReloadPgBouncer, OwingPcs
  <1> QED  BY <1>4, <1>5, <1>6, <1>7, <1>8, <1>9, <1>10 DEF RebuildStep

\* A step that leaves the database d, its row and who owes it alone.
LEMMA StaysOut ==
    ASSUME NEW d \in Dbs, StrayInv, Strays, d \notin astray',
           \A w \in Workers : Owes(w, d)' = Owes(w, d) /\ At(w, "insert_row")' = At(w, "insert_row"),
           d \in databases' <=> d \in databases,
           d \in DOMAIN rows' <=> d \in DOMAIN rows
    PROVE  Agrees(d)'
  <1>1. ~ Takes(d)
    BY DEF Takes, Owed
  <1>2. Agrees(d)
    BY <1>1 DEF StrayInv, Strays
  <1> QED  BY <1>2 DEF Agrees, Owed

\* A step of a worker that neither owed a row nor goes on to owe one.
LEMMA PassesBy ==
    ASSUME NEW d \in Dbs, StrayInv, Strays, d \notin astray', NEW w \in Workers, Stirs(w),
           work[w].pc \notin OwingPcs, work'[w].pc \notin OwingPcs,
           d \in databases' <=> d \in databases, DOMAIN rows' = DOMAIN rows
    PROVE  Agrees(d)'
  <1>1. \A v \in Workers : Owes(v, d)' = Owes(v, d) /\ At(v, "insert_row")' = At(v, "insert_row")
    <2> SUFFICES ASSUME NEW v \in Workers
                 PROVE  Owes(v, d)' = Owes(v, d) /\ At(v, "insert_row")' = At(v, "insert_row")
      OBVIOUS
    <2>1. CASE v = w
      BY <2>1 DEF Owes, At, OwingPcs
    <2>2. CASE v # w
      BY <2>2 DEF Owes, At, Stirs
    <2> QED  BY <2>1, <2>2
  <1> QED  BY <1>1, StaysOut

\* CREATE DATABASE and DROP DATABASE: the row of one database is owed now.
LEMMA TakesOn ==
    ASSUME SyncTypeInv, StrayInv, Strays, NEW w \in Handlers, NEW d \in Dbs, NEW e \in Dbs,
           CreateDatabase(w, e) \/ DeleteDatabase(w, e), d \notin astray'
    PROVE  Agrees(d)'
  <1>0. w \in Workers /\ WorkTyped
    BY TypeParts DEF Workers, SyncTypeInv
  <1>1. PICK pc \in OwingPcs : /\ work' = [work EXCEPT ![w] = [Idle EXCEPT !.pc = pc, !.db = e]]
                             /\ \/ pc = "insert_row" /\ databases' = databases \cup {e}
                                \/ pc = "delete_row" /\ databases' = databases \ {e}
    BY DEF CreateDatabase, DeleteDatabase, OwingPcs
  <1>2. work \in [Workers -> Work] /\ work[w].pc = "idle" /\ UNCHANGED rows
    BY <1>0 DEF WorkTyped, CreateDatabase, DeleteDatabase, MayStart, At
  <1>3. Stirs(w) /\ work'[w].pc = pc /\ work'[w].db = e
    BY <1>0, <1>1, <1>2 DEF Stirs, Idle
  <1>4. CASE d = e
    <2>1. Owes(w, d)'
      BY <1>1, <1>3, <1>4 DEF Owes, OwingPcs
    <2>2. ~ Crosses(d)
      BY DEF Strays
    <2>3. \A v \in Workers : Owes(v, d)' => v = w
      BY <1>0, <2>1, <2>2 DEF Crosses
    <2>4. At(w, "insert_row")' <=> d \in databases'
      BY <1>1, <1>3, <1>4 DEF At
    <2> QED  BY <1>0, <2>1, <2>3, <2>4 DEF Agrees, Owed
  <1>5. CASE d # e
    <2>1. ~ Owes(w, d)' /\ ~ Owes(w, d)
      BY <1>2, <1>3, <1>5 DEF Owes
    <2>2. \A v \in Workers \ {w} : /\ Owes(v, d)' = Owes(v, d)
                                   /\ At(v, "insert_row")' = At(v, "insert_row")
      BY <1>3 DEF Stirs, Owes, At
    <2>3. ~ Takes(d)
      BY <2>1, <2>2 DEF Takes, Owed
    <2>4. Agrees(d)
      BY <2>3 DEF StrayInv, Strays
    <2>5. d \in databases' <=> d \in databases
      BY <1>1, <1>5
    <2> QED  BY <1>2, <2>1, <2>2, <2>4, <2>5 DEF Agrees, Owed
  <1> QED  BY <1>4, <1>5

\* The statement on the row: the worker owes it no longer.  If it failed, the
\* row is astray.
LEMMA SettlesRow ==
    ASSUME SyncTypeInv, StrayInv, Strays, NEW w \in Workers, NEW d \in Dbs,
           InsertRow(w) \/ DeleteRow(w), d \notin astray'
    PROVE  Agrees(d)'
  <1>1. Stirs(w) /\ work'[w].pc = "query_acl" /\ UNCHANGED databases
    BY Primitives DEF InsertRow, DeleteRow
  <1>2. ~ Owes(w, d)'
    BY <1>1 DEF Owes
  <1>3. \A v \in Workers \ {w} : /\ Owes(v, d)' = Owes(v, d)
                                 /\ At(v, "insert_row")' = At(v, "insert_row")
    BY <1>1 DEF Stirs, Owes, At
  <1>4. ~ Takes(d)
    BY <1>2, <1>3 DEF Takes, Owed
  <1>5. Agrees(d)
    BY <1>4 DEF StrayInv, Strays
  <1>6. CASE Owes(w, d)
    <2>1. UNCHANGED budget
      BY <1>2, <1>6 DEF Strays, Forgets
    <2>2. ~ Spend("failures")
      BY <2>1, NothingSpent
    <2>3. \/ At(w, "insert_row") /\ d \in DOMAIN rows'
          \/ At(w, "delete_row") /\ d \notin DOMAIN rows'
      BY <1>6, <2>2 DEF InsertRow, DeleteRow, Owes
    <2>4. At(w, "insert_row") <=> d \in databases
      BY <1>5, <1>6 DEF Agrees
    <2>5. d \in DOMAIN rows' <=> d \in databases'
      BY <1>1, <2>3, <2>4 DEF At
    <2>6. \A v \in Workers : ~ Owes(v, d)'
      BY <1>2, <1>3, <1>5, <1>6 DEF Agrees
    <2> QED  BY <2>5, <2>6 DEF Agrees, Owed
  <1>7. CASE ~ Owes(w, d)
    <2>1. work[w].db # d
      BY <1>7 DEF Owes, InsertRow, DeleteRow, At
    <2>2. d \in DOMAIN rows' <=> d \in DOMAIN rows
      BY <2>1 DEF InsertRow, DeleteRow
    <2> QED  BY <1>1, <1>2, <1>3, <1>5, <1>7, <2>2 DEF Agrees, Owed
  <1> QED  BY <1>6, <1>7

\* A restore changes no other database than its own, which is astray if it does.
LEMMA RestoresBy ==
    ASSUME SyncTypeInv, StrayInv, Strays, NEW w \in Workers, NEW d \in Dbs, d \notin astray',
           (\E e \in Dbs : RestoreBackup(w, e)) \/ RecreateDatabase(w)
    PROVE  Agrees(d)'
  <1>0. WorkTyped /\ work \in [Workers -> Work]
    BY TypeParts DEF SyncTypeInv, WorkTyped
  <1>1. ~ Restores(d)
    BY DEF Strays
  <1>2. ASSUME NEW e \in Dbs, RestoreBackup(w, e)
        PROVE  /\ Stirs(w) /\ UNCHANGED rows
               /\ work[w].pc \notin OwingPcs /\ work'[w].pc \notin OwingPcs
               /\ d \in databases' <=> d \in databases
    <2>1. /\ work' = [work EXCEPT ![w] = [Idle EXCEPT !.pc = "recreate", !.db = e]]
          /\ work[w].pc = "idle" /\ UNCHANGED rows /\ databases' = databases \ {e}
      BY <1>2 DEF RestoreBackup, MayStart, At
    <2>2. Stirs(w) /\ work'[w].pc = "recreate" /\ work'[w].db = e
      BY <1>0, <2>1 DEF Stirs, Idle
    <2>3. d = e => databases' = databases
      BY <1>1, <2>2 DEF Restores, Recreates, At
    <2> QED  BY <2>1, <2>2, <2>3 DEF OwingPcs
  <1>3. ASSUME RecreateDatabase(w)
        PROVE  /\ Stirs(w) /\ UNCHANGED rows
               /\ work[w].pc \notin OwingPcs /\ work'[w].pc \notin OwingPcs
               /\ d \in databases' <=> d \in databases
    <2>1. /\ Stirs(w) /\ work'[w].pc = "idle" /\ work[w].pc = "recreate" /\ UNCHANGED rows
          /\ databases' \in {databases, databases \cup {work[w].db}}
      BY <1>3, Primitives DEF RecreateDatabase, At
    <2>2. d = work[w].db => databases' = databases
      BY <1>1, <2>1 DEF Restores, Recreates, At
    <2> QED  BY <2>1, <2>2 DEF OwingPcs
  <1> QED  BY <1>2, <1>3, PassesBy

\* A request that is killed before it has written a row leaves it astray.
LEMMA RestartForgets ==
    ASSUME SyncTypeInv, StrayInv, Strays, NEW d \in Dbs, RestartApp, d \notin astray'
    PROVE  Agrees(d)'
  <1>1. budget' # budget
    <2>1. Spend("restarts")
      BY DEF RestartApp
    <2> QED  BY <2>1, NothingSpent
  <1>2. \A w \in Workers : ~ Owes(w, d)'
    BY DEF RestartApp, Owes, Idle
  <1>3. \A w \in Workers : ~ Owes(w, d)
    BY <1>1, <1>2 DEF Strays, Forgets
  <1>4. ~ Takes(d)
    BY <1>2 DEF Takes, Owed
  <1>5. Agrees(d)
    BY <1>4 DEF StrayInv, Strays
  <1>6. UNCHANGED <<databases, rows>>
    BY DEF RestartApp, tables
  <1> QED  BY <1>2, <1>3, <1>5, <1>6 DEF Agrees, Owed

LEMMA StrayStep ==
    ASSUME SyncTypeInv, StrayInv, [StrayNext]_<<vars, astray>>
    PROVE  StrayInv'
  <1>1. CASE UNCHANGED <<vars, astray>>
    BY <1>1 DEF vars, StrayInv, Agrees, Owes, Owed, At
  <1>2. CASE StrayNext
    <2> SUFFICES ASSUME NEW d \in Dbs, d \notin astray' PROVE Agrees(d)'
      BY DEF StrayInv
    <2>0. Strays
      BY <1>2 DEF StrayNext
    <2>1. ASSUME NEW w \in Handlers, Begin(w) PROVE Agrees(d)'
      <3>0. w \in Workers
        BY DEF Workers
      <3>1. ASSUME NEW e \in Dbs, CreateDatabase(w, e) \/ DeleteDatabase(w, e)
            PROVE  Agrees(d)'
        BY <2>0, <3>1, TakesOn
      <3>2. ASSUME NEW e \in Dbs, NEW b \in BOOLEAN, TogglePgBouncerDatabase(w, e, b)
            PROVE  Agrees(d)'
        <4>1. /\ Stirs(w) /\ work'[w].pc = "query_acl" /\ work[w].pc = "idle"
              /\ UNCHANGED databases
          BY <3>0, <3>2, Primitives DEF TogglePgBouncerDatabase, MayStart, At
        <4>2. DOMAIN rows' = DOMAIN rows
          BY <3>2 DEF TogglePgBouncerDatabase
        <4> QED  BY <2>0, <3>0, <4>1, <4>2, PassesBy DEF OwingPcs
      <3>3. ASSUME NEW q \in Pools, UpdatePgBouncerConfig(w, q) PROVE Agrees(d)'
        <4>1. /\ Stirs(w) /\ work'[w].pc = "query_pool" /\ work[w].pc = "idle"
              /\ UNCHANGED <<databases, rows>>
          BY <3>0, <3>3, Primitives DEF UpdatePgBouncerConfig, MayStart, At
        <4> QED  BY <2>0, <3>0, <4>1, PassesBy DEF OwingPcs
      <3>4. ASSUME NEW e \in Dbs, RestoreBackup(w, e) PROVE Agrees(d)'
        BY <2>0, <3>0, <3>4, RestoresBy
      <3> QED  BY <2>1, <3>1, <3>2, <3>3, <3>4 DEF Begin
    <2>2. ASSUME NEW w \in Workers, InsertRow(w) \/ DeleteRow(w) PROVE Agrees(d)'
      BY <2>0, <2>2, SettlesRow
    <2>3. ASSUME NEW w \in Workers, RebuildStep(w) PROVE Agrees(d)'
      BY <2>0, <2>3, RebuildPasses, PassesBy DEF tables
    <2>4. CASE Tick
      <3>1. Ticker \in Workers
        BY DEF Workers
      <3>2. /\ Stirs(Ticker) /\ work'[Ticker].pc = "query_acl" /\ work[Ticker].pc = "idle"
            /\ UNCHANGED <<databases, rows>>
        BY <2>4, <3>1, Primitives DEF Tick, MayStart, At, tables
      <3> QED  BY <2>0, <3>1, <3>2, PassesBy DEF OwingPcs
    <2>5. CASE \/ \E a \in Acls : ManagedUsersChange(a)
               \/ StopPgBouncer \/ CopyBaseIni \/ LaunchPgBouncer
      <3>1. UNCHANGED <<work, databases, rows>>
        BY <2>5 DEF ManagedUsersChange, StopPgBouncer, CopyBaseIni, LaunchPgBouncer, tables
      <3> QED  BY <2>0, <3>1, StaysOut DEF Owes, At
    <2>6. CASE RestartApp
      BY <2>0, <2>6, RestartForgets
    <2>7. ASSUME NEW w \in Workers, RecreateDatabase(w) PROVE Agrees(d)'
      BY <2>0, <2>7, RestoresBy
    <2> QED  BY <1>2, <2>1, <2>2, <2>3, <2>4, <2>5, <2>6, <2>7, NextParts DEF StrayNext, Outside
  <1> QED  BY <1>1, <1>2

\* With any overlap, failure and restart, a database and its row disagree only
\* where a statement on the row failed or was never reached, two requests on the
\* same database overlapped, or a restore dropped or created it, and no request to
\* create or to delete it has begun by itself since.
THEOREM RowsAreTraced == StraySpec => []RowsTraced
  <1>1. StrayInit => SyncTypeInv /\ StrayInv
    <2> SUFFICES ASSUME StrayInit PROVE SyncTypeInv /\ StrayInv
      OBVIOUS
    <2>1. SyncTypeInv
      BY InitTyped DEF StrayInit
    <2>2. databases = {} /\ DOMAIN rows = {}
      BY DEF StrayInit, Init
    <2>3. \A w \in Workers : work[w].pc \notin OwingPcs
      BY DEF StrayInit, Init, Idle, OwingPcs
    <2> QED  BY <2>1, <2>2, <2>3 DEF StrayInv, Agrees, Owes, Owed, OwingPcs
  <1>2. SyncTypeInv /\ StrayInv /\ [StrayNext]_<<vars, astray>> => (SyncTypeInv /\ StrayInv)'
    <2> SUFFICES ASSUME SyncTypeInv, StrayInv, [StrayNext]_<<vars, astray>>
                 PROVE  SyncTypeInv' /\ StrayInv'
      OBVIOUS
    <2>1. [Next]_vars
      BY DEF StrayNext
    <2> QED  BY <2>1, SyncTypeStep, StrayStep
  <1>3. StrayInv => RowsTraced
    BY DEF StrayInv, Agrees, RowsTraced
  <1> QED  BY <1>1, <1>2, <1>3, PTL DEF StraySpec
=============================================================================
