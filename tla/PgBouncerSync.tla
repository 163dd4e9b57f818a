--------------------------- MODULE PgBouncerSync ---------------------------
(***************************************************************************)
(* How the configuration of PgBouncer follows the tables: the handlers     *)
(* that change pgbouncer_databases, managed_users and the pool settings    *)
(* (handler/pgbouncer, handler/databases), the rebuild they and a ticker   *)
(* run, the two files on the shared volume, and the container that copies  *)
(* its base pgbouncer.ini over the shared one whenever PgBouncer starts    *)
(* (scripts/pgbouncer-entrypoint.sh).  A restore (handler/backup)          *)
(* changes the databases of the server behind the back of all this.        *)
(*                                                                         *)
(* A rebuild reads a table, reads the file, writes the file and asks       *)
(* PgBouncer to reload, without a lock; os.WriteFile truncates the file    *)
(* and then writes it.  Each of these is a step, so that rebuilds started  *)
(* by different requests, the ticker and the entrypoint interleave as they *)
(* do in the code.                                                         *)
(*                                                                         *)
(* Data: what RebuildPgBouncerHBA reads from managed_users is one value of *)
(* Acls, the three pool settings one value of Pools.                       *)
(***************************************************************************)
EXTENDS Naturals

CONSTANTS
    Ticker,       \* the goroutine that rebuilds at startup and on each tick
    Handlers,     \* requests, and the goroutines they start
    Dbs,          \* names of databases
    Star,         \* the wildcard entry of the [databases] section
    Acls,         \* answers of the query for users and their allowed_ips
    Pools,        \* values of the pool settings
    BasePool,     \* the pool settings of the base pgbouncer.ini
    None,         \* no file, or no value
    Boot,         \* PgBouncer has been launched before the app: BOOLEAN
    Overlap,      \* rebuilds may run at the same time: BOOLEAN
    MaxChanges,   \* bound: changes of a table
    MaxRestarts,  \* bound: stops of the app and of PgBouncer
    MaxFailures   \* bound: queries, writes and reloads that fail

Workers == Handlers \cup {Ticker}

ASSUME SyncAssumption ==
    /\ Ticker \notin Handlers
    /\ BasePool \in Pools
    /\ None \notin Dbs \cup Acls \cup Pools
    /\ Star \notin Dbs
    /\ Boot \in BOOLEAN /\ Overlap \in BOOLEAN
    /\ {MaxChanges, MaxRestarts, MaxFailures} \subseteq Nat

VARIABLES
    databases,  \* databases of the server
    rows,       \* pgbouncer_databases: database_name -> allowed
    acl,        \* what the query on managed_users returns
    pool,       \* pgbouncer_* rows of system_config
    hba,        \* shared/pg_hba.conf
    ini,        \* shared/pgbouncer.ini
    bouncer,    \* the PgBouncer container: "down", "copied", "up"
    live,       \* the configuration PgBouncer runs with
    serving,    \* the app has finished its startup rebuild
    work,       \* what each worker is executing
    budget      \* what is left of the three bounds

vars == <<databases, rows, acl, pool, hba, ini, bouncer, live, serving, work,
          budget>>
tables == <<databases, rows, acl, pool>>
files == <<hba, ini>>
container == <<bouncer, live>>

-----------------------------------------------------------------------------
(* Files *)

\* pgbouncer.ini: its [databases] entries, the pool settings, and whether the
\* rest of the [pgbouncer] section is there (auth_type = hba and so on).
Ini == [dbs : SUBSET (Dbs \cup {Star}), pool : Pools \cup {None},
        rest : BOOLEAN]

ASSUME NoFileAssumption == None \notin Ini

BaseIni == [dbs |-> {Star}, pool |-> BasePool, rest |-> TRUE]

\* What a reader sees between the truncation and the write.
TornIni == [dbs |-> {}, pool |-> None, rest |-> FALSE]

TornHba == "torn"

\* Mutant of WithDatabases: entries are added and never removed.
WithMoreDatabases(f, D) == [f EXCEPT !.dbs = @ \cup D]

\* rebuildPgBouncerDatabases replaces the section, or appends it.
WithDatabases(f, D) == [f EXCEPT !.dbs = D]

\* rebuildPgBouncerSection replaces the lines of the three keys.  Without a
\* [pgbouncer] section they end up where PgBouncer does not look for them.
WithPool(f, p) == [f EXCEPT !.pool = IF f.rest THEN p ELSE None]

Allowed == {d \in DOMAIN rows : rows[d]}

\* The files as PgBouncer reads them when it starts or reloads.
Loaded == [hba |-> hba, dbs |-> ini.dbs, pool |-> ini.pool, rest |-> ini.rest]

-----------------------------------------------------------------------------
(* Workers *)

Pcs == {"idle", "insert_row", "delete_row", "recreate", "query_acl",
        "truncate_hba", "write_hba", "query_dbs", "read_ini", "query_pool",
        "read_section", "truncate_ini", "write_ini", "reload"}

Work == [pc : Pcs, db : Dbs \cup {None}, acl : Acls \cup {None},
         dbs : SUBSET Dbs, pool : Pools \cup {None}, ini : Ini \cup {None}]

Idle == [pc |-> "idle", db |-> None, acl |-> None, dbs |-> {},
         pool |-> None, ini |-> None]

TypeOK ==
    /\ databases \subseteq Dbs
    /\ DOMAIN rows \subseteq Dbs /\ rows \in [DOMAIN rows -> BOOLEAN]
    /\ acl \in Acls /\ pool \in Pools
    /\ hba \in Acls \cup {None, TornHba}
    /\ ini \in Ini \cup {None}
    /\ bouncer \in {"down", "copied", "up"}
    /\ live \in [hba : Acls \cup {None, TornHba}, dbs : SUBSET (Dbs \cup {Star}),
                 pool : Pools \cup {None}, rest : BOOLEAN]
    /\ serving \in BOOLEAN
    /\ work \in [Workers -> Work]
    /\ \A w \in Workers :
         /\ work[w].pc \in {"insert_row", "delete_row", "recreate"} => work[w].db # None
         /\ work[w].pc \in {"truncate_hba", "write_hba"} => work[w].acl # None
         /\ work[w].pc \in {"truncate_ini", "write_ini"} => work[w].ini # None
    /\ budget \in [changes : 0 .. MaxChanges, restarts : 0 .. MaxRestarts,
                   failures : 0 .. MaxFailures]

At(w, pc) == work[w].pc = pc

\* The local variables that are not read again are dropped.
Onward(w, pc) == [Idle EXCEPT !.pc = pc,
                    !.acl = IF pc = "write_hba" THEN work[w].acl ELSE None,
                    !.ini = IF pc = "write_ini" THEN work[w].ini ELSE None]

Goto(w, pc) == work' = [work EXCEPT ![w] = Onward(w, pc)]

Spend(what) == /\ budget[what] > 0
               /\ budget' = [budget EXCEPT ![what] = @ - 1]

\* A request reaches the server once startup is over.
MayStart(w) ==
    /\ serving
    /\ At(w, "idle")
    /\ Overlap \/ \A v \in Workers : At(v, "idle")

Idling == \A w \in Workers : At(w, "idle")

\* The end of a rebuild; the first one of the ticker ends the startup.
Done(w) ==
    /\ work' = [work EXCEPT ![w] = Idle]
    /\ serving' = (serving \/ w = Ticker)

-----------------------------------------------------------------------------
(* Requests and ticks *)

Tick ==
    /\ MayStart(Ticker)
    /\ Goto(Ticker, "query_acl")
    /\ UNCHANGED <<tables, files, container, serving, budget>>

\* The UPDATE of the row; a database without a row answers 404.
TogglePgBouncerDatabase(w, d, b) ==
    /\ MayStart(w)
    /\ d \in DOMAIN rows
    /\ Spend("changes")
    /\ rows' = [rows EXCEPT ![d] = b]
    /\ Goto(w, "query_acl")
    /\ UNCHANGED <<databases, acl, pool, files, container, serving>>

\* CREATE DATABASE, the answer to the client, then the row.
CreateDatabase(w, d) ==
    /\ MayStart(w)
    /\ d \notin databases
    /\ Spend("changes")
    /\ databases' = databases \cup {d}
    /\ work' = [work EXCEPT ![w] = [Idle EXCEPT !.pc = "insert_row", !.db = d]]
    /\ UNCHANGED <<rows, acl, pool, files, container, serving>>

\* ON CONFLICT DO NOTHING; the error of the INSERT is ignored.  The rebuild
\* is a goroutine of its own.
InsertRow(w) ==
    /\ At(w, "insert_row")
    /\ \/ /\ rows' = [d \in DOMAIN rows \cup {work[w].db} |->
                        IF d \in DOMAIN rows THEN rows[d] ELSE TRUE]
          /\ UNCHANGED budget
       \/ Spend("failures") /\ UNCHANGED rows
    /\ Goto(w, "query_acl")
    /\ UNCHANGED <<databases, acl, pool, files, container, serving>>

\* Mutant of DeleteDatabase: the row stays.
DeleteDatabaseOnly(w, d) ==
    /\ MayStart(w)
    /\ d \in databases
    /\ Spend("changes")
    /\ databases' = databases \ {d}
    /\ Goto(w, "query_acl")
    /\ UNCHANGED <<rows, acl, pool, files, container, serving>>

DeleteDatabase(w, d) ==
    /\ MayStart(w)
    /\ d \in databases
    /\ Spend("changes")
    /\ databases' = databases \ {d}
    /\ work' = [work EXCEPT ![w] = [Idle EXCEPT !.pc = "delete_row", !.db = d]]
    /\ UNCHANGED <<rows, acl, pool, files, container, serving>>

DeleteRow(w) ==
    /\ At(w, "delete_row")
    /\ \/ /\ rows' = [d \in DOMAIN rows \ {work[w].db} |-> rows[d]]
          /\ UNCHANGED budget
       \/ Spend("failures") /\ UNCHANGED rows
    /\ Goto(w, "query_acl")
    /\ UNCHANGED <<databases, acl, pool, files, container, serving>>

\* A restore with dropFirst drops the database, if it is there, and creates it.
\* Neither statement is followed by one on the row, or by a rebuild.
RestoreBackup(w, d) ==
    /\ MayStart(w)
    /\ Spend("changes")
    /\ databases' = databases \ {d}
    /\ work' = [work EXCEPT ![w] = [Idle EXCEPT !.pc = "recreate", !.db = d]]
    /\ UNCHANGED <<rows, acl, pool, files, container, serving>>

\* The CREATE fails if another request has created the database meanwhile, or
\* if this one is cancelled.  pg_restore, which follows, changes no list.
RecreateDatabase(w) ==
    /\ At(w, "recreate")
    /\ \/ databases' = databases \cup {work[w].db} /\ UNCHANGED budget
       \/ Spend("failures") /\ UNCHANGED databases
    /\ Done(w)
    /\ UNCHANGED <<rows, acl, pool, files, container>>

\* Creating, changing or deleting a PostgreSQL user changes managed_users.
\* main.go hands these handlers no callback: no rebuild follows.
ManagedUsersChange(a) ==
    /\ serving
    /\ a # acl
    /\ Spend("changes")
    /\ acl' = a
    /\ UNCHANGED <<databases, rows, pool, files, container, serving, work>>

\* Mutant of UpdatePgBouncerConfig: it runs the other rebuild.
UpdatePgBouncerConfigHba(w, p) ==
    /\ MayStart(w)
    /\ Spend("changes")
    /\ pool' = p
    /\ Goto(w, "query_acl")
    /\ UNCHANGED <<databases, rows, acl, files, container, serving>>

\* The upsert of the three settings.
UpdatePgBouncerConfig(w, p) ==
    /\ MayStart(w)
    /\ Spend("changes")
    /\ pool' = p
    /\ Goto(w, "query_pool")
    /\ UNCHANGED <<databases, rows, acl, files, container, serving>>

-----------------------------------------------------------------------------
(* RebuildPgBouncerHBA *)

Read(w, a) == work' = [work EXCEPT ![w].pc = "truncate_hba", ![w].acl = a]

\* Mutant of QueryAcl: a failing query is taken for an empty answer.
QueryAclUnchecked(w) ==
    /\ At(w, "query_acl")
    /\ \/ Read(w, acl) /\ UNCHANGED budget
       \/ Spend("failures") /\ Read(w, None)
    /\ UNCHANGED <<tables, files, container, serving>>

\* A connection that breaks while rows are read ends the loop like the last
\* row does: rows.Err is not asked, and what was read so far counts.
QueryAcl(w) ==
    /\ At(w, "query_acl")
    /\ \/ Read(w, acl) /\ UNCHANGED <<serving, budget>>
       \/ /\ Spend("failures")
          /\ \/ Done(w)
             \/ \E a \in Acls : Read(w, a) /\ UNCHANGED serving
    /\ UNCHANGED <<tables, files, container>>

TruncateHba(w) ==
    /\ At(w, "truncate_hba")
    /\ hba' = TornHba
    /\ Goto(w, "write_hba")
    /\ UNCHANGED <<tables, ini, container, serving, budget>>

\* A failing write leaves the truncated file and ends the rebuild.
WriteHba(w) ==
    /\ At(w, "write_hba")
    /\ \/ /\ hba' = work[w].acl
          /\ Goto(w, "query_dbs")
          /\ UNCHANGED <<serving, budget>>
       \/ Spend("failures") /\ Done(w) /\ UNCHANGED hba
    /\ UNCHANGED <<tables, ini, container>>

\* A failing query leaves the ini alone; the reload follows all the same.  A
\* query that breaks while its rows are read yields a part of them.
QueryDbs(w) ==
    /\ At(w, "query_dbs")
    /\ \/ \E D \in SUBSET Allowed :
            /\ work' = [work EXCEPT ![w].pc = "read_ini", ![w].dbs = D]
            /\ IF D = Allowed THEN UNCHANGED budget ELSE Spend("failures")
       \/ Spend("failures") /\ Goto(w, "reload")
    /\ UNCHANGED <<tables, files, container, serving>>

\* Without a file there is nothing to replace.
ReadIni(w) ==
    /\ At(w, "read_ini")
    /\ IF ini = None THEN Goto(w, "reload")
       ELSE work' = [work EXCEPT ![w].pc = "truncate_ini", ![w].dbs = {},
                       ![w].ini = WithDatabases(ini, work[w].dbs)]
    /\ UNCHANGED <<tables, files, container, serving, budget>>

-----------------------------------------------------------------------------
(* rebuildPgBouncerSection, only called by UpdatePgBouncerConfig *)

\* The query and the reload run in the context of the request: if that is
\* cancelled, both fail; if the query alone fails, the reload follows.  If it
\* breaks while its rows are read, the settings not yet read have the values
\* the map was made with: rows.Err is not asked here either.
QueryPool(w) ==
    /\ At(w, "query_pool")
    /\ \/ /\ \E p \in Pools :
               /\ work' = [work EXCEPT ![w].pc = "read_section", ![w].pool = p]
               /\ IF p = pool THEN UNCHANGED budget ELSE Spend("failures")
          /\ UNCHANGED serving
       \/ /\ Spend("failures")
          /\ \/ Done(w)
             \/ Goto(w, "reload") /\ UNCHANGED serving
    /\ UNCHANGED <<tables, files, container>>

ReadSection(w) ==
    /\ At(w, "read_section")
    /\ IF ini = None THEN Goto(w, "reload")
       ELSE work' = [work EXCEPT ![w].pc = "truncate_ini", ![w].pool = None,
                       ![w].ini = WithPool(ini, work[w].pool)]
    /\ UNCHANGED <<tables, files, container, serving, budget>>

-----------------------------------------------------------------------------
(* Shared ends of the two rebuilds *)

TruncateIni(w) ==
    /\ At(w, "truncate_ini")
    /\ ini' = TornIni
    /\ Goto(w, "write_ini")
    /\ UNCHANGED <<tables, hba, container, serving, budget>>

\* The reload follows a failing write too.
WriteIni(w) ==
    /\ At(w, "write_ini")
    /\ \/ ini' = work[w].ini /\ UNCHANGED budget
       \/ Spend("failures") /\ UNCHANGED ini
    /\ Goto(w, "reload")
    /\ UNCHANGED <<tables, hba, container, serving>>

\* The admin console listens, and lets pgbouncer_auth in, by the settings of the
\* [pgbouncer] section that PgBouncer has loaded.
Reachable == bouncer = "up" /\ live.rest

\* RELOAD through the admin console; a failure is logged and forgotten.
ReloadPgBouncer(w) ==
    /\ At(w, "reload")
    /\ \/ Reachable /\ live' = Loaded /\ UNCHANGED budget
       \/ ~ Reachable /\ UNCHANGED <<live, budget>>
       \/ Spend("failures") /\ UNCHANGED live
    /\ Done(w)
    /\ UNCHANGED <<tables, files, bouncer>>

-----------------------------------------------------------------------------
(* Containers *)

\* The watcher finds the restart signal, or PgBouncer or its container stops.
StopPgBouncer ==
    /\ bouncer = "up"
    /\ Spend("restarts")
    /\ bouncer' = "down"
    /\ UNCHANGED <<tables, files, live, serving, work>>

\* start_pgbouncer: cp of the base file over the shared one, then the launch, by
\* the watcher, or when somebody starts the container again.
CopyBaseIni ==
    /\ bouncer = "down"
    /\ ini' = BaseIni
    /\ bouncer' = "copied"
    /\ UNCHANGED <<tables, hba, live, serving, work, budget>>

LaunchPgBouncer ==
    /\ bouncer = "copied"
    /\ live' = Loaded
    /\ bouncer' = "up"
    /\ UNCHANGED <<tables, files, serving, work, budget>>

\* The app stops where it is and, started again, begins with a rebuild.
RestartApp ==
    /\ Spend("restarts")
    /\ serving' = FALSE
    /\ work' = [w \in Workers |->
                  IF w = Ticker THEN [Idle EXCEPT !.pc = "query_acl"] ELSE Idle]
    /\ UNCHANGED <<tables, files, container>>

-----------------------------------------------------------------------------
Init ==
    /\ databases = {} /\ rows = [d \in {} |-> TRUE]
    /\ acl \in Acls /\ pool = BasePool
    /\ hba = None
    /\ ini = IF Boot THEN BaseIni ELSE None
    /\ bouncer = IF Boot THEN "up" ELSE "down"
    /\ live = [hba |-> None, dbs |-> {Star}, pool |-> BasePool, rest |-> TRUE]
    /\ serving = FALSE
    /\ work = [w \in Workers |->
                 IF w = Ticker THEN [Idle EXCEPT !.pc = "query_acl"] ELSE Idle]
    /\ budget = [changes |-> MaxChanges, restarts |-> MaxRestarts,
                 failures |-> MaxFailures]

Step(w) == \/ InsertRow(w) \/ DeleteRow(w) \/ RecreateDatabase(w)
           \/ QueryAcl(w) \/ TruncateHba(w) \/ WriteHba(w)
           \/ QueryDbs(w) \/ ReadIni(w)
           \/ QueryPool(w) \/ ReadSection(w)
           \/ TruncateIni(w) \/ WriteIni(w) \/ ReloadPgBouncer(w)

Begin(w) == \/ \E d \in Dbs : \/ CreateDatabase(w, d) \/ DeleteDatabase(w, d)
                              \/ RestoreBackup(w, d)
                              \/ \E b \in BOOLEAN : TogglePgBouncerDatabase(w, d, b)
            \/ \E p \in Pools : UpdatePgBouncerConfig(w, p)

Next == \/ Tick
        \/ \E w \in Handlers : Begin(w)
        \/ \E w \in Workers : Step(w)
        \/ \E a \in Acls : ManagedUsersChange(a)
        \/ StopPgBouncer \/ CopyBaseIni \/ LaunchPgBouncer
        \/ RestartApp

Spec == Init /\ [][Next]_vars

\* Go runs every goroutine that can run, and the ticker fires every five minutes.
\* Nothing makes a client send a request, and nothing starts a PgBouncer that has
\* stopped: docker-compose.yml has no restart policy, and the watcher only acts
\* on the restart signal.
Fairness == /\ \A w \in Workers : WF_vars(Step(w))
            /\ WF_vars(Tick)

FairSpec == Spec /\ Fairness

-----------------------------------------------------------------------------
(* Properties *)

\* Once the tables stay as they are, a PgBouncer that stays up and can be reached
\* ends up with the allow list of the users and with the allowed databases, and no
\* others, for good: stale writes of overlapping rebuilds, failed reloads, torn
\* files, the wildcard of a fresh container and a crash of the app are all healed
\* by a later tick.  Nothing heals a PgBouncer that has stopped, or one that has
\* loaded a file without its [pgbouncer] section, until it is started again.
AccessConverges ==
    <>[] Reachable => <>[](live.hba = acl /\ live.dbs = Allowed)

\* When nothing is being rebuilt, PgBouncer runs with the allowed databases.
AccessInSync == serving /\ bouncer = "up" /\ Idling => live.dbs = Allowed

\* When nothing is being rebuilt, PgBouncer runs with the stored settings.
PoolInSync == bouncer = "up" /\ Idling => live.pool = pool

\* When nothing is being rebuilt, pgbouncer.ini has the [pgbouncer] section of
\* the base file: auth_type = hba, the HBA file and the pool limits.  A rebuild
\* that reads the file between the truncation and the write of another one
\* writes it back without that section.
SectionKept == Idling /\ ini # None => ini.rest

\* When nothing is being rebuilt, the HBA rules are those of the users: every
\* change of the users is followed by a rebuild.
HbaInSync == serving /\ Idling => hba = acl
=============================================================================
