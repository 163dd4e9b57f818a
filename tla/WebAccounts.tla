---------------------------- MODULE WebAccounts ----------------------------
(***************************************************************************)
(* The accounts of the management interface: the tables auth_users,        *)
(* sessions, dev_databases and the setup_completed flag, the HTTP handlers *)
(* that change them (handler/auth), the session check in front of them     *)
(* (internal/auth) and the admin command line tool (scripts/admin.py),     *)
(* which works on the same tables from another process.                    *)
(*                                                                         *)
(* No handler opens a transaction and none takes a lock: every statement   *)
(* commits by itself.  A request is therefore a process whose steps are    *)
(* its SQL statements, and the statements of different requests            *)
(* interleave freely.  A statement is atomic except the two that carry an  *)
(* uncorrelated sub-select (the last-admin guards): under READ COMMITTED   *)
(* the count is evaluated on the statement's snapshot, and the row is      *)
(* locked and re-read afterwards.  These are a snapshot step and a write   *)
(* step.                                                                   *)
(*                                                                         *)
(* Tables are functions from the primary key to the other columns; the     *)
(* domain is the set of rows.                                              *)
(***************************************************************************)
EXTENDS Naturals

CONSTANTS
    Procs,      \* requests and CLI sessions that may be in flight at once
    Ids,        \* the values of the SERIAL column auth_users.id (a bound)
    Names,      \* user names
    Hashes,     \* bcrypt hashes
    Tokens,     \* session tokens (a bound)
    Dbs,        \* existing databases that are not protected
    None,       \* no value
    Ops,        \* the operations clients use in an instance
    Apart,      \* pairs of operations that clients never overlap
    Faults      \* "cancel": a request's context may be cancelled at any
                \*   statement; "stmt": a statement whose error the code
                \*   ignores may fail while later ones succeed

Roles == {"admin", "dev", "viewer"}

CliOps == {"cli_create", "cli_delete", "cli_reset", "cli_role"}

\* The account routes behind the admin gate.
ManageOps == {"create", "update", "delete", "reset"}

AllOps == {"setup", "login", "logout", "password"} \cup ManageOps \cup CliOps

\* Operations that may take the admin role away from an account.
Removers == {"update", "delete", "cli_delete", "cli_role"}

\* Operations that write password_hash of an existing account.
PasswordOps == {"password", "reset", "cli_reset"}

ASSUME NoneAssumption == None \notin Ids \cup Names \cup Hashes \cup Tokens
ASSUME OpsAssumption == /\ Ops \subseteq AllOps
                        /\ Apart \subseteq AllOps \X AllOps
                        /\ Faults \subseteq {"cancel", "stmt"}

VARIABLES
    users,          \* auth_users: id -> [name, role, hash]
    used,           \* ids the sequence has handed out
    sessions,       \* sessions: token -> [user, hash, expired]; hash is the
                    \* password hash that the login verified (history)
    devDbs,         \* dev_databases: set of <<auth_user_id, database_name>>
    setupCompleted, \* system_config row setup_completed = 'true'
    wizard,         \* ids of the accounts Setup has created (history)
    req             \* the request each process is executing

tables == <<users, used, sessions, devDbs, setupCompleted, wizard>>
vars == <<users, used, sessions, devDbs, setupCompleted, wizard, req>>

\* CHECK (role IN (...)) bounds the role.
UserRow == [name : Names, role : Roles, hash : Hashes]

SessionRow == [user : Ids, hash : Hashes, expired : BOOLEAN]

Pcs == {"idle", "setup_count", "setup_flag", "insert_user", "login_insert",
        "logout", "check_password", "check_name", "create_resolve",
        "create_assign", "resolve", "update_snapshot", "update_guarded",
        "write_role", "clear_dev", "assign_dev", "delete_snapshot",
        "delete_guarded", "write_hash", "sessions_then_delete",
        "sessions_then_done", "delete_row", "cli_delete_role",
        "cli_role_count"}

Request == [pc : Pcs, op : AllOps \cup {"none"},
            actor  : Ids \cup {None},       \* SessionUser.ID of the context
            token  : Tokens \cup {None},    \* the session_id cookie
            target : Names \cup {None},     \* username in path, body or prompt
            role   : Roles \cup {"none"},   \* requested role
            dbs    : SUBSET Dbs,            \* databases still to assign
            tid    : Ids \cup {None},       \* id resolved from the username
            hash   : Hashes \cup {None},    \* hash Login has verified
            several : BOOLEAN]              \* CLI: admin_count > 1

Idle == [pc |-> "idle", op |-> "none", actor |-> None, token |-> None,
         target |-> None, role |-> "none", dbs |-> {}, tid |-> None,
         hash |-> None, several |-> FALSE]

TypeOK ==
    /\ DOMAIN users \subseteq Ids
    /\ users \in [DOMAIN users -> UserRow]
    /\ used \subseteq Ids
    /\ DOMAIN sessions \subseteq Tokens
    /\ sessions \in [DOMAIN sessions -> SessionRow]
    /\ devDbs \subseteq Ids \X Dbs
    /\ setupCompleted \in BOOLEAN
    /\ wizard \subseteq Ids
    /\ req \in [Procs -> Request]

-----------------------------------------------------------------------------
(* Queries and statements *)

\* SELECT ... FROM auth_users WHERE username = n
Named(n) == {i \in DOMAIN users : users[i].name = n}

Admins == {i \in DOMAIN users : users[i].role = "admin"}

\* Mutant of MoreThanOneAdmin: >= 1 for > 1.
AnyAdmin == Admins # {}

\* (SELECT COUNT(*) FROM auth_users WHERE role = 'admin') > 1
MoreThanOneAdmin == \E i, j \in Admins : i # j

\* The rows the WHERE clause of p's statements selects: the web handlers go
\* by the id they have resolved, the CLI by the username it was given.
Rows(p) == IF req[p].op \in CliOps
           THEN Named(req[p].target)
           ELSE {req[p].tid} \cap DOMAIN users

\* INSERT INTO auth_users
InsertRow(i, n, r, h) ==
    /\ users' = [k \in DOMAIN users \cup {i} |->
                    IF k = i THEN [name |-> n, role |-> r, hash |-> h]
                             ELSE users[k]]
    /\ used' = used \cup {i}

\* UPDATE auth_users SET role = r for the rows in S
SetRole(S, r) ==
    users' = [k \in DOMAIN users |->
                IF k \in S THEN [users[k] EXCEPT !.role = r] ELSE users[k]]

\* UPDATE auth_users SET password_hash = h for the rows in S
SetHash(S, h) ==
    users' = [k \in DOMAIN users |->
                IF k \in S THEN [users[k] EXCEPT !.hash = h] ELSE users[k]]

\* Mutant of DeleteSessionsOf: only sessions that have expired go.
DeleteExpiredOf(S) ==
    sessions' = [t \in {u \in DOMAIN sessions :
                           sessions[u].user \in S => ~sessions[u].expired}
                    |-> sessions[t]]

\* DELETE FROM sessions of the accounts in S
DeleteSessionsOf(S) ==
    sessions' = [t \in {u \in DOMAIN sessions : sessions[u].user \notin S}
                    |-> sessions[t]]

\* Mutant of DeleteRows: no ON DELETE CASCADE.
DeleteRowsOnly(S) ==
    /\ users' = [k \in DOMAIN users \ S |-> users[k]]
    /\ UNCHANGED <<sessions, devDbs>>

\* DELETE FROM auth_users of the rows in S, with the two ON DELETE CASCADE
DeleteRows(S) ==
    /\ users' = [k \in DOMAIN users \ S |-> users[k]]
    /\ DeleteSessionsOf(S)
    /\ devDbs' = {r \in devDbs : r[1] \notin S}

-----------------------------------------------------------------------------
(* Control of a request *)

MayStart(p, op) ==
    /\ op \in Ops
    /\ req[p].pc = "idle"
    /\ \A q \in Procs : <<op, req[q].op>> \notin Apart

Goto(p, pc) == req' = [req EXCEPT ![p].pc = pc]

Done(p) == req' = [req EXCEPT ![p] = Idle]

\* The username of the request has been resolved to the id i.
Resolved(p, i, pc) == req' = [req EXCEPT ![p].pc = pc, ![p].tid = i]

\* Process p starts on the request r.
Accept(p, r) == req' = [req EXCEPT ![p] = r]

\* AuthMiddleware and ValidateSession: the cookie names a session that has
\* not expired.  The role is the one the account has now.
Authenticated(t) == t \in DOMAIN sessions /\ ~sessions[t].expired

Actor(t) == sessions[t].user

\* The gate of the dispatcher in front of the account routes.
RequireAdmin(t) == users[Actor(t)].role = "admin"

-----------------------------------------------------------------------------
(* Setup wizard *)

SetupRequest(n) == [Idle EXCEPT !.pc = "setup_count", !.op = "setup",
                      !.target = n, !.role = "admin"]

\* A failing SELECT leaves completed = FALSE, as if the row were missing.
SetupStart(p, n) ==
    /\ MayStart(p, "setup")
    /\ ~setupCompleted \/ "stmt" \in Faults
    /\ Accept(p, SetupRequest(n))
    /\ UNCHANGED tables

\* Mutant of SetupCount: the flag alone decides.
SetupUncounted(p) ==
    /\ req[p].pc = "setup_count"
    /\ Goto(p, "insert_user")
    /\ UNCHANGED tables

\* A failing SELECT leaves count = 0.
SetupCount(p) ==
    /\ req[p].pc = "setup_count"
    /\ \/ DOMAIN users = {} /\ Goto(p, "insert_user")
       \/ DOMAIN users # {} /\ "stmt" \in Faults /\ Goto(p, "insert_user")
       \/ DOMAIN users # {} /\ Done(p)
    /\ UNCHANGED tables

\* Mutant of RejectsInsert: no constraint, the earlier SELECT decides.
AcceptsDuplicate(n) == used = Ids

\* The UNIQUE constraint on username; the sequence is bounded by Ids.
RejectsInsert(n) == Named(n) # {} \/ used = Ids

\* INSERT INTO auth_users of Setup, CreateAuthUser and the CLI.
InsertAuthUser(p) ==
    /\ req[p].pc = "insert_user"
    /\ IF RejectsInsert(req[p].target)
       THEN Done(p) /\ UNCHANGED tables
       ELSE \E i \in Ids \ used, h \in Hashes :
              /\ InsertRow(i, req[p].target, req[p].role, h)
              /\ wizard' = IF req[p].op = "setup" THEN wizard \cup {i}
                                                  ELSE wizard
              /\ CASE req[p].op = "setup" -> Goto(p, "setup_flag")
                   [] req[p].op = "create" /\ req[p].role = "dev"
                        -> Goto(p, "create_resolve")
                   [] OTHER -> Done(p)
              /\ UNCHANGED <<sessions, devDbs, setupCompleted>>

SetupFlag(p) ==
    /\ req[p].pc = "setup_flag"
    /\ setupCompleted' = TRUE
    /\ Done(p)
    /\ UNCHANGED <<users, used, sessions, devDbs, wizard>>

-----------------------------------------------------------------------------
(* Login, logout, own password *)

LoginRequest(i, h) == [Idle EXCEPT !.pc = "login_insert", !.op = "login",
                         !.tid = i, !.hash = h]

\* The row is read and the submitted password matches the hash read.
LoginStart(p, n) ==
    /\ MayStart(p, "login")
    /\ \E i \in Named(n) :
         Accept(p, LoginRequest(i, users[i].hash))
    /\ UNCHANGED tables

\* Mutant of LoginInsert: no foreign key on the account.
LoginInsertUnchecked(p) ==
    /\ req[p].pc = "login_insert"
    /\ \/ \E t \in Tokens \ DOMAIN sessions :
            sessions' = [u \in DOMAIN sessions \cup {t} |->
                           IF u = t THEN [user |-> req[p].tid,
                                          hash |-> req[p].hash,
                                          expired |-> FALSE]
                                    ELSE sessions[u]]
       \/ DOMAIN sessions = Tokens /\ UNCHANGED sessions
    /\ Done(p)
    /\ UNCHANGED <<users, used, devDbs, setupCompleted, wizard>>

\* CreateSession; the foreign key rejects the row of a deleted account.
LoginInsert(p) ==
    /\ req[p].pc = "login_insert"
    /\ \/ /\ req[p].tid \in DOMAIN users
          /\ \E t \in Tokens \ DOMAIN sessions :
               sessions' = [u \in DOMAIN sessions \cup {t} |->
                              IF u = t THEN [user |-> req[p].tid,
                                             hash |-> req[p].hash,
                                             expired |-> FALSE]
                                       ELSE sessions[u]]
       \/ /\ req[p].tid \notin DOMAIN users \/ DOMAIN sessions = Tokens
          /\ UNCHANGED sessions
    /\ Done(p)
    /\ UNCHANGED <<users, used, devDbs, setupCompleted, wizard>>

LogoutRequest(a, t) == [Idle EXCEPT !.pc = "logout", !.op = "logout",
                          !.actor = a, !.token = t]

PasswordRequest(a) == [Idle EXCEPT !.pc = "check_password", !.op = "password",
                         !.actor = a, !.tid = a]

\* The routes every role may use.
UserRequest(p, t, op) ==
    /\ op \in {"logout", "password"}
    /\ MayStart(p, op)
    /\ Authenticated(t)
    /\ Accept(p, IF op = "logout" THEN LogoutRequest(Actor(t), t)
                                  ELSE PasswordRequest(Actor(t)))
    /\ UNCHANGED tables

Logout(p) ==
    /\ req[p].pc = "logout"
    /\ sessions' = [t \in DOMAIN sessions \ {req[p].token} |-> sessions[t]]
    /\ Done(p)
    /\ UNCHANGED <<users, used, devDbs, setupCompleted, wizard>>

\* ChangePassword reads the hash; current_password matches it or not.
ChangePasswordCheck(p) ==
    /\ req[p].pc = "check_password"
    /\ \/ req[p].tid \in DOMAIN users /\ Goto(p, "write_hash")
       \/ Done(p)
    /\ UNCHANGED tables

\* The UPDATE of ChangePassword, ResetAuthUserPassword and the CLI.  bcrypt
\* salts: the new hash differs from the old one.  No row is no error.
WriteHash(p) ==
    /\ req[p].pc = "write_hash"
    /\ \E h \in Hashes :
         /\ \A i \in Rows(p) : users[i].hash # h
         /\ SetHash(Rows(p), h)
    /\ Goto(p, "sessions_then_done")
    /\ UNCHANGED <<used, sessions, devDbs, setupCompleted, wizard>>

\* DeleteUserSessions, or the CLI's DELETE FROM sessions.
DropSessions(p) ==
    /\ req[p].pc \in {"sessions_then_done", "sessions_then_delete"}
    /\ DeleteSessionsOf(IF req[p].op \in CliOps THEN Rows(p)
                                                ELSE {req[p].tid})
    /\ IF req[p].pc = "sessions_then_done" THEN Done(p)
                                           ELSE Goto(p, "delete_row")
    /\ UNCHANGED <<users, used, devDbs, setupCompleted, wizard>>

-----------------------------------------------------------------------------
(* Account administration over HTTP *)

ManageRequest(op, a, n, r, D) ==
    [Idle EXCEPT !.pc = IF op = "create" THEN "check_name" ELSE "resolve",
       !.op = op, !.actor = a, !.target = n, !.role = r, !.dbs = D]

\* Mutant of AdminRequest: an admin may name the own account.
AdminRequestOnSelf(p, t, op, n, r, D) ==
    /\ op \in ManageOps
    /\ MayStart(p, op)
    /\ Authenticated(t)
    /\ RequireAdmin(t)
    /\ (op \in {"create", "update"}) = (r \in Roles)
    /\ (r = "dev") = (D # {})
    /\ Accept(p, ManageRequest(op, Actor(t), n, r, D))
    /\ UNCHANGED tables

\* Mutant of AdminRequest: the role in the body is validated neither here nor
\* by a CHECK constraint.
AdminRequestAnyRole(p, t, op, n, r, D) ==
    /\ op \in ManageOps
    /\ MayStart(p, op)
    /\ Authenticated(t)
    /\ RequireAdmin(t)
    /\ op \in {"update", "delete"} => users[Actor(t)].name # n
    /\ (r = "dev") = (D # {})
    /\ Accept(p, ManageRequest(op, Actor(t), n, r, D))
    /\ UNCHANGED tables

\* The checks of the handlers that need no table: an admin may not change or
\* delete the own account, the role is valid, a developer gets databases.
AdminRequest(p, t, op, n, r, D) ==
    /\ op \in ManageOps
    /\ MayStart(p, op)
    /\ Authenticated(t)
    /\ RequireAdmin(t)
    /\ op \in {"update", "delete"} => users[Actor(t)].name # n
    /\ (op \in {"create", "update"}) = (r \in Roles)
    /\ (r = "dev") = (D # {})
    /\ Accept(p, ManageRequest(op, Actor(t), n, r, D))
    /\ UNCHANGED tables

CreateCheck(p) ==
    /\ req[p].pc = "check_name"
    /\ IF Named(req[p].target) # {} THEN Done(p) ELSE Goto(p, "insert_user")
    /\ UNCHANGED tables

\* The id is looked up again by name.
CreateResolve(p) ==
    /\ req[p].pc = "create_resolve"
    /\ \/ \E i \in Named(req[p].target) :
            Resolved(p, i, "create_assign")
       \/ Named(req[p].target) = {} /\ Done(p)
    /\ UNCHANGED tables

\* One INSERT; the first that fails (primary or foreign key) ends the request.
CreateAssign(p) ==
    /\ req[p].pc = "create_assign"
    /\ \E d \in req[p].dbs :
         IF req[p].tid \in DOMAIN users /\ <<req[p].tid, d>> \notin devDbs
         THEN /\ devDbs' = devDbs \cup {<<req[p].tid, d>>}
              /\ IF req[p].dbs = {d} THEN Done(p)
                 ELSE req' = [req EXCEPT ![p].dbs = @ \ {d}]
         ELSE Done(p) /\ UNCHANGED devDbs
    /\ UNCHANGED <<users, used, sessions, setupCompleted, wizard>>

\* SELECT id, role of UpdateAuthUser and the choice of its UPDATE.
UpdateResolve(p) ==
    /\ req[p].pc = "resolve" /\ req[p].op = "update"
    /\ \/ \E i \in Named(req[p].target) :
            Resolved(p, i, IF users[i].role = "admin" /\ req[p].role # "admin"
                           THEN "update_snapshot" ELSE "write_role")
       \/ Named(req[p].target) = {} /\ Done(p)
    /\ UNCHANGED tables

\* The guarded UPDATE on its snapshot: no row qualifies for the last admin.
UpdateSnapshot(p) ==
    /\ req[p].pc = "update_snapshot"
    /\ IF req[p].tid \in DOMAIN users /\ MoreThanOneAdmin
       THEN Goto(p, "update_guarded") ELSE Done(p)
    /\ UNCHANGED tables

\* The guarded UPDATE on the locked row, which may be gone meanwhile.
UpdateGuarded(p) ==
    /\ req[p].pc = "update_guarded"
    /\ SetRole(Rows(p), req[p].role)
    /\ IF Rows(p) # {} THEN Goto(p, "clear_dev") ELSE Done(p)
    /\ UNCHANGED <<used, sessions, devDbs, setupCompleted, wizard>>

\* The unconditional UPDATE of the role, over HTTP or from the CLI.
WriteRole(p) ==
    /\ req[p].pc = "write_role"
    /\ SetRole(Rows(p), req[p].role)
    /\ Goto(p, IF req[p].op = "update" THEN "clear_dev"
                                       ELSE "sessions_then_done")
    /\ UNCHANGED <<used, sessions, devDbs, setupCompleted, wizard>>

\* Mutant of ClearDev: assignments are cleared only to be replaced.
ClearDevForDev(p) ==
    /\ req[p].pc = "clear_dev"
    /\ devDbs' = {r \in devDbs : req[p].role = "dev" => r[1] # req[p].tid}
    /\ IF req[p].role = "dev" THEN Goto(p, "assign_dev") ELSE Done(p)
    /\ UNCHANGED <<users, used, sessions, setupCompleted, wizard>>

ClearDev(p) ==
    /\ req[p].pc = "clear_dev"
    /\ devDbs' = {r \in devDbs : r[1] # req[p].tid}
    /\ IF req[p].role = "dev" THEN Goto(p, "assign_dev") ELSE Done(p)
    /\ UNCHANGED <<users, used, sessions, setupCompleted, wizard>>

\* INSERT ... ON CONFLICT DO NOTHING; a foreign key error is ignored.
AssignDev(p) ==
    /\ req[p].pc = "assign_dev"
    /\ \E d \in req[p].dbs :
         /\ devDbs' = devDbs \cup (Rows(p) \X {d})
         /\ IF req[p].dbs = {d} THEN Done(p)
            ELSE req' = [req EXCEPT ![p].dbs = @ \ {d}]
    /\ UNCHANGED <<users, used, sessions, setupCompleted, wizard>>

DeleteResolve(p) ==
    /\ req[p].pc = "resolve" /\ req[p].op = "delete"
    /\ \/ \E i \in Named(req[p].target) :
            Resolved(p, i, IF users[i].role = "admin" THEN "delete_snapshot"
                                                 ELSE "sessions_then_delete")
       \/ Named(req[p].target) = {} /\ Done(p)
    /\ UNCHANGED tables

DeleteSnapshot(p) ==
    /\ req[p].pc = "delete_snapshot"
    /\ IF req[p].tid \in Admins /\ MoreThanOneAdmin
       THEN Goto(p, "delete_guarded") ELSE Done(p)
    /\ UNCHANGED tables

\* role = 'admin' is evaluated again on the locked row, the count is not.
DeleteGuarded(p) ==
    /\ req[p].pc = "delete_guarded"
    /\ DeleteRows(Rows(p) \cap Admins)
    /\ IF Rows(p) \cap Admins # {} THEN Goto(p, "sessions_then_done")
                                   ELSE Done(p)
    /\ UNCHANGED <<used, setupCompleted, wizard>>

\* The last statement of deleting a non-admin, and of the CLI's delete.
DeleteRow(p) ==
    /\ req[p].pc = "delete_row"
    /\ DeleteRows(Rows(p))
    /\ Done(p)
    /\ UNCHANGED <<used, setupCompleted, wizard>>

ResetResolve(p) ==
    /\ req[p].pc = "resolve" /\ req[p].op = "reset"
    /\ \/ \E i \in Named(req[p].target) :
            Resolved(p, i, "write_hash")
       \/ Named(req[p].target) = {} /\ Done(p)
    /\ UNCHANGED tables

-----------------------------------------------------------------------------
(* scripts/admin.py *)

CliRequest(op, pc, n, r, several) ==
    [Idle EXCEPT !.pc = pc, !.op = op, !.target = n, !.role = r,
       !.several = several]

CliCreate(p, n, r) ==
    /\ MayStart(p, "cli_create")
    /\ Named(n) = {}
    /\ Accept(p, CliRequest("cli_create", "insert_user", n, r, FALSE))
    /\ UNCHANGED tables

\* The count of admins is read first, the role of the account second.
CliDeleteCount(p, n) ==
    /\ MayStart(p, "cli_delete")
    /\ Accept(p, CliRequest("cli_delete", "cli_delete_role", n, "none",
                           MoreThanOneAdmin))
    /\ UNCHANGED tables

CliDeleteRole(p) ==
    /\ req[p].pc = "cli_delete_role"
    /\ IF Rows(p) # {} /\ (Rows(p) \cap Admins # {} => req[p].several)
       THEN Goto(p, "sessions_then_delete") ELSE Done(p)
    /\ UNCHANGED tables

CliReset(p, n) ==
    /\ MayStart(p, "cli_reset")
    /\ Named(n) # {}
    /\ Accept(p, CliRequest("cli_reset", "write_hash", n, "none", FALSE))
    /\ UNCHANGED tables

CliRole(p, n, r) ==
    /\ MayStart(p, "cli_role")
    /\ \E i \in Named(n) :
         /\ users[i].role # r
         /\ Accept(p, CliRequest("cli_role",
                        IF users[i].role = "admin" THEN "cli_role_count"
                                                   ELSE "write_role",
                        n, r, FALSE))
    /\ UNCHANGED tables

CliRoleCount(p) ==
    /\ req[p].pc = "cli_role_count"
    /\ IF MoreThanOneAdmin THEN Goto(p, "write_role") ELSE Done(p)
    /\ UNCHANGED tables

-----------------------------------------------------------------------------
(* Time and failures *)

\* 24 hours pass; the row stays.
ExpireSession(t) ==
    /\ Authenticated(t)
    /\ sessions' = [sessions EXCEPT ![t].expired = TRUE]
    /\ UNCHANGED <<users, used, devDbs, setupCompleted, wizard, req>>

\* The client goes away, the app stops, or the operator answers "no": the
\* statements that have not run yet never do.
Cancel(p) ==
    /\ "cancel" \in Faults
    /\ req[p].pc # "idle"
    /\ Done(p)
    /\ UNCHANGED tables

\* A statement whose error the web handlers ignore fails by itself.
SkipStatement(p) ==
    /\ "stmt" \in Faults
    /\ req[p].op \notin CliOps
    /\ \/ /\ req[p].pc \in {"setup_flag", "logout", "sessions_then_done"}
          /\ Done(p)
       \/ req[p].pc = "sessions_then_delete" /\ Goto(p, "delete_row")
       \/ /\ req[p].pc = "clear_dev"
          /\ IF req[p].role = "dev" THEN Goto(p, "assign_dev") ELSE Done(p)
       \/ /\ req[p].pc = "assign_dev"
          /\ \E d \in req[p].dbs :
               IF req[p].dbs = {d} THEN Done(p)
               ELSE req' = [req EXCEPT ![p].dbs = @ \ {d}]
    /\ UNCHANGED tables

-----------------------------------------------------------------------------
Init ==
    /\ users = [i \in {} |-> None]
    /\ used = {}
    /\ sessions = [t \in {} |-> None]
    /\ devDbs = {}
    /\ setupCompleted = FALSE
    /\ wizard = {}
    /\ req = [p \in Procs |-> Idle]

Begin(p) ==
    \/ \E n \in Names : SetupStart(p, n) \/ LoginStart(p, n)
    \/ \E t \in Tokens, op \in {"logout", "password"} : UserRequest(p, t, op)
    \/ \E t \in Tokens, op \in ManageOps, n \in Names,
          r \in Roles \cup {"none"}, D \in SUBSET Dbs :
            AdminRequest(p, t, op, n, r, D)
    \/ \E n \in Names, r \in Roles : CliCreate(p, n, r) \/ CliRole(p, n, r)
    \/ \E n \in Names : CliDeleteCount(p, n) \/ CliReset(p, n)

Step(p) ==
    \/ SetupCount(p) \/ InsertAuthUser(p) \/ SetupFlag(p)
    \/ LoginInsert(p) \/ Logout(p)
    \/ ChangePasswordCheck(p) \/ WriteHash(p) \/ DropSessions(p)
    \/ CreateCheck(p) \/ CreateResolve(p) \/ CreateAssign(p)
    \/ UpdateResolve(p) \/ UpdateSnapshot(p) \/ UpdateGuarded(p)
    \/ WriteRole(p) \/ ClearDev(p) \/ AssignDev(p)
    \/ DeleteResolve(p) \/ DeleteSnapshot(p) \/ DeleteGuarded(p)
    \/ DeleteRow(p) \/ ResetResolve(p)
    \/ CliDeleteRole(p) \/ CliRoleCount(p)

Next == \/ \E p \in Procs : Begin(p) \/ Step(p) \/ Cancel(p) \/ SkipStatement(p)
        \/ \E t \in Tokens : ExpireSession(t)

Spec == Init /\ [][Next]_vars

-----------------------------------------------------------------------------
(* Properties *)

\* The usernames of live accounts are distinct, although CreateAuthUser, the
\* CLI and Setup check a name in one statement and insert it in a later one;
\* ids are never reused, so an id a request has resolved cannot come to mean
\* another account.
AccountIdentity ==
    /\ \A i, j \in DOMAIN users : users[i].name = users[j].name => i = j
    /\ DOMAIN users \subseteq used
    /\ \A p \in Procs : {req[p].tid, req[p].actor} \subseteq used \cup {None}

\* No session and no database assignment outlives or predates its account:
\* a Login, CreateAuthUser or UpdateAuthUser that resolved an account which
\* another request deletes meanwhile leaves nothing behind.
NoOrphans ==
    /\ \A t \in DOMAIN sessions : sessions[t].user \in DOMAIN users
    /\ \A r \in devDbs : r[1] \in DOMAIN users

\* UpdateAuthUser and DeleteAuthUser compare usernames, then work on an id
\* that is looked up later: it is never the id of the admin who acts, even
\* if accounts are deleted and created in between.
NeverOwnAccount ==
    \A p \in Procs : req[p].op \in {"update", "delete"} /\ req[p].tid # None
                        => req[p].tid # req[p].actor

\* An admin of the interface always remains: no step of a handler or of the
\* CLI takes the role from the last account that has it.
LastAdminKept == [][Admins # {} => Admins' # {}]_vars

\* The wizard makes at most one account.
SetupOnce == \A i, j \in wizard : i = j

\* A session that was opened with a former password exists only as long as
\* the request that changed the password has not reached its last statement.
StaleSessionsDropped ==
    \A t \in DOMAIN sessions :
        sessions[t].hash # users[sessions[t].user].hash =>
            \E p \in Procs : /\ req[p].pc = "sessions_then_done"
                             /\ req[p].op \in PasswordOps
                             /\ sessions[t].user \in Rows(p)

\* Assignments exist only for developers, when no request is running.
AssignmentsAreDevelopers ==
    (\A p \in Procs : req[p].pc = "idle") =>
        \A r \in devDbs : users[r[1]].role = "dev"

\* The register of accounts that the tables stand for.  Who is signed in has
\* a session that has not expired.
Entry(i) == [name |-> users[i].name, role |-> users[i].role]

Register == INSTANCE AccountRegister WITH
    account  <- [i \in DOMAIN users |-> Entry(i)],
    past     <- used,
    signedIn <- [t \in {u \in DOMAIN sessions : ~sessions[u].expired} |->
                   sessions[t].user],
    assigned <- devDbs

\* However the statements of requests and of the CLI interleave and fail, each
\* is a single step of the register, or none: nobody sees an account that is
\* half created or half deleted.
ImplementsRegister == Register!RegisterSpec
=============================================================================
