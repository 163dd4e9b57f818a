------------------------- MODULE WebAccountsProofs -------------------------
(***************************************************************************)
(* Theorems about WebAccounts, for every value of its constants.           *)
(*                                                                         *)
(* Type correctness is not inductive by itself: a request's fields are     *)
(* optional, and a statement is well typed because the operation that      *)
(* reaches it has filled them in.  Shape records which operation a program *)
(* counter belongs to and which fields that operation has.                 *)
(***************************************************************************)
EXTENDS AccountFailures, TLAPS

-----------------------------------------------------------------------------
(* Control of a request *)

\* The operation op can be at the program counter pc.
AtOp(pc, op) ==
    /\ pc = "idle" => op = "none"
    /\ pc \in {"setup_count", "setup_flag"} => op = "setup"
    /\ pc = "insert_user" => op \in {"setup", "create", "cli_create"}
    /\ pc = "login_insert" => op = "login"
    /\ pc = "logout" => op = "logout"
    /\ pc = "check_password" => op = "password"
    /\ pc \in {"check_name", "create_resolve", "create_assign"} => op = "create"
    /\ pc = "resolve" => op \in {"update", "delete", "reset"}
    /\ pc \in {"update_snapshot", "update_guarded", "clear_dev", "assign_dev"}
         => op = "update"
    /\ pc = "write_role" => op \in {"update", "cli_role"}
    /\ pc \in {"delete_snapshot", "delete_guarded"} => op = "delete"
    /\ pc = "write_hash" => op \in PasswordOps
    /\ pc = "sessions_then_done" => op \in PasswordOps \cup {"delete", "cli_role"}
    /\ pc \in {"sessions_then_delete", "delete_row"}
         => op \in {"delete", "cli_delete"}
    /\ pc = "cli_delete_role" => op = "cli_delete"
    /\ pc = "cli_role_count" => op = "cli_role"

\* What the fields of a request hold, by its operation.
Shape(r) ==
    /\ AtOp(r.pc, r.op)
    /\ r.op \in {"setup", "create", "cli_create", "update", "cli_role"}
         => r.target \in Names /\ r.role \in Roles
    /\ r.op = "login" => r.hash \in Hashes

ShapedRequest == {r \in Request : Shape(r)}

TypeInv == TypeOK /\ req \in [Procs -> ShapedRequest]

LEMMA IdleShaped == Idle \in ShapedRequest
  BY DEF Idle, Request, Pcs, ShapedRequest, Shape, AtOp

\* A request that moves on within its operation keeps its shape.
LEMMA GotoShaped ==
    ASSUME req \in [Procs -> ShapedRequest], NEW p \in Procs, NEW pc \in Pcs,
           AtOp(pc, req[p].op), Goto(p, pc)
    PROVE  req' \in [Procs -> ShapedRequest]
  <1>1. [req[p] EXCEPT !.pc = pc] \in ShapedRequest
    <2>1. req[p] \in Request /\ Shape(req[p])
      BY DEF ShapedRequest
    <2>2. [req[p] EXCEPT !.pc = pc] \in Request
      BY <2>1 DEF Request
    <2>3. Shape([req[p] EXCEPT !.pc = pc])
      BY <2>1 DEF Request, Shape
    <2> QED  BY <2>2, <2>3 DEF ShapedRequest
  <1> QED  BY <1>1 DEF Goto

LEMMA DoneShaped ==
    ASSUME req \in [Procs -> ShapedRequest], NEW p \in Procs, Done(p)
    PROVE  req' \in [Procs -> ShapedRequest]
  BY IdleShaped DEF Done

\* SELECT id ... WHERE username: a request that has learnt an id.
LEMMA ResolveShaped ==
    ASSUME req \in [Procs -> ShapedRequest], NEW p \in Procs,
           NEW i \in Ids, NEW pc \in Pcs, AtOp(pc, req[p].op), Resolved(p, i, pc)
    PROVE  req' \in [Procs -> ShapedRequest]
  <1> DEFINE r == [req[p] EXCEPT !.pc = pc, !.tid = i]
  <1>1. req[p] \in Request /\ Shape(req[p])
    BY DEF ShapedRequest
  <1>2. r \in Request /\ r.pc = pc /\ r.op = req[p].op
        /\ r.target = req[p].target /\ r.role = req[p].role
        /\ r.hash = req[p].hash
    BY <1>1 DEF Request
  <1>3. r \in ShapedRequest
    BY <1>1, <1>2 DEF ShapedRequest, Shape
  <1>4. req' = [req EXCEPT ![p] = r]
    BY <1>1 DEF Request, Resolved
  <1> QED  BY <1>3, <1>4

\* One INSERT INTO dev_databases less to do.
LEMMA AssignShaped ==
    ASSUME req \in [Procs -> ShapedRequest], NEW p \in Procs, NEW d,
           req' = [req EXCEPT ![p].dbs = @ \ {d}]
    PROVE  req' \in [Procs -> ShapedRequest]
  <1> DEFINE r == [req[p] EXCEPT !.dbs = req[p].dbs \ {d}]
  <1>1. req[p] \in Request /\ Shape(req[p])
    BY DEF ShapedRequest
  <1>2. r \in Request /\ r.pc = req[p].pc /\ r.op = req[p].op
        /\ r.target = req[p].target /\ r.role = req[p].role
        /\ r.hash = req[p].hash
    BY <1>1 DEF Request
  <1>3. r \in ShapedRequest
    BY <1>1, <1>2 DEF ShapedRequest, Shape
  <1>4. req' = [req EXCEPT ![p] = r]
    BY <1>1 DEF Request
  <1> QED  BY <1>3, <1>4

LEMMA AcceptShaped ==
    ASSUME req \in [Procs -> ShapedRequest], NEW p \in Procs,
           NEW r \in Request, Shape(r), Accept(p, r)
    PROVE  req' \in [Procs -> ShapedRequest]
  BY DEF Accept, ShapedRequest

\* Every new request has the shape of its operation.
LEMMA NewRequests ==
    /\ \A n \in Names : SetupRequest(n) \in Request /\ Shape(SetupRequest(n))
    /\ \A i \in Ids, h \in Hashes :
         LoginRequest(i, h) \in Request /\ Shape(LoginRequest(i, h))
    /\ \A i \in Ids, t \in Tokens :
         LogoutRequest(i, t) \in Request /\ Shape(LogoutRequest(i, t))
    /\ \A i \in Ids : PasswordRequest(i) \in Request /\ Shape(PasswordRequest(i))
    /\ \A op \in ManageOps, i \in Ids, n \in Names, r \in Roles \cup {"none"},
          D \in SUBSET Dbs :
         (op \in {"create", "update"}) = (r \in Roles) =>
           /\ ManageRequest(op, i, n, r, D) \in Request
           /\ Shape(ManageRequest(op, i, n, r, D))
    /\ \A op \in CliOps, pc \in Pcs, n \in Names, r \in Roles \cup {"none"},
          b \in BOOLEAN :
         (op \in {"cli_create", "cli_role"} => r \in Roles) /\ AtOp(pc, op) =>
           /\ CliRequest(op, pc, n, r, b) \in Request
           /\ Shape(CliRequest(op, pc, n, r, b))
  <1>1. ASSUME NEW n \in Names
        PROVE  SetupRequest(n) \in Request /\ Shape(SetupRequest(n))
    <2>1. SetupRequest(n) \in Request
      BY DEF SetupRequest, Idle, Request, Pcs, AllOps, Roles
    <2>2. Shape(SetupRequest(n))
      BY DEF SetupRequest, Idle, Shape, AtOp, Roles
    <2> QED  BY <2>1, <2>2
  <1>2. ASSUME NEW i \in Ids, NEW h \in Hashes
        PROVE  LoginRequest(i, h) \in Request /\ Shape(LoginRequest(i, h))
    <2>1. LoginRequest(i, h) \in Request
      BY DEF LoginRequest, Idle, Request, Pcs, AllOps, Roles
    <2>2. Shape(LoginRequest(i, h))
      BY DEF LoginRequest, Idle, Shape, AtOp
    <2> QED  BY <2>1, <2>2
  <1>3. ASSUME NEW i \in Ids, NEW t \in Tokens
        PROVE  LogoutRequest(i, t) \in Request /\ Shape(LogoutRequest(i, t))
    <2>1. LogoutRequest(i, t) \in Request
      BY DEF LogoutRequest, Idle, Request, Pcs, AllOps, Roles
    <2>2. Shape(LogoutRequest(i, t))
      BY DEF LogoutRequest, Idle, Shape, AtOp
    <2> QED  BY <2>1, <2>2
  <1>4. ASSUME NEW i \in Ids
        PROVE  PasswordRequest(i) \in Request /\ Shape(PasswordRequest(i))
    <2>1. PasswordRequest(i) \in Request
      BY DEF PasswordRequest, Idle, Request, Pcs, AllOps, Roles
    <2>2. Shape(PasswordRequest(i))
      BY DEF PasswordRequest, Idle, Shape, AtOp
    <2> QED  BY <2>1, <2>2
  <1>5. ASSUME NEW op \in ManageOps, NEW i \in Ids, NEW n \in Names,
               NEW r \in Roles \cup {"none"}, NEW D \in SUBSET Dbs,
               (op \in {"create", "update"}) = (r \in Roles)
        PROVE  /\ ManageRequest(op, i, n, r, D) \in Request
               /\ Shape(ManageRequest(op, i, n, r, D))
    <2>1. ManageRequest(op, i, n, r, D) \in Request
      BY DEF ManageRequest, ManageOps, Idle, Request, Pcs, AllOps
    <2>2. Shape(ManageRequest(op, i, n, r, D))
      BY <1>5 DEF ManageRequest, ManageOps, Idle, Shape, AtOp
    <2> QED  BY <2>1, <2>2
  <1>6. ASSUME NEW op \in CliOps, NEW pc \in Pcs, NEW n \in Names,
               NEW b \in BOOLEAN, NEW r \in Roles \cup {"none"},
               op \in {"cli_create", "cli_role"} => r \in Roles,
               AtOp(pc, op)
        PROVE  /\ CliRequest(op, pc, n, r, b) \in Request
               /\ Shape(CliRequest(op, pc, n, r, b))
    <2>1. CliRequest(op, pc, n, r, b) \in Request
      BY DEF CliRequest, CliOps, Idle, Request, AllOps
    <2>2. Shape(CliRequest(op, pc, n, r, b))
      BY <1>6 DEF CliRequest, CliOps, Idle, Shape
    <2> QED  BY <2>1, <2>2
  <1> QED  BY <1>1, <1>2, <1>3, <1>4, <1>5, <1>6

\* Beginning a request.
LEMMA BeginShaped ==
    ASSUME TypeInv, NEW p \in Procs, Begin(p)
    PROVE  req' \in [Procs -> ShapedRequest]
  <1> USE NewRequests, AcceptShaped DEF TypeInv, TypeOK
  <1>1. ASSUME NEW n \in Names, SetupStart(p, n)
        PROVE  req' \in [Procs -> ShapedRequest]
    BY <1>1 DEF SetupStart
  <1>2. ASSUME NEW n \in Names, LoginStart(p, n)
        PROVE  req' \in [Procs -> ShapedRequest]
    BY <1>2 DEF LoginStart, Named, UserRow
  <1>3. ASSUME NEW t \in Tokens, NEW op \in {"logout", "password"},
               UserRequest(p, t, op)
        PROVE  req' \in [Procs -> ShapedRequest]
    BY <1>3 DEF UserRequest, Authenticated, Actor, SessionRow
  <1>4. ASSUME NEW t \in Tokens, NEW op \in ManageOps, NEW n \in Names,
               NEW r \in Roles \cup {"none"}, NEW D \in SUBSET Dbs,
               AdminRequest(p, t, op, n, r, D)
        PROVE  req' \in [Procs -> ShapedRequest]
    BY <1>4 DEF AdminRequest, Authenticated, Actor, SessionRow
  <1>5. ASSUME NEW n \in Names, NEW r \in Roles, CliCreate(p, n, r)
        PROVE  req' \in [Procs -> ShapedRequest]
    <2>1. AtOp("insert_user", "cli_create") /\ "insert_user" \in Pcs
          /\ "cli_create" \in CliOps
      BY DEF AtOp, Pcs, CliOps
    <2> QED  BY <1>5, <2>1 DEF CliCreate
  <1>6. ASSUME NEW n \in Names, NEW r \in Roles, CliRole(p, n, r)
        PROVE  req' \in [Procs -> ShapedRequest]
    <2>1. /\ AtOp("cli_role_count", "cli_role") /\ "cli_role_count" \in Pcs
          /\ AtOp("write_role", "cli_role") /\ "write_role" \in Pcs
          /\ "cli_role" \in CliOps
      BY DEF AtOp, Pcs, CliOps
    <2> QED  BY <1>6, <2>1 DEF CliRole
  <1>7. ASSUME NEW n \in Names, CliDeleteCount(p, n)
        PROVE  req' \in [Procs -> ShapedRequest]
    <2>1. AtOp("cli_delete_role", "cli_delete") /\ "cli_delete_role" \in Pcs
          /\ "cli_delete" \in CliOps
      BY DEF AtOp, Pcs, CliOps
    <2>2. MoreThanOneAdmin \in BOOLEAN
      BY DEF MoreThanOneAdmin
    <2> QED  BY <1>7, <2>1, <2>2 DEF CliDeleteCount
  <1>8. ASSUME NEW n \in Names, CliReset(p, n)
        PROVE  req' \in [Procs -> ShapedRequest]
    <2>1. AtOp("write_hash", "cli_reset") /\ "write_hash" \in Pcs
          /\ "cli_reset" \in CliOps
      BY DEF AtOp, Pcs, CliOps, PasswordOps
    <2> QED  BY <1>8, <2>1 DEF CliReset
  <1> QED
    BY <1>1, <1>2, <1>3, <1>4, <1>5, <1>6, <1>7, <1>8 DEF Begin

\* Every later statement of a request.
LEMMA StepShaped ==
    ASSUME TypeInv, NEW p \in Procs, Step(p) \/ Cancel(p) \/ SkipStatement(p)
    PROVE  req' \in [Procs -> ShapedRequest]
  <1> USE GotoShaped, DoneShaped DEF TypeInv
  <1>0. req[p] \in Request /\ AtOp(req[p].pc, req[p].op)
    BY DEF ShapedRequest, Shape
  <1>1. CASE SetupCount(p)
    BY <1>0, <1>1 DEF SetupCount, AtOp, Pcs, PasswordOps
  <1>2. CASE SetupFlag(p)
    BY <1>0, <1>2 DEF SetupFlag, AtOp, Pcs, PasswordOps
  <1>3. CASE LoginInsert(p)
    BY <1>0, <1>3 DEF LoginInsert, AtOp, Pcs, PasswordOps
  <1>4. CASE Logout(p)
    BY <1>0, <1>4 DEF Logout, AtOp, Pcs, PasswordOps
  <1>5. CASE ChangePasswordCheck(p)
    BY <1>0, <1>5 DEF ChangePasswordCheck, AtOp, Pcs, PasswordOps
  <1>6. CASE WriteHash(p)
    BY <1>0, <1>6 DEF WriteHash, AtOp, Pcs, PasswordOps
  <1>7. CASE DropSessions(p)
    BY <1>0, <1>7 DEF DropSessions, AtOp, Pcs, PasswordOps
  <1>8. CASE CreateCheck(p)
    BY <1>0, <1>8 DEF CreateCheck, AtOp, Pcs, PasswordOps
  <1>9. CASE UpdateSnapshot(p)
    BY <1>0, <1>9 DEF UpdateSnapshot, AtOp, Pcs, PasswordOps
  <1>10. CASE UpdateGuarded(p)
    BY <1>0, <1>10 DEF UpdateGuarded, AtOp, Pcs, PasswordOps
  <1>11. CASE WriteRole(p)
    BY <1>0, <1>11 DEF WriteRole, AtOp, Pcs, PasswordOps
  <1>12. CASE ClearDev(p)
    BY <1>0, <1>12 DEF ClearDev, AtOp, Pcs, PasswordOps
  <1>13. CASE DeleteSnapshot(p)
    BY <1>0, <1>13 DEF DeleteSnapshot, AtOp, Pcs, PasswordOps
  <1>14. CASE DeleteGuarded(p)
    BY <1>0, <1>14 DEF DeleteGuarded, AtOp, Pcs, PasswordOps
  <1>15. CASE DeleteRow(p)
    BY <1>0, <1>15 DEF DeleteRow, AtOp, Pcs, PasswordOps
  <1>16. CASE CliDeleteRole(p)
    BY <1>0, <1>16 DEF CliDeleteRole, AtOp, Pcs, PasswordOps
  <1>17. CASE CliRoleCount(p)
    BY <1>0, <1>17 DEF CliRoleCount, AtOp, Pcs, PasswordOps
  <1>18. CASE InsertAuthUser(p)
    BY <1>0, <1>18 DEF InsertAuthUser, RejectsInsert, AtOp, Pcs, PasswordOps
  <1>19. CASE CreateResolve(p)
    BY <1>0, <1>19, ResolveShaped DEF CreateResolve, Named, TypeOK, AtOp, Pcs, PasswordOps
  <1>20. CASE UpdateResolve(p)
    BY <1>0, <1>20, ResolveShaped DEF UpdateResolve, Named, TypeOK, AtOp, Pcs, PasswordOps
  <1>21. CASE DeleteResolve(p)
    BY <1>0, <1>21, ResolveShaped DEF DeleteResolve, Named, TypeOK, AtOp, Pcs, PasswordOps
  <1>22. CASE ResetResolve(p)
    BY <1>0, <1>22, ResolveShaped DEF ResetResolve, Named, TypeOK, AtOp, Pcs, PasswordOps
  <1>23. CASE CreateAssign(p)
    BY <1>0, <1>23, AssignShaped DEF CreateAssign, AtOp, Pcs, CliOps
  <1>24. CASE AssignDev(p)
    BY <1>0, <1>24, AssignShaped DEF AssignDev, AtOp, Pcs, CliOps
  <1>25. CASE Cancel(p)
    BY <1>0, <1>25, AssignShaped DEF Cancel, AtOp, Pcs, CliOps
  <1>26. CASE SkipStatement(p)
    BY <1>0, <1>26, AssignShaped DEF SkipStatement, AtOp, Pcs, CliOps
  <1> QED
    BY <1>1, <1>2, <1>3, <1>4, <1>5, <1>6, <1>7, <1>8, <1>9, <1>10, <1>11, <1>12,
       <1>13, <1>14, <1>15, <1>16, <1>17, <1>18, <1>19, <1>20, <1>21, <1>22, <1>23, <1>24, <1>25, <1>26 DEF Step

-----------------------------------------------------------------------------
(* The tables *)

\* The part of the invariant that only the tables take part in.
TablesOK ==
    /\ DOMAIN users \subseteq Ids
    /\ users \in [DOMAIN users -> UserRow]
    /\ used \subseteq Ids
    /\ DOMAIN sessions \subseteq Tokens
    /\ sessions \in [DOMAIN sessions -> SessionRow]
    /\ devDbs \subseteq Ids \X Dbs
    /\ setupCompleted \in BOOLEAN
    /\ wizard \subseteq Ids
    /\ \A i, j \in DOMAIN users : users[i].name = users[j].name => i = j
    /\ DOMAIN users \subseteq used
    /\ NoOrphans

LEMMA TablesUnchanged ==
    ASSUME TablesOK, UNCHANGED tables
    PROVE  TablesOK'
  BY DEF TablesOK, tables, NoOrphans

LEMMA InsertKeepsTables ==
    ASSUME TablesOK, NEW i \in Ids \ used, NEW n \in Names, NEW r \in Roles,
           NEW h \in Hashes, Named(n) = {}, InsertRow(i, n, r, h),
           wizard' = wizard \/ wizard' = wizard \cup {i},
           UNCHANGED <<sessions, devDbs, setupCompleted>>
    PROVE  TablesOK'
  <1>1. users' \in [DOMAIN users \cup {i} -> UserRow]
    BY DEF TablesOK, InsertRow, UserRow
  <1>2. \A j, k \in DOMAIN users' : users'[j].name = users'[k].name => j = k
    BY DEF TablesOK, InsertRow, Named
  <1> QED  BY <1>1, <1>2 DEF TablesOK, InsertRow, NoOrphans

\* An UPDATE that leaves the rows and their names alone.
LEMMA UpdateKeepsTables ==
    ASSUME TablesOK, users' \in [DOMAIN users -> UserRow],
           \A k \in DOMAIN users : users'[k].name = users[k].name,
           UNCHANGED <<used, sessions, devDbs, setupCompleted, wizard>>
    PROVE  TablesOK'
  BY DEF TablesOK, NoOrphans

LEMMA SetRoleKeepsTables ==
    ASSUME TablesOK, NEW S, NEW r \in Roles, SetRole(S, r),
           UNCHANGED <<used, sessions, devDbs, setupCompleted, wizard>>
    PROVE  TablesOK'
  <1>1. users' \in [DOMAIN users -> UserRow]
    BY DEF TablesOK, SetRole, UserRow
  <1>2. \A k \in DOMAIN users : users'[k].name = users[k].name
    BY DEF TablesOK, SetRole, UserRow
  <1> QED  BY <1>1, <1>2, UpdateKeepsTables

LEMMA SetHashKeepsTables ==
    ASSUME TablesOK, NEW S, NEW h \in Hashes, SetHash(S, h),
           UNCHANGED <<used, sessions, devDbs, setupCompleted, wizard>>
    PROVE  TablesOK'
  <1>1. users' \in [DOMAIN users -> UserRow]
    BY DEF TablesOK, SetHash, UserRow
  <1>2. \A k \in DOMAIN users : users'[k].name = users[k].name
    BY DEF TablesOK, SetHash, UserRow
  <1> QED  BY <1>1, <1>2, UpdateKeepsTables

\* Sessions and assignments may only be removed.
LEMMA SessionsShrinkKeepsTables ==
    ASSUME TablesOK, NEW T \in SUBSET DOMAIN sessions,
           sessions' = [t \in T |-> sessions[t]],
           UNCHANGED <<users, used, devDbs, setupCompleted, wizard>>
    PROVE  TablesOK'
  BY DEF TablesOK, NoOrphans

LEMMA DeleteKeepsTables ==
    ASSUME TablesOK, NEW S, DeleteRows(S),
           UNCHANGED <<used, setupCompleted, wizard>>
    PROVE  TablesOK'
  BY DEF TablesOK, NoOrphans, DeleteRows, DeleteSessionsOf

LEMMA AssignKeepsTables ==
    ASSUME TablesOK, devDbs' \subseteq Ids \X Dbs,
           \A r \in devDbs' : r \in devDbs \/ r[1] \in DOMAIN users,
           UNCHANGED <<users, used, sessions, setupCompleted, wizard>>
    PROVE  TablesOK'
  BY DEF TablesOK, NoOrphans

LEMMA LoginKeepsTables ==
    ASSUME TablesOK, NEW t \in Tokens, NEW i \in DOMAIN users,
           NEW h \in Hashes,
           sessions' = [u \in DOMAIN sessions \cup {t} |->
                          IF u = t THEN [user |-> i, hash |-> h,
                                         expired |-> FALSE]
                                   ELSE sessions[u]],
           UNCHANGED <<users, used, devDbs, setupCompleted, wizard>>
    PROVE  TablesOK'
  <1>1. sessions' \in [DOMAIN sessions \cup {t} -> SessionRow]
    BY DEF TablesOK, SessionRow
  <1>2. \A u \in DOMAIN sessions' : sessions'[u].user \in DOMAIN users
    BY DEF TablesOK, NoOrphans
  <1> QED  BY <1>1, <1>2 DEF TablesOK, NoOrphans

LEMMA NextKeepsTables ==
    ASSUME TypeInv, TablesOK, [Next]_vars
    PROVE  TablesOK'
  <1> USE TablesUnchanged DEF TypeInv
  <1>1. ASSUME NEW p \in Procs, Begin(p)
        PROVE  TablesOK'
    BY <1>1 DEF Begin, SetupStart, LoginStart, UserRequest, AdminRequest,
       CliCreate, CliRole, CliDeleteCount, CliReset
  <1>2. ASSUME NEW p \in Procs, Step(p)
        PROVE  TablesOK'
    <2>0. /\ req[p] \in Request /\ Shape(req[p])
          /\ AtOp(req[p].pc, req[p].op)
      BY DEF ShapedRequest, Shape
    <2>1. CASE InsertAuthUser(p)
      <3>1. req[p].target \in Names /\ req[p].role \in Roles
        BY <2>0, <2>1 DEF InsertAuthUser, RejectsInsert, AtOp, Shape
      <3>2. CASE Named(req[p].target) # {} \/ used = Ids
        BY <2>1, <3>2 DEF InsertAuthUser, RejectsInsert
      <3>3. CASE ~(Named(req[p].target) # {} \/ used = Ids)
        <4>1. PICK i \in Ids \ used, h \in Hashes :
                /\ InsertRow(i, req[p].target, req[p].role, h)
                /\ wizard' = wizard \/ wizard' = wizard \cup {i}
                /\ UNCHANGED <<sessions, devDbs, setupCompleted>>
          BY <2>1, <3>3 DEF InsertAuthUser, RejectsInsert
        <4> QED  BY <3>1, <3>3, <4>1, InsertKeepsTables
      <3> QED  BY <3>2, <3>3
    <2>2. CASE SetupFlag(p)
      BY <2>2 DEF SetupFlag, TablesOK, NoOrphans
    <2>3. CASE LoginInsert(p)
      <3>1. req[p].hash \in Hashes
        BY <2>0, <2>3 DEF LoginInsert, AtOp, Shape
      <3>2. CASE UNCHANGED sessions
        BY <2>3, <3>2 DEF LoginInsert, tables
      <3>3. CASE sessions' # sessions
        <4>1. PICK t \in Tokens \ DOMAIN sessions :
                sessions' = [u \in DOMAIN sessions \cup {t} |->
                               IF u = t THEN [user |-> req[p].tid,
                                              hash |-> req[p].hash,
                                              expired |-> FALSE]
                                        ELSE sessions[u]]
          BY <2>3, <3>3 DEF LoginInsert
        <4>2. /\ req[p].tid \in DOMAIN users
              /\ UNCHANGED <<users, used, devDbs, setupCompleted, wizard>>
          BY <2>3, <3>3 DEF LoginInsert
        <4> QED  BY <3>1, <4>1, <4>2, LoginKeepsTables
      <3> QED  BY <3>2, <3>3
    <2>4. CASE Logout(p)
      BY <2>4, SessionsShrinkKeepsTables DEF Logout
    <2>5. CASE WriteHash(p)
      BY <2>5, SetHashKeepsTables DEF WriteHash
    <2>6. CASE DropSessions(p)
      BY <2>6, SessionsShrinkKeepsTables DEF DropSessions, DeleteSessionsOf
    <2>7. CASE CreateAssign(p)
      <3>1. \A d \in req[p].dbs : d \in Dbs
        BY <2>0 DEF Request
      <3>2. /\ devDbs' \subseteq Ids \X Dbs
            /\ \A r \in devDbs' : r \in devDbs \/ r[1] \in DOMAIN users
        BY <2>7, <3>1 DEF CreateAssign, TablesOK
      <3> QED  BY <2>7, <3>2, AssignKeepsTables DEF CreateAssign
    <2>8. CASE AssignDev(p)
      <3>1. \A d \in req[p].dbs : d \in Dbs
        BY <2>0 DEF Request
      <3>2. Rows(p) \subseteq DOMAIN users
        BY DEF Rows, Named
      <3>3. /\ devDbs' \subseteq Ids \X Dbs
            /\ \A r \in devDbs' : r \in devDbs \/ r[1] \in DOMAIN users
        BY <2>8, <3>1, <3>2 DEF AssignDev, TablesOK
      <3> QED  BY <2>8, <3>3, AssignKeepsTables DEF AssignDev
    <2>9. CASE ClearDev(p)
      BY <2>9, AssignKeepsTables DEF ClearDev, TablesOK
    <2>10. CASE UpdateGuarded(p)
      BY <2>0, <2>10, SetRoleKeepsTables DEF UpdateGuarded, AtOp, Shape
    <2>11. CASE WriteRole(p)
      BY <2>0, <2>11, SetRoleKeepsTables DEF WriteRole, AtOp, Shape
    <2>12. CASE DeleteGuarded(p)
      BY <2>12, DeleteKeepsTables DEF DeleteGuarded
    <2>13. CASE DeleteRow(p)
      BY <2>13, DeleteKeepsTables DEF DeleteRow
    <2>14. CASE SetupCount(p) \/ ChangePasswordCheck(p) \/ CreateCheck(p)
                \/ CreateResolve(p) \/ UpdateResolve(p) \/ UpdateSnapshot(p)
                \/ DeleteResolve(p) \/ DeleteSnapshot(p) \/ ResetResolve(p)
                \/ CliDeleteRole(p) \/ CliRoleCount(p)
      BY <2>14 DEF SetupCount, ChangePasswordCheck, CreateCheck, CreateResolve,
         UpdateResolve, UpdateSnapshot, DeleteResolve, DeleteSnapshot,
         ResetResolve, CliDeleteRole, CliRoleCount
    <2> QED
      BY <1>2, <2>1, <2>2, <2>3, <2>4, <2>5, <2>6, <2>7, <2>8, <2>9, <2>10,
         <2>11, <2>12, <2>13, <2>14 DEF Step
  <1>3. ASSUME NEW p \in Procs, Cancel(p) \/ SkipStatement(p)
        PROVE  TablesOK'
    BY <1>3 DEF Cancel, SkipStatement
  <1>4. ASSUME NEW t \in Tokens, ExpireSession(t)
        PROVE  TablesOK'
    <2>1. /\ t \in DOMAIN sessions
          /\ sessions' = [sessions EXCEPT ![t].expired = TRUE]
          /\ UNCHANGED <<users, used, devDbs, setupCompleted, wizard>>
      BY <1>4 DEF ExpireSession, Authenticated
    <2>2. /\ sessions' \in [DOMAIN sessions -> SessionRow]
          /\ \A u \in DOMAIN sessions : sessions'[u].user = sessions[u].user
      BY <2>1 DEF TablesOK, SessionRow
    <2> QED  BY <2>1, <2>2 DEF TablesOK, NoOrphans
  <1>5. CASE UNCHANGED vars
    BY <1>5 DEF vars, tables
  <1> QED  BY <1>1, <1>2, <1>3, <1>4, <1>5 DEF Next

-----------------------------------------------------------------------------
(* Types, uniqueness and referential integrity *)

LEMMA TypesStep ==
    ASSUME TypeInv, TablesOK, [Next]_vars
    PROVE  TypeInv' /\ TablesOK'
  <1>1. TablesOK'
    BY NextKeepsTables
  <1>2. req' \in [Procs -> ShapedRequest]
    <2>1. CASE UNCHANGED req
      BY <2>1 DEF TypeInv
    <2>2. ASSUME NEW p \in Procs,
                 Begin(p) \/ Step(p) \/ Cancel(p) \/ SkipStatement(p)
          PROVE  req' \in [Procs -> ShapedRequest]
      BY <2>2, BeginShaped, StepShaped
    <2> QED  BY <2>1, <2>2 DEF Next, ExpireSession, vars
  <1>3. req' \in [Procs -> Request]
    BY <1>2 DEF ShapedRequest
  <1> QED  BY <1>1, <1>2, <1>3 DEF TypeInv, TypeOK, TablesOK

LEMMA TypesInit == Init => TypeInv /\ TablesOK
  <1> SUFFICES ASSUME Init PROVE TypeInv /\ TablesOK
    OBVIOUS
  <1>1. req \in [Procs -> ShapedRequest] /\ req \in [Procs -> Request]
    BY IdleShaped DEF Init, ShapedRequest
  <1> QED  BY <1>1 DEF Init, TypeInv, TypeOK, TablesOK, NoOrphans

\* Whatever the requests interleave, every table and every request keeps its
\* type: no handler reaches a statement without the values it needs.
THEOREM TypeCorrect == Spec => []TypeOK
  <1>1. TypeInv /\ TablesOK /\ [Next]_vars => (TypeInv /\ TablesOK)'
    BY TypesStep
  <1>2. TypeInv => TypeOK
    BY DEF TypeInv
  <1> QED  BY TypesInit, <1>1, <1>2, PTL DEF Spec

\* Sessions and assignments always belong to an account that exists, also
\* when the account is deleted between two statements of the request that
\* writes them.
THEOREM ReferencesHold == Spec => []NoOrphans
  <1>1. TypeInv /\ TablesOK /\ [Next]_vars => (TypeInv /\ TablesOK)'
    BY TypesStep
  <1>2. TablesOK => NoOrphans
    BY DEF TablesOK
  <1> QED  BY TypesInit, <1>1, <1>2, PTL DEF Spec

-----------------------------------------------------------------------------
(* Identity of accounts *)

\* Ids are not reused and names do not change.
NamesFixed ==
    /\ used \subseteq used'
    /\ \A k \in used : k \in DOMAIN users' =>
         k \in DOMAIN users /\ users'[k].name = users[k].name

LEMMA NamesStay ==
    ASSUME TypeInv, TablesOK, [Next]_vars
    PROVE  NamesFixed
  <1> USE DEF NamesFixed
  <1>1. CASE UNCHANGED <<users, used>>
    BY <1>1
  <1>2. ASSUME NEW p \in Procs, Step(p), ~UNCHANGED <<users, used>>
        PROVE  NamesFixed
    <2>1. CASE InsertAuthUser(p)
      <3>1. PICK i \in Ids \ used, h \in Hashes :
              InsertRow(i, req[p].target, req[p].role, h)
        BY <1>2, <2>1 DEF InsertAuthUser, RejectsInsert, tables
      <3> QED  BY <3>1 DEF InsertRow
    <2>2. CASE WriteHash(p)
      BY <2>2 DEF WriteHash, SetHash, TablesOK, UserRow
    <2>3. CASE UpdateGuarded(p) \/ WriteRole(p)
      BY <2>3 DEF UpdateGuarded, WriteRole, SetRole, TablesOK, UserRow
    <2>4. CASE DeleteGuarded(p) \/ DeleteRow(p)
      BY <2>4 DEF DeleteGuarded, DeleteRow, DeleteRows
    <2> QED
      BY <1>2, <2>1, <2>2, <2>3, <2>4 DEF Step, SetupFlag, LoginInsert, Logout,
         DropSessions, CreateAssign, AssignDev, ClearDev, SetupCount,
         ChangePasswordCheck, CreateCheck, CreateResolve, UpdateResolve,
         UpdateSnapshot, DeleteResolve, DeleteSnapshot, ResetResolve,
         CliDeleteRole, CliRoleCount, tables
  <1>3. ASSUME NEW p \in Procs, Begin(p)
        PROVE  UNCHANGED <<users, used>>
    BY <1>3 DEF Begin, SetupStart, LoginStart, UserRequest, AdminRequest,
       CliCreate, CliRole, CliDeleteCount, CliReset, tables
  <1> QED
    BY <1>1, <1>2, <1>3 DEF Next, Cancel, SkipStatement, ExpireSession, vars,
       tables

\* How a request's actor, target and resolved id may change in a step.
Moves(r, s) ==
    \/ s.actor = None /\ s.tid = None /\ s.op \notin {"update", "delete"}
    \/ /\ s.op = r.op /\ s.actor = r.actor /\ s.target = r.target
       /\ s.tid = r.tid \/ s.tid \in Named(r.target)
    \/ /\ {s.actor, s.tid} \subseteq DOMAIN users \cup {None}
       /\ s.op \in {"update", "delete"} =>
            /\ s.tid = None
            /\ s.actor \in DOMAIN users /\ users[s.actor].name # s.target

LEMMA BeginMoves ==
    ASSUME TypeInv, TablesOK, NEW p \in Procs, Begin(p)
    PROVE  /\ Moves(req[p], req'[p])
           /\ \A q \in Procs \ {p} : req'[q] = req[q]
  <1> USE DEF TypeInv, Accept
  <1>0. \A t \in Tokens : Authenticated(t) => Actor(t) \in DOMAIN users
    BY DEF Authenticated, Actor, TablesOK, NoOrphans
  <1>1. ASSUME NEW n \in Names, SetupStart(p, n)
        PROVE  /\ req'[p] = SetupRequest(n)
               /\ \A q \in Procs \ {p} : req'[q] = req[q]
    BY <1>1 DEF SetupStart
  <1>2. ASSUME NEW n \in Names, LoginStart(p, n)
        PROVE  /\ \E i \in DOMAIN users : req'[p] = LoginRequest(i, users[i].hash)
               /\ \A q \in Procs \ {p} : req'[q] = req[q]
    BY <1>2 DEF LoginStart, Named
  <1>3. ASSUME NEW t \in Tokens, NEW op \in {"logout", "password"},
               UserRequest(p, t, op)
        PROVE  /\ \E i \in DOMAIN users : req'[p] \in {LogoutRequest(i, t),
                                                      PasswordRequest(i)}
               /\ \A q \in Procs \ {p} : req'[q] = req[q]
    BY <1>0, <1>3 DEF UserRequest
  <1>4. ASSUME NEW t \in Tokens, NEW op \in ManageOps, NEW n \in Names,
               NEW r \in Roles \cup {"none"}, NEW D \in SUBSET Dbs,
               AdminRequest(p, t, op, n, r, D)
        PROVE  /\ \E i \in DOMAIN users :
                     /\ req'[p] = ManageRequest(op, i, n, r, D)
                     /\ op \in {"update", "delete"} => users[i].name # n
               /\ \A q \in Procs \ {p} : req'[q] = req[q]
    BY <1>0, <1>4 DEF AdminRequest
  <1>5. ASSUME NEW n \in Names, NEW r \in Roles \cup {"none"},
               \/ CliCreate(p, n, r) \/ CliRole(p, n, r)
               \/ CliDeleteCount(p, n) \/ CliReset(p, n)
        PROVE  /\ \E op \in CliOps, pc \in Pcs, s \in Roles \cup {"none"},
                     b \in BOOLEAN : req'[p] = CliRequest(op, pc, n, s, b)
               /\ \A q \in Procs \ {p} : req'[q] = req[q]
    <2>1. MoreThanOneAdmin \in BOOLEAN
      BY DEF MoreThanOneAdmin
    <2> QED  BY <1>5, <2>1 DEF CliCreate, CliRole, CliDeleteCount, CliReset,
                CliOps, Pcs
  <1>6. \A n : Moves(req[p], SetupRequest(n))
    BY DEF Moves, SetupRequest, Idle
  <1>7. \A i \in DOMAIN users : \A h, t :
           /\ Moves(req[p], LoginRequest(i, h))
           /\ Moves(req[p], LogoutRequest(i, t))
           /\ Moves(req[p], PasswordRequest(i))
    BY DEF Moves, LoginRequest, LogoutRequest, PasswordRequest, Idle
  <1>8. \A i \in DOMAIN users, op \in ManageOps : \A n, r, D :
           (op \in {"update", "delete"} => users[i].name # n)
             => Moves(req[p], ManageRequest(op, i, n, r, D))
    BY DEF Moves, ManageRequest, ManageOps, Idle
  <1>9. \A op \in CliOps : \A pc, n, s, b :
           Moves(req[p], CliRequest(op, pc, n, s, b))
    BY DEF Moves, CliRequest, CliOps, Idle
  <1>10. CASE \E n \in Names : SetupStart(p, n) \/ LoginStart(p, n)
    BY <1>10, <1>1, <1>2, <1>6, <1>7
  <1>11. CASE \E t \in Tokens, op \in {"logout", "password"} :
                UserRequest(p, t, op)
    BY <1>11, <1>3, <1>7
  <1>12. CASE \E t \in Tokens, op \in ManageOps, n \in Names,
                 r \in Roles \cup {"none"}, D \in SUBSET Dbs :
                AdminRequest(p, t, op, n, r, D)
    BY <1>12, <1>4, <1>8
  <1>13. CASE \/ \E n \in Names, r \in Roles : CliCreate(p, n, r) \/ CliRole(p, n, r)
              \/ \E n \in Names : CliDeleteCount(p, n) \/ CliReset(p, n)
    BY <1>13, <1>5, <1>9
  <1> QED  BY <1>10, <1>11, <1>12, <1>13 DEF Begin

\* A later statement keeps the operation or ends it.
Continues(p) ==
    /\ Moves(req[p], req'[p])
    /\ req'[p].op \in {req[p].op, "none"}
    /\ \A q \in Procs \ {p} : req'[q] = req[q]

LEMMA StepMoves ==
    ASSUME TypeInv, TablesOK, NEW p \in Procs,
           Step(p) \/ Cancel(p) \/ SkipStatement(p)
    PROVE  Continues(p)
  <1>0. req \in [Procs -> Request] /\ req[p] \in Request
    BY DEF TypeInv, TypeOK
  <1>1. CASE Done(p)
    <2>1. req'[p] = Idle /\ \A q \in Procs \ {p} : req'[q] = req[q]
      BY <1>0, <1>1 DEF Done
    <2> QED  BY <2>1 DEF Continues, Moves, Idle
  <1>2. ASSUME NEW pc, Goto(p, pc)
        PROVE  Continues(p)
    <2>1. /\ req'[p] = [req[p] EXCEPT !.pc = pc]
          /\ \A q \in Procs \ {p} : req'[q] = req[q]
      BY <1>0, <1>2 DEF Goto
    <2>2. /\ req'[p].op = req[p].op /\ req'[p].actor = req[p].actor
          /\ req'[p].target = req[p].target /\ req'[p].tid = req[p].tid
      BY <1>0, <2>1 DEF Request
    <2> QED  BY <2>1, <2>2 DEF Continues, Moves
  <1>3. ASSUME NEW i \in Named(req[p].target), NEW pc, Resolved(p, i, pc)
        PROVE  Continues(p)
    <2>1. /\ req'[p] = [req[p] EXCEPT !.pc = pc, !.tid = i]
          /\ \A q \in Procs \ {p} : req'[q] = req[q]
      BY <1>0, <1>3 DEF Resolved, Request
    <2>2. /\ req'[p].op = req[p].op /\ req'[p].actor = req[p].actor
          /\ req'[p].target = req[p].target /\ req'[p].tid = i
      BY <1>0, <2>1 DEF Request
    <2> QED  BY <2>1, <2>2 DEF Continues, Moves
  <1>4. ASSUME NEW d, req' = [req EXCEPT ![p].dbs = @ \ {d}]
        PROVE  Continues(p)
    <2>1. /\ req'[p] = [req[p] EXCEPT !.dbs = req[p].dbs \ {d}]
          /\ \A q \in Procs \ {p} : req'[q] = req[q]
      BY <1>0, <1>4 DEF Request
    <2>2. /\ req'[p].op = req[p].op /\ req'[p].actor = req[p].actor
          /\ req'[p].target = req[p].target /\ req'[p].tid = req[p].tid
      BY <1>0, <2>1 DEF Request
    <2> QED  BY <2>1, <2>2 DEF Continues, Moves
  <1>5. CASE InsertAuthUser(p)
    BY <1>1, <1>2, <1>5 DEF InsertAuthUser, RejectsInsert
  <1>6. CASE SetupCount(p)
    BY <1>1, <1>2, <1>6 DEF SetupCount
  <1>7. CASE SetupFlag(p)
    BY <1>1, <1>2, <1>7 DEF SetupFlag
  <1>8. CASE LoginInsert(p)
    BY <1>1, <1>2, <1>8 DEF LoginInsert
  <1>9. CASE Logout(p)
    BY <1>1, <1>2, <1>9 DEF Logout
  <1>10. CASE ChangePasswordCheck(p)
    BY <1>1, <1>2, <1>10 DEF ChangePasswordCheck
  <1>11. CASE WriteHash(p)
    BY <1>1, <1>2, <1>11 DEF WriteHash
  <1>12. CASE DropSessions(p)
    BY <1>1, <1>2, <1>12 DEF DropSessions
  <1>13. CASE CreateCheck(p)
    BY <1>1, <1>2, <1>13 DEF CreateCheck
  <1>14. CASE UpdateSnapshot(p)
    BY <1>1, <1>2, <1>14 DEF UpdateSnapshot
  <1>15. CASE UpdateGuarded(p)
    BY <1>1, <1>2, <1>15 DEF UpdateGuarded
  <1>16. CASE WriteRole(p)
    BY <1>1, <1>2, <1>16 DEF WriteRole
  <1>17. CASE ClearDev(p)
    BY <1>1, <1>2, <1>17 DEF ClearDev
  <1>18. CASE DeleteSnapshot(p)
    BY <1>1, <1>2, <1>18 DEF DeleteSnapshot
  <1>19. CASE DeleteGuarded(p)
    BY <1>1, <1>2, <1>19 DEF DeleteGuarded
  <1>20. CASE DeleteRow(p)
    BY <1>1, <1>2, <1>20 DEF DeleteRow
  <1>21. CASE CliDeleteRole(p)
    BY <1>1, <1>2, <1>21 DEF CliDeleteRole
  <1>22. CASE CliRoleCount(p)
    BY <1>1, <1>2, <1>22 DEF CliRoleCount
  <1>23. CASE Cancel(p)
    BY <1>1, <1>2, <1>23 DEF Cancel
  <1>24. CASE CreateResolve(p)
    BY <1>1, <1>3, <1>24 DEF CreateResolve
  <1>25. CASE UpdateResolve(p)
    BY <1>1, <1>3, <1>25 DEF UpdateResolve
  <1>26. CASE DeleteResolve(p)
    BY <1>1, <1>3, <1>26 DEF DeleteResolve
  <1>27. CASE ResetResolve(p)
    BY <1>1, <1>3, <1>27 DEF ResetResolve
  <1>28. CASE CreateAssign(p)
    BY <1>1, <1>2, <1>4, <1>28 DEF CreateAssign
  <1>29. CASE AssignDev(p)
    BY <1>1, <1>2, <1>4, <1>29 DEF AssignDev
  <1>30. CASE SkipStatement(p)
    BY <1>1, <1>2, <1>4, <1>30 DEF SkipStatement
  <1> QED
    BY <1>5, <1>6, <1>7, <1>8, <1>9, <1>10, <1>11, <1>12, <1>13, <1>14, <1>15, <1>16,
       <1>17, <1>18, <1>19, <1>20, <1>21, <1>22, <1>23, <1>24, <1>25, <1>26, <1>27, <1>28, <1>29, <1>30 DEF Step

\* The inductive invariant behind NeverOwnAccount: while the acting admin's
\* account exists its name differs from the target, and ids in use never
\* come to mean another account.
OwnAccountInv ==
    \A p \in Procs :
        /\ {req[p].tid, req[p].actor} \subseteq used \cup {None}
        /\ req[p].op \in {"update", "delete"} =>
             /\ req[p].actor \in used
             /\ req[p].actor \in DOMAIN users
                  => users[req[p].actor].name # req[p].target
             /\ req[p].tid # None => req[p].tid # req[p].actor

LEMMA OwnAccountStep ==
    ASSUME TypeInv, TablesOK, OwnAccountInv, [Next]_vars
    PROVE  OwnAccountInv'
  <1>1. NamesFixed
    BY NamesStay
  <1>2. ASSUME NEW p \in Procs
        PROVE  req'[p] = req[p] \/ Moves(req[p], req'[p])
    <2>1. CASE UNCHANGED req
      BY <2>1
    <2>2. ASSUME NEW q \in Procs,
                 Begin(q) \/ Step(q) \/ Cancel(q) \/ SkipStatement(q)
          PROVE  req'[p] = req[p] \/ Moves(req[p], req'[p])
      BY <2>2, BeginMoves, StepMoves DEF Continues
    <2> QED  BY <2>1, <2>2 DEF Next, ExpireSession, vars
  <1>3. ASSUME NEW p \in Procs
        PROVE  /\ {req'[p].tid, req'[p].actor} \subseteq used' \cup {None}
               /\ req'[p].op \in {"update", "delete"} =>
                    /\ req'[p].actor \in used'
                    /\ req'[p].actor \in DOMAIN users'
                         => users'[req'[p].actor].name # req'[p].target
                    /\ req'[p].tid # None => req'[p].tid # req'[p].actor
    <2>0. DOMAIN users \subseteq used /\ used \subseteq Ids
      BY DEF TablesOK
    <2>1. CASE req'[p] = req[p]
      BY <1>1, <2>1 DEF OwnAccountInv, NamesFixed
    <2>2. CASE Moves(req[p], req'[p])
      BY <1>1, <2>0, <2>2, NoneAssumption
         DEF OwnAccountInv, NamesFixed, Moves, Named
    <2> QED  BY <1>2, <2>1, <2>2
  <1> QED  BY <1>3 DEF OwnAccountInv

LEMMA OwnAccountInit == Init => OwnAccountInv
  <1>1. Idle.tid = None /\ Idle.actor = None /\ Idle.op = "none"
    BY DEF Idle
  <1>2. Init => \A p \in Procs : req[p] = Idle
    BY DEF Init
  <1> QED  BY <1>1, <1>2 DEF OwnAccountInv

\* However accounts are created and deleted around them, usernames stay
\* distinct and the ids that requests hold stay those of the accounts they
\* resolved.
THEOREM IdentityKept == Spec => []AccountIdentity
  <1> DEFINE IInv == TypeInv /\ TablesOK /\ OwnAccountInv
  <1>1. Init => IInv
    BY TypesInit, OwnAccountInit
  <1>2. IInv /\ [Next]_vars => IInv'
    BY TypesStep, OwnAccountStep
  <1>3. IInv => AccountIdentity
    BY DEF TablesOK, OwnAccountInv, AccountIdentity
  <1> QED  BY <1>1, <1>2, <1>3, PTL DEF Spec

\* No admin ever changes the role of, or deletes, the account the request
\* was made with, for any number of concurrent requests.
THEOREM OwnAccountSafe == Spec => []NeverOwnAccount
  <1> DEFINE IInv == TypeInv /\ TablesOK /\ OwnAccountInv
  <1>1. Init => IInv
    BY TypesInit, OwnAccountInit
  <1>2. IInv /\ [Next]_vars => IInv'
    BY TypesStep, OwnAccountStep
  <1>3. IInv => NeverOwnAccount
    BY DEF OwnAccountInv, NeverOwnAccount
  <1> QED  BY <1>1, <1>2, <1>3, PTL DEF Spec

-----------------------------------------------------------------------------
(* The last admin *)

\* The queries of WebAccounts as functions of the table's contents u.
AdminsIn(u) == {i \in DOMAIN u : u[i].role = "admin"}

NamedIn(u, n) == {i \in DOMAIN u : u[i].name = n}

RowsIn(u, r) == IF r.op \in CliOps THEN NamedIn(u, r.target)
                ELSE {r.tid} \cap DOMAIN u

SeveralIn(u) == \E i, j \in AdminsIn(u) : i # j

\* What a request that takes away a role or an account relies on, by program
\* counter: what it has read still holds when it writes.
Guard(u, r) ==
    /\ r.pc \in {"update_guarded", "delete_guarded"} => SeveralIn(u)
    /\ \/ r.pc = "write_role" /\ r.role # "admin"
       \/ r.pc \in {"sessions_then_delete", "delete_row"}
       => SeveralIn(u) \/ RowsIn(u, r) \cap AdminsIn(u) = {}
    /\ r.pc = "cli_delete_role" /\ r.several => SeveralIn(u)
    /\ \/ r.op = "cli_role" /\ r.pc \in {"cli_role_count", "write_role"}
       \/ r.op = "cli_delete" /\ r.pc \in {"sessions_then_delete", "delete_row"}
       => NamedIn(u, r.target) # {}

\* At most one remover is in flight, and its guard holds.
AdminInv ==
    /\ \A p, q \in Procs : req[p].op \in Removers /\ req[q].op \in Removers
                              => p = q
    /\ \A p \in Procs : Guard(users, req[p])

\* The accounts of u keep role and name in v, and those that are new in v
\* take neither an id of K nor a name of u.
Calm(u, v, K) ==
    /\ \A k \in DOMAIN u : /\ k \in DOMAIN v
                           /\ v[k].role = u[k].role /\ v[k].name = u[k].name
    /\ \A k \in DOMAIN v \ DOMAIN u :
         k \notin K /\ \A j \in DOMAIN u : u[j].name # v[k].name

LEMMA CalmGuard ==
    ASSUME NEW u, NEW v, NEW K, NEW r, Calm(u, v, K), r.tid \in K \/ r.tid = None,
           None \notin DOMAIN v, Guard(u, r),
           r.pc = "write_role" => r.op \in {"update", "cli_role"},
           r.pc \in {"sessions_then_delete", "delete_row"}
              => r.op \in {"delete", "cli_delete"}
    PROVE  Guard(v, r)
  <1>1. SeveralIn(u) => SeveralIn(v)
    BY DEF SeveralIn, AdminsIn, Calm
  <1>2. NamedIn(u, r.target) # {} => /\ NamedIn(v, r.target) # {}
                                     /\ NamedIn(v, r.target) = NamedIn(u, r.target)
    BY DEF NamedIn, Calm
  <1>3. {r.tid} \cap DOMAIN v = {r.tid} \cap DOMAIN u
    BY DEF Calm
  <1>4. \A i \in DOMAIN u : i \in AdminsIn(v) <=> i \in AdminsIn(u)
    BY DEF AdminsIn, Calm
  <1>5. ASSUME r.op \in CliOps => NamedIn(u, r.target) # {}
        PROVE  RowsIn(u, r) \cap AdminsIn(u) = {}
                  => RowsIn(v, r) \cap AdminsIn(v) = {}
    BY <1>2, <1>3, <1>4, <1>5 DEF RowsIn, NamedIn
  <1>6. "update" \notin CliOps /\ "delete" \notin CliOps
    BY DEF CliOps
  <1> QED  BY <1>1, <1>2, <1>5, <1>6 DEF Guard

\* The four statements that take an account or a role away.
Removes(p) == UpdateGuarded(p) \/ WriteRole(p) \/ DeleteGuarded(p) \/ DeleteRow(p)

LEMMA CalmStep ==
    ASSUME TypeInv, TablesOK, [Next]_vars, \A p \in Procs : ~Removes(p)
    PROVE  Calm(users, users', used)
  <1>1. CASE UNCHANGED users
    BY <1>1 DEF Calm
  <1>2. ASSUME NEW p \in Procs, InsertAuthUser(p)
        PROVE  Calm(users, users', used)
    <2>1. CASE UNCHANGED tables
      BY <2>1, <1>1 DEF tables
    <2>2. CASE ~UNCHANGED tables
      <3>1. PICK i \in Ids \ used, h \in Hashes :
              InsertRow(i, req[p].target, req[p].role, h)
        BY <1>2, <2>2 DEF InsertAuthUser, RejectsInsert
      <3>2. Named(req[p].target) = {}
        BY <1>2, <2>2 DEF InsertAuthUser, RejectsInsert
      <3>3. DOMAIN users \subseteq used
        BY DEF TablesOK
      <3> QED  BY <3>1, <3>2, <3>3 DEF InsertRow, Calm, Named
    <2> QED  BY <2>1, <2>2
  <1>3. ASSUME NEW p \in Procs, WriteHash(p)
        PROVE  Calm(users, users', used)
    BY <1>3 DEF WriteHash, SetHash, Calm, TablesOK, UserRow
  <1>4. ASSUME NEW p \in Procs, Begin(p)
        PROVE  UNCHANGED users
    BY <1>4 DEF Begin, SetupStart, LoginStart, UserRequest, AdminRequest,
       CliCreate, CliRole, CliDeleteCount, CliReset, tables
  <1>5. ASSUME NEW p \in Procs, Step(p), ~InsertAuthUser(p), ~WriteHash(p)
        PROVE  UNCHANGED users
    BY <1>5 DEF Removes, Step, SetupFlag, LoginInsert, Logout, DropSessions,
       CreateAssign, AssignDev, ClearDev, SetupCount, ChangePasswordCheck,
       CreateCheck, CreateResolve, UpdateResolve, UpdateSnapshot, DeleteResolve,
       DeleteSnapshot, ResetResolve, CliDeleteRole, CliRoleCount, tables
  <1> QED
    BY <1>1, <1>2, <1>3, <1>4, <1>5 DEF Next, Cancel, SkipStatement,
       ExpireSession, vars, tables

\* A new request takes no guard for granted, except what it has just read.
LEMMA BeginGuard ==
    ASSUME TypeInv, TablesOK, NEW p \in Procs, Begin(p)
    PROVE  Guard(users, req'[p])
  <1> USE DEF TypeInv, TypeOK, Accept
  <1>1. \A n, i, h, t :
           /\ Guard(users, SetupRequest(n)) /\ Guard(users, LoginRequest(i, h))
           /\ Guard(users, LogoutRequest(i, t)) /\ Guard(users, PasswordRequest(i))
    BY DEF Guard, SetupRequest, LoginRequest, LogoutRequest, PasswordRequest, Idle
  <1>2. \A op, i, n, r, D : Guard(users, ManageRequest(op, i, n, r, D))
    BY DEF Guard, ManageRequest, Idle
  <1>3. \A n, r : /\ Guard(users, CliRequest("cli_create", "insert_user", n, r, FALSE))
                  /\ Guard(users, CliRequest("cli_reset", "write_hash", n, r, FALSE))
    BY DEF Guard, CliRequest, Idle
  <1>4. \A n : Guard(users, CliRequest("cli_delete", "cli_delete_role", n, "none",
                                      MoreThanOneAdmin))
    BY DEF Guard, CliRequest, Idle, MoreThanOneAdmin, SeveralIn, Admins, AdminsIn
  <1>5. ASSUME NEW n \in Names, NEW r \in Roles, NEW i \in Named(n)
        PROVE  /\ Guard(users, CliRequest("cli_role", "cli_role_count", n, r, FALSE))
               /\ users[i].role # "admin" =>
                    Guard(users, CliRequest("cli_role", "write_role", n, r, FALSE))
    <2>1. NamedIn(users, n) = {i}
      BY DEF NamedIn, Named, TablesOK
    <2>2. Guard(users, CliRequest("cli_role", "cli_role_count", n, r, FALSE))
      BY <2>1 DEF Guard, CliRequest, Idle
    <2>3. ASSUME users[i].role # "admin"
          PROVE  Guard(users, CliRequest("cli_role", "write_role", n, r, FALSE))
      <3> DEFINE c == CliRequest("cli_role", "write_role", n, r, FALSE)
      <3>1. c.pc = "write_role" /\ c.op = "cli_role" /\ c.target = n
        BY DEF CliRequest, Idle
      <3>2. RowsIn(users, c) = {i}
        BY <2>1, <3>1 DEF RowsIn, CliOps
      <3>3. i \notin AdminsIn(users)
        BY <2>3 DEF AdminsIn
      <3> HIDE DEF c
      <3>4. Guard(users, c)
        BY <2>1, <3>1, <3>2, <3>3 DEF Guard
      <3> QED  BY <3>4 DEF c
    <2> QED  BY <2>2, <2>3
  <1>6. CASE \E n \in Names : SetupStart(p, n) \/ LoginStart(p, n)
    BY <1>1, <1>6 DEF SetupStart, LoginStart
  <1>7. CASE \E t \in Tokens, op \in {"logout", "password"} : UserRequest(p, t, op)
    BY <1>1, <1>7 DEF UserRequest
  <1>8. CASE \E t \in Tokens, op \in ManageOps, n \in Names,
                r \in Roles \cup {"none"}, D \in SUBSET Dbs :
               AdminRequest(p, t, op, n, r, D)
    BY <1>2, <1>8 DEF AdminRequest
  <1>9. CASE \E n \in Names, r \in Roles : CliCreate(p, n, r)
    <2>1. PICK n \in Names, r \in Roles : CliCreate(p, n, r)
      BY <1>9
    <2>2. req'[p] = CliRequest("cli_create", "insert_user", n, r, FALSE)
      BY <2>1 DEF CliCreate
    <2> QED  BY <1>3, <2>2
  <1>10. CASE \E n \in Names, r \in Roles : CliRole(p, n, r)
    BY <1>5, <1>10 DEF CliRole
  <1>11. CASE \E n \in Names : CliDeleteCount(p, n) \/ CliReset(p, n)
    <2>1. PICK n \in Names : CliDeleteCount(p, n) \/ CliReset(p, n)
      BY <1>11
    <2>2. \/ req'[p] = CliRequest("cli_delete", "cli_delete_role", n, "none",
                                 MoreThanOneAdmin)
          \/ req'[p] = CliRequest("cli_reset", "write_hash", n, "none", FALSE)
      BY <2>1 DEF CliDeleteCount, CliReset
    <2> QED  BY <1>3, <1>4, <2>2
  <1> QED  BY <1>6, <1>7, <1>8, <1>9, <1>10, <1>11 DEF Begin

\* A statement that removes nothing leaves its own request guarded.
LEMMA StepGuard ==
    ASSUME TypeInv, TablesOK, NEW p \in Procs, Guard(users, req[p]),
           Step(p) \/ Cancel(p) \/ SkipStatement(p), ~Removes(p)
    PROVE  Guard(users', req'[p])
  <1>0. /\ req \in [Procs -> Request] /\ req[p] \in Request
        /\ AtOp(req[p].pc, req[p].op)
    BY DEF TypeInv, TypeOK, ShapedRequest, Shape
  <1>1. ASSUME NEW pc, pc \notin {"update_guarded", "delete_guarded", "write_role",
                                 "sessions_then_delete", "delete_row",
                                 "cli_delete_role", "cli_role_count"},
               req'[p].pc = pc
        PROVE  Guard(users', req'[p])
    BY <1>1 DEF Guard
  <1>2. CASE Done(p)
    <2>1. req'[p].pc = "idle"
      BY <1>0, <1>2 DEF Done, Idle
    <2> QED  BY <1>1, <2>1
  <1>3. ASSUME NEW pc, Goto(p, pc)
        PROVE  /\ req'[p].pc = pc /\ req'[p].op = req[p].op
               /\ req'[p].target = req[p].target /\ req'[p].tid = req[p].tid
               /\ req'[p].role = req[p].role
    <2>1. req'[p] = [req[p] EXCEPT !.pc = pc]
      BY <1>0, <1>3 DEF Goto
    <2> QED  BY <1>0, <2>1 DEF Request
  <1>4. ASSUME NEW i, NEW pc, Resolved(p, i, pc)
        PROVE  /\ req'[p].pc = pc /\ req'[p].op = req[p].op
               /\ req'[p].target = req[p].target /\ req'[p].tid = i
               /\ req'[p].role = req[p].role
    <2>1. req'[p] = [req[p] EXCEPT !.pc = pc, !.tid = i]
      BY <1>0, <1>4 DEF Resolved, Request
    <2> QED  BY <1>0, <2>1 DEF Request
  <1>5. ASSUME NEW d, req' = [req EXCEPT ![p].dbs = @ \ {d}]
        PROVE  req'[p].pc = req[p].pc
    <2>1. req'[p] = [req[p] EXCEPT !.dbs = req[p].dbs \ {d}]
      BY <1>0, <1>5 DEF Request
    <2> QED  BY <1>0, <2>1 DEF Request
  <1>6. CASE UpdateSnapshot(p)
    <2>1. CASE req[p].tid \in DOMAIN users /\ MoreThanOneAdmin
      BY <1>3, <1>6, <2>1 DEF UpdateSnapshot, MoreThanOneAdmin, Admins,
         SeveralIn, AdminsIn, Guard, tables
    <2>2. CASE ~(req[p].tid \in DOMAIN users /\ MoreThanOneAdmin)
      BY <1>2, <1>6, <2>2 DEF UpdateSnapshot
    <2> QED  BY <2>1, <2>2
  <1>7. CASE DeleteSnapshot(p)
    <2>1. CASE req[p].tid \in Admins /\ MoreThanOneAdmin
      BY <1>3, <1>7, <2>1 DEF DeleteSnapshot, MoreThanOneAdmin, Admins,
         SeveralIn, AdminsIn, Guard, tables
    <2>2. CASE ~(req[p].tid \in Admins /\ MoreThanOneAdmin)
      BY <1>2, <1>7, <2>2 DEF DeleteSnapshot
    <2> QED  BY <2>1, <2>2
  <1>8. CASE UpdateResolve(p)
    <2>1. CASE Done(p)
      BY <1>2, <2>1
    <2>2. ASSUME NEW i \in Named(req[p].target),
                 Resolved(p, i, IF users[i].role = "admin" /\ req[p].role # "admin"
                                THEN "update_snapshot" ELSE "write_role")
          PROVE  Guard(users', req'[p])
      <3>1. UNCHANGED users /\ req[p].op = "update" /\ "update" \notin CliOps
        BY <1>8 DEF UpdateResolve, tables, CliOps
      <3>2. CASE users[i].role = "admin" /\ req[p].role # "admin"
        BY <1>1, <1>4, <2>2, <3>2
      <3>3. CASE ~(users[i].role = "admin" /\ req[p].role # "admin")
        BY <1>4, <2>2, <3>1, <3>3 DEF Guard, RowsIn, AdminsIn
      <3> QED  BY <3>2, <3>3
    <2> QED  BY <1>8, <2>1, <2>2 DEF UpdateResolve
  <1>9. CASE DeleteResolve(p)
    <2>1. CASE Done(p)
      BY <1>2, <2>1
    <2>2. ASSUME NEW i \in Named(req[p].target),
                 Resolved(p, i, IF users[i].role = "admin" THEN "delete_snapshot"
                                ELSE "sessions_then_delete")
          PROVE  Guard(users', req'[p])
      <3>1. UNCHANGED users /\ req[p].op = "delete" /\ "delete" \notin CliOps
        BY <1>9 DEF DeleteResolve, tables, CliOps
      <3>2. CASE users[i].role = "admin"
        BY <1>1, <1>4, <2>2, <3>2
      <3>3. CASE users[i].role # "admin"
        BY <1>4, <2>2, <3>1, <3>3 DEF Guard, RowsIn, AdminsIn
      <3> QED  BY <3>2, <3>3
    <2> QED  BY <1>9, <2>1, <2>2 DEF DeleteResolve
  <1>10. ASSUME UNCHANGED users, req[p].pc = "sessions_then_delete",
                Goto(p, "delete_row")
         PROVE  Guard(users', req'[p])
    <2>1. RowsIn(users', req'[p]) = RowsIn(users, req[p])
      BY <1>3, <1>10 DEF RowsIn
    <2> QED  BY <1>3, <1>10, <2>1 DEF Guard
  <1>11. CASE DropSessions(p)
    BY <1>2, <1>10, <1>11 DEF DropSessions
  <1>12. CASE SkipStatement(p)
    BY <1>1, <1>2, <1>3, <1>5, <1>10, <1>12 DEF SkipStatement, tables
  <1>13. CASE CliDeleteRole(p)
    <2>1. UNCHANGED users /\ req[p].op = "cli_delete"
      BY <1>0, <1>13 DEF CliDeleteRole, tables, AtOp
    <2>2. /\ Rows(p) = RowsIn(users, req[p]) /\ Admins = AdminsIn(users)
          /\ RowsIn(users, req[p]) = NamedIn(users, req[p].target)
      BY <2>1 DEF Rows, RowsIn, Named, NamedIn, Admins, AdminsIn, CliOps
    <2>3. CASE Rows(p) # {} /\ (Rows(p) \cap Admins # {} => req[p].several)
      <3>1. Goto(p, "sessions_then_delete") /\ req[p].pc = "cli_delete_role"
        BY <1>13, <2>3 DEF CliDeleteRole
      <3>2. RowsIn(users', req'[p]) = RowsIn(users, req[p])
        BY <1>3, <2>1, <3>1 DEF RowsIn
      <3> QED  BY <1>3, <2>1, <2>2, <2>3, <3>1, <3>2 DEF Guard
    <2>4. CASE ~(Rows(p) # {} /\ (Rows(p) \cap Admins # {} => req[p].several))
      BY <1>2, <1>13, <2>4 DEF CliDeleteRole
    <2> QED  BY <2>3, <2>4
  <1>14. CASE CliRoleCount(p)
    <2>1. CASE MoreThanOneAdmin
      <3>1. /\ UNCHANGED users /\ req[p].pc = "cli_role_count"
            /\ Goto(p, "write_role") /\ req[p].op = "cli_role"
        BY <1>0, <1>14, <2>1 DEF CliRoleCount, tables, AtOp
      <3>2. SeveralIn(users)
        BY <2>1 DEF SeveralIn, MoreThanOneAdmin, Admins, AdminsIn
      <3> QED  BY <1>3, <3>1, <3>2 DEF Guard
    <2>2. CASE ~MoreThanOneAdmin
      BY <1>2, <1>14, <2>2 DEF CliRoleCount
    <2> QED  BY <2>1, <2>2
  <1>15. CASE \/ SetupCount(p) \/ SetupFlag(p) \/ LoginInsert(p) \/ Logout(p)
              \/ ChangePasswordCheck(p) \/ WriteHash(p) \/ CreateCheck(p)
              \/ ClearDev(p) \/ Cancel(p)
    BY <1>1, <1>2, <1>3, <1>15 DEF SetupCount, SetupFlag, LoginInsert, Logout,
       ChangePasswordCheck, WriteHash, CreateCheck, ClearDev, Cancel
  <1>16. CASE InsertAuthUser(p)
    BY <1>1, <1>2, <1>3, <1>16 DEF InsertAuthUser, RejectsInsert
  <1>17. CASE CreateResolve(p) \/ ResetResolve(p)
    BY <1>1, <1>2, <1>4, <1>17 DEF CreateResolve, ResetResolve
  <1>18. CASE CreateAssign(p) \/ AssignDev(p)
    BY <1>1, <1>2, <1>5, <1>18 DEF CreateAssign, AssignDev
  <1> QED
    BY <1>6, <1>7, <1>8, <1>9, <1>11, <1>12, <1>13, <1>14, <1>15, <1>16, <1>17,
       <1>18 DEF Step, Removes

\* Every request begins with the check that keeps operations apart.
LEMMA BeginMay ==
    ASSUME TypeInv, NEW p \in Procs, Begin(p)
    PROVE  MayStart(p, req'[p].op)
  <1> USE DEF TypeInv, TypeOK, Accept
  <1>1. \A n, i, h, t :
           /\ SetupRequest(n).op = "setup" /\ LoginRequest(i, h).op = "login"
           /\ LogoutRequest(i, t).op = "logout" /\ PasswordRequest(i).op = "password"
    BY DEF SetupRequest, LoginRequest, LogoutRequest, PasswordRequest, Idle
  <1>2. /\ \A op, i, n, r, D : ManageRequest(op, i, n, r, D).op = op
        /\ \A op, pc, n, r, b : CliRequest(op, pc, n, r, b).op = op
    BY DEF ManageRequest, CliRequest, Idle
  <1>4. CASE \E n \in Names : SetupStart(p, n) \/ LoginStart(p, n)
    BY <1>1, <1>4 DEF SetupStart, LoginStart
  <1>5. CASE \E t \in Tokens, op \in {"logout", "password"} : UserRequest(p, t, op)
    BY <1>1, <1>5 DEF UserRequest
  <1>6. CASE \E t \in Tokens, op \in ManageOps, n \in Names,
                r \in Roles \cup {"none"}, D \in SUBSET Dbs :
               AdminRequest(p, t, op, n, r, D)
    <2>1. PICK t \in Tokens, op \in ManageOps, n \in Names,
               r \in Roles \cup {"none"}, D \in SUBSET Dbs :
               AdminRequest(p, t, op, n, r, D)
      BY <1>6
    <2>2. MayStart(p, op) /\ req'[p].op = op
      BY <1>2, <2>1 DEF AdminRequest
    <2> QED  BY <2>2
  <1>7. ASSUME NEW n \in Names, NEW r \in Roles, CliCreate(p, n, r)
        PROVE  MayStart(p, "cli_create") /\ req'[p].op = "cli_create"
    <2>1. req'[p] = CliRequest("cli_create", "insert_user", n, r, FALSE)
      BY <1>7 DEF CliCreate
    <2>2. req'[p].op = "cli_create"
      BY <2>1 DEF CliRequest, Idle
    <2> QED  BY <1>7, <2>2 DEF CliCreate
  <1>8. ASSUME NEW n \in Names, NEW r \in Roles, CliRole(p, n, r)
        PROVE  MayStart(p, "cli_role") /\ req'[p].op = "cli_role"
    <2>1. PICK pc : req'[p] = CliRequest("cli_role", pc, n, r, FALSE)
      BY <1>8 DEF CliRole
    <2>2. req'[p].op = "cli_role"
      BY <2>1 DEF CliRequest, Idle
    <2> QED  BY <1>8, <2>2 DEF CliRole
  <1>9. ASSUME NEW n \in Names, CliDeleteCount(p, n)
        PROVE  MayStart(p, "cli_delete") /\ req'[p].op = "cli_delete"
    <2>1. req'[p] = CliRequest("cli_delete", "cli_delete_role", n, "none",
                               MoreThanOneAdmin)
      BY <1>9 DEF CliDeleteCount
    <2> QED  BY <1>2, <1>9, <2>1 DEF CliDeleteCount
  <1>10. ASSUME NEW n \in Names, CliReset(p, n)
         PROVE  MayStart(p, "cli_reset") /\ req'[p].op = "cli_reset"
    <2>1. req'[p] = CliRequest("cli_reset", "write_hash", n, "none", FALSE)
      BY <1>10 DEF CliReset
    <2>2. req'[p].op = "cli_reset"
      BY <2>1 DEF CliRequest, Idle
    <2> QED  BY <1>10, <2>2 DEF CliReset
  <1>11. CASE \/ \E n \in Names, r \in Roles : CliCreate(p, n, r) \/ CliRole(p, n, r)
              \/ \E n \in Names : CliDeleteCount(p, n) \/ CliReset(p, n)
    BY <1>7, <1>8, <1>9, <1>10, <1>11
  <1> QED  BY <1>4, <1>5, <1>6, <1>11 DEF Begin

\* A remover starts only when no other is in flight, if clients keep them
\* apart.
LEMMA BeginAlone ==
    ASSUME TypeInv, Removers \X Removers \subseteq Apart,
           NEW p \in Procs, Begin(p), req'[p].op \in Removers
    PROVE  \A q \in Procs : req[q].op \notin Removers
  BY BeginMay DEF MayStart

\* After its removing statement a request relies on nothing any more.
LEMMA RemovesGuard ==
    ASSUME TypeInv, NEW p \in Procs, Removes(p)
    PROVE  /\ Guard(users', req'[p]) /\ req[p].op \in Removers
           /\ req'[p] # req[p]
  <1>0. /\ req \in [Procs -> Request] /\ req[p] \in Request
        /\ AtOp(req[p].pc, req[p].op)
    BY DEF TypeInv, TypeOK, ShapedRequest, Shape
  <1>1. req[p].op \in Removers
    BY <1>0 DEF Removes, UpdateGuarded, WriteRole, DeleteGuarded, DeleteRow,
       AtOp, Removers
  <1>2. req'[p].pc \in {"idle", "clear_dev", "sessions_then_done"}
    BY <1>0 DEF Removes, UpdateGuarded, WriteRole, DeleteGuarded, DeleteRow,
       Done, Goto, Idle, Request
  <1>3. req[p].pc \notin {"idle", "clear_dev", "sessions_then_done"}
    BY DEF Removes, UpdateGuarded, WriteRole, DeleteGuarded, DeleteRow
  <1> QED  BY <1>1, <1>2, <1>3 DEF Guard

LEMMA AdminStep ==
    ASSUME Removers \X Removers \subseteq Apart,
           TypeInv, TablesOK, OwnAccountInv, AdminInv, [Next]_vars
    PROVE  AdminInv'
  <1>1. CASE UNCHANGED req
    <2>1. Calm(users, users', used)
      BY <1>1, CalmStep, RemovesGuard
    <2>2. \A p \in Procs : Guard(users', req[p])
      <3> TAKE p \in Procs
      <3>1. None \notin DOMAIN users' /\ AtOp(req[p].pc, req[p].op)
        BY TypesStep, NoneAssumption DEF TypeInv, TypeOK, ShapedRequest, Shape
      <3>2. req[p].tid \in used \/ req[p].tid = None
        BY DEF OwnAccountInv
      <3> QED
        BY <2>1, <3>1, <3>2, CalmGuard DEF AdminInv, AtOp
    <2> QED  BY <1>1, <2>2 DEF AdminInv
  <1>2. ASSUME NEW p \in Procs,
               Begin(p) \/ Step(p) \/ Cancel(p) \/ SkipStatement(p)
        PROVE  AdminInv'
    <2>1. /\ \A q \in Procs \ {p} : req'[q] = req[q]
          /\ req'[p].op \in Removers =>
               \A q \in Procs \ {p} : req[q].op \notin Removers
      <3>1. CASE Begin(p)
        BY <3>1, BeginMoves, BeginAlone
      <3>2. CASE Step(p) \/ Cancel(p) \/ SkipStatement(p)
        BY <3>2, StepMoves DEF Continues, AdminInv, Removers
      <3> QED  BY <1>2, <3>1, <3>2
    <2>2. \A q, r \in Procs : req'[q].op \in Removers /\ req'[r].op \in Removers
                                => q = r
      BY <2>1 DEF AdminInv
    <2>3. ASSUME NEW q \in Procs \ {p}
          PROVE  Guard(users', req'[q])
      <3>0. req'[q] = req[q] /\ AtOp(req[q].pc, req[q].op)
        BY <2>1 DEF TypeInv, ShapedRequest, Shape
      <3>1. CASE Removes(p)
        <4>1. req[q].op \notin Removers
          BY <3>1, RemovesGuard DEF AdminInv
        <4> QED  BY <3>0, <4>1 DEF Guard, AtOp, Removers
      <3>2. CASE ~Removes(p)
        <4>1. \A s \in Procs : ~Removes(s)
          BY <2>1, <3>2, RemovesGuard
        <4>2. Calm(users, users', used)
          BY <4>1, CalmStep
        <4>3. None \notin DOMAIN users'
          BY TypesStep, NoneAssumption DEF TypeInv, TypeOK
        <4>4. req[q].tid \in used \/ req[q].tid = None
          BY DEF OwnAccountInv
        <4> QED
          BY <3>0, <4>2, <4>3, <4>4, CalmGuard DEF AdminInv, AtOp
      <3> QED  BY <3>1, <3>2
    <2>4. Guard(users', req'[p])
      <3>1. CASE Removes(p)
        BY <3>1, RemovesGuard
      <3>2. CASE Begin(p)
        <4>1. UNCHANGED users
          BY <3>2 DEF Begin, SetupStart, LoginStart, UserRequest, AdminRequest,
             CliCreate, CliRole, CliDeleteCount, CliReset, tables
        <4> QED  BY <3>2, <4>1, BeginGuard
      <3>3. CASE ~Removes(p) /\ (Step(p) \/ Cancel(p) \/ SkipStatement(p))
        BY <3>3, StepGuard DEF AdminInv
      <3> QED  BY <1>2, <3>1, <3>2, <3>3
    <2> QED  BY <2>2, <2>3, <2>4 DEF AdminInv
  <1> QED
    BY <1>1, <1>2 DEF Next, ExpireSession, vars

\* Two admins, and a set of at most one account that loses the role: an
\* admin is left.
LEMMA OneLeaves ==
    ASSUME TablesOK, NEW p \in Procs, SeveralIn(users)
    PROVE  AdminsIn(users) \ Rows(p) # {}
  <1>1. \A i, j \in Rows(p) : i = j
    BY DEF Rows, Named, TablesOK
  <1> QED  BY <1>1 DEF SeveralIn

LEMMA AdminRemains ==
    ASSUME TypeInv, TablesOK, AdminInv, [Next]_vars, Admins # {}
    PROVE  Admins' # {}
  <1>0. Admins = AdminsIn(users) /\ Admins' = AdminsIn(users')
    BY DEF Admins, AdminsIn
  <1>1. CASE \A p \in Procs : ~Removes(p)
    BY <1>0, <1>1, CalmStep DEF Calm, AdminsIn
  <1>2. ASSUME NEW p \in Procs, Removes(p)
        PROVE  Admins' # {}
    <2>0. /\ AtOp(req[p].pc, req[p].op) /\ Guard(users, req[p])
          /\ Rows(p) = RowsIn(users, req[p])
      BY DEF TypeInv, ShapedRequest, Shape, AdminInv, Rows, RowsIn, Named, NamedIn
    <2>1. ASSUME NEW k \in Admins \ Rows(p)
          PROVE  Admins' # {}
      <3>1. k \in DOMAIN users' /\ users'[k].role = "admin"
        BY <1>2, <2>1 DEF Removes, UpdateGuarded, WriteRole, DeleteGuarded,
           DeleteRow, SetRole, DeleteRows, Admins
      <3> QED  BY <3>1 DEF Admins
    <2>2. CASE req[p].pc = "write_role" /\ req[p].role = "admin"
      <3>1. SetRole(Rows(p), "admin")
        BY <1>2, <2>2 DEF Removes, UpdateGuarded, WriteRole, DeleteGuarded, DeleteRow
      <3>2. PICK k \in DOMAIN users : users[k].role = "admin"
        BY DEF Admins
      <3>3. k \in DOMAIN users' /\ users'[k].role = "admin"
        BY <3>1, <3>2 DEF SetRole, TablesOK, UserRow
      <3> QED  BY <3>3 DEF Admins
    <2>3. CASE SeveralIn(users)
      BY <1>0, <2>1, <2>3, OneLeaves
    <2>4. CASE Rows(p) \cap AdminsIn(users) = {}
      BY <1>0, <2>1, <2>4
    <2> QED
      BY <1>2, <2>0, <2>2, <2>3, <2>4 DEF Guard, Removes, UpdateGuarded, WriteRole,
         DeleteGuarded, DeleteRow
  <1> QED  BY <1>1, <1>2

\* If clients never overlap two operations that can take the admin role away
\* (UpdateAuthUser, DeleteAuthUser, the CLI's delete_user and change_role),
\* the guards of these operations keep an admin, whatever else runs at the
\* same time and wherever requests are cancelled.
THEOREM LastAdminSafe ==
    ASSUME Removers \X Removers \subseteq Apart
    PROVE  Spec => LastAdminKept
  <1> DEFINE IInv == TypeInv /\ TablesOK /\ OwnAccountInv /\ AdminInv
  <1>1. Init => IInv
    <2>1. Idle.op = "none" /\ Idle.pc = "idle"
      BY DEF Idle
    <2>2. Init => AdminInv
      BY <2>1 DEF Init, AdminInv, Guard, Removers
    <2> QED  BY <2>2, TypesInit, OwnAccountInit
  <1>2. IInv /\ [Next]_vars => IInv'
    BY TypesStep, OwnAccountStep, AdminStep
  <1>3. IInv /\ [Next]_vars => [Admins # {} => Admins' # {}]_vars
    BY AdminRemains
  <1> QED  BY <1>1, <1>2, <1>3, PTL DEF Spec, LastAdminKept
-----------------------------------------------------------------------------
(* The setup wizard *)

\* While the wizard's account or a successor as admin exists, no Setup gets
\* past its count; and before there is one, a single Setup is under way.
WizardInv ==
    /\ \A p, q \in Procs : req[p].op = "setup" /\ req[q].op = "setup" => p = q
    /\ \A p \in Procs : req[p].op = "setup" =>
          req[p].role = "admin" /\ (req[p].pc = "insert_user" => wizard = {})
    /\ wizard # {} => Admins # {}
    /\ SetupOnce

\* Only SetupStart makes a request of the wizard.
LEMMA BeginSetup ==
    ASSUME TypeInv, NEW p \in Procs, Begin(p), req'[p].op = "setup"
    PROVE  MayStart(p, "setup") /\ req'[p].role = "admin" /\ req'[p].pc = "setup_count"
  <1> USE DEF TypeInv, TypeOK, Accept
  <1>1. \A i, h, t : /\ LoginRequest(i, h).op = "login" /\ LogoutRequest(i, t).op = "logout"
                     /\ PasswordRequest(i).op = "password"
    BY DEF LoginRequest, LogoutRequest, PasswordRequest, Idle
  <1>2. /\ \A op, i, n, r, D : ManageRequest(op, i, n, r, D).op = op
        /\ \A op, pc, n, r, b : CliRequest(op, pc, n, r, b).op = op
    BY DEF ManageRequest, CliRequest, Idle
  <1>3. ASSUME NEW n \in Names, LoginStart(p, n)
        PROVE  req'[p].op = "login"
    BY <1>1, <1>3 DEF LoginStart
  <1>4. ASSUME NEW t \in Tokens, NEW op \in {"logout", "password"}, UserRequest(p, t, op)
        PROVE  req'[p].op \in {"logout", "password"}
    BY <1>1, <1>4 DEF UserRequest
  <1>5. ASSUME NEW t \in Tokens, NEW op \in ManageOps, NEW n \in Names,
               NEW r \in Roles \cup {"none"}, NEW D \in SUBSET Dbs,
               AdminRequest(p, t, op, n, r, D)
        PROVE  req'[p].op \in ManageOps
    BY <1>2, <1>5 DEF AdminRequest
  <1>6. ASSUME NEW n \in Names, NEW r \in Roles,
               \/ CliCreate(p, n, r) \/ CliRole(p, n, r)
               \/ CliDeleteCount(p, n) \/ CliReset(p, n)
        PROVE  req'[p].op \in CliOps
    <2>1. /\ CliCreate(p, n, r) => req'[p] = CliRequest("cli_create", "insert_user", n, r, FALSE)
          /\ CliRole(p, n, r) => \E pc : req'[p] = CliRequest("cli_role", pc, n, r, FALSE)
          /\ CliDeleteCount(p, n)
               => \E b : req'[p] = CliRequest("cli_delete", "cli_delete_role", n, "none", b)
          /\ CliReset(p, n) => req'[p] = CliRequest("cli_reset", "write_hash", n, "none", FALSE)
      BY DEF CliCreate, CliRole, CliDeleteCount, CliReset
    <2>2. \E op \in CliOps : \E pc, s, b : req'[p] = CliRequest(op, pc, n, s, b)
      BY <1>6, <2>1 DEF CliOps
    <2> QED  BY <1>2, <2>2
  <1>7. "admin" \in Roles /\ "setup" \notin ManageOps \cup CliOps \cup {"login", "logout", "password"}
    BY DEF Roles, ManageOps, CliOps
  <1>8. PICK n \in Names : SetupStart(p, n)
    BY <1>3, <1>4, <1>5, <1>6, <1>7 DEF Begin
  <1> QED  BY <1>8 DEF SetupStart, SetupRequest, Idle

\* What a statement of the wizard does, if no count fails.
LEMMA StepSetup ==
    ASSUME TypeInv, TablesOK, WizardInv, "stmt" \notin Faults,
           NEW p \in Procs, req[p].op = "setup",
           Step(p) \/ Cancel(p) \/ SkipStatement(p)
    PROVE  /\ req'[p].op = "setup" =>
                /\ req'[p].role = "admin"
                /\ req'[p].pc = "insert_user" => wizard = {} /\ wizard' = wizard
           /\ \/ wizard' = wizard
              \/ wizard = {} /\ \E i : wizard' = {i} /\ i \in Admins'
  <1>0. /\ req \in [Procs -> Request] /\ req[p] \in Request /\ AtOp(req[p].pc, req[p].op)
        /\ req[p].pc \in Pcs
    BY DEF TypeInv, TypeOK, ShapedRequest, Shape, Request
  <1>1. req[p].pc \in {"setup_count", "insert_user", "setup_flag"}
    BY <1>0 DEF AtOp, Pcs, PasswordOps
  <1>2. CASE Done(p) /\ wizard' = wizard
    <2>1. req'[p].op = "none"
      BY <1>0, <1>2 DEF Done, Idle
    <2> QED  BY <1>2, <2>1
  <1>3. CASE SetupCount(p)
    <2>1. CASE Done(p)
      BY <1>2, <1>3, <2>1 DEF SetupCount, tables
    <2>2. CASE DOMAIN users = {} /\ Goto(p, "insert_user") /\ wizard' = wizard
      <3>1. req'[p].role = req[p].role /\ wizard = {}
        BY <1>0, <2>2 DEF Goto, Request, WizardInv, Admins
      <3> QED  BY <2>2, <3>1 DEF WizardInv
    <2> QED  BY <1>3, <2>1, <2>2 DEF SetupCount, tables
  <1>4. CASE InsertAuthUser(p)
    <2>1. CASE Done(p) /\ UNCHANGED tables
      BY <1>2, <2>1 DEF tables
    <2>2. CASE \E i \in Ids \ used, h \in Hashes :
                  /\ InsertRow(i, req[p].target, req[p].role, h)
                  /\ wizard' = wizard \cup {i} /\ Goto(p, "setup_flag")
      <3>1. PICK i \in Ids \ used, h \in Hashes :
                  /\ InsertRow(i, req[p].target, req[p].role, h)
                  /\ wizard' = wizard \cup {i} /\ Goto(p, "setup_flag")
        BY <2>2
      <3>2. req[p].pc = "insert_user" /\ req[p].role = "admin" /\ wizard = {}
        BY <1>4 DEF InsertAuthUser, WizardInv
      <3>3. i \in Admins'
        BY <3>1, <3>2 DEF InsertRow, Admins
      <3>4. req'[p].pc = "setup_flag" /\ req'[p].role = req[p].role
        BY <1>0, <3>1 DEF Goto, Request
      <3> QED  BY <3>1, <3>2, <3>3, <3>4
    <2> QED  BY <1>4, <2>1, <2>2 DEF InsertAuthUser
  <1>5. CASE SetupFlag(p) \/ Cancel(p)
    BY <1>2, <1>5 DEF SetupFlag, Cancel, tables
  <1>6. ~SkipStatement(p)
    BY DEF SkipStatement
  <1> QED
    BY <1>1, <1>3, <1>4, <1>5, <1>6
    DEF Step, LoginInsert, Logout, ChangePasswordCheck, WriteHash, DropSessions, CreateCheck,
        CreateResolve, CreateAssign, UpdateResolve, UpdateSnapshot, UpdateGuarded, WriteRole,
        ClearDev, AssignDev, DeleteResolve, DeleteSnapshot, DeleteGuarded, DeleteRow,
        ResetResolve, CliDeleteRole, CliRoleCount

\* No other request makes an account of the wizard.
LEMMA WizardKept ==
    ASSUME NEW p \in Procs, req[p].op # "setup", Step(p) \/ Cancel(p) \/ SkipStatement(p)
    PROVE  wizard' = wizard
  <1>1. InsertAuthUser(p) => wizard' = wizard
    BY DEF InsertAuthUser, tables
  <1> QED
    BY <1>1
    DEF Step, LoginInsert, Logout, ChangePasswordCheck, WriteHash, DropSessions, CreateCheck,
        CreateResolve, CreateAssign, UpdateResolve, UpdateSnapshot, UpdateGuarded, WriteRole,
        ClearDev, AssignDev, DeleteResolve, DeleteSnapshot, DeleteGuarded, DeleteRow,
        ResetResolve, CliDeleteRole, CliRoleCount, SetupCount, SetupFlag, Cancel,
        SkipStatement, tables

LEMMA WizardStep ==
    ASSUME <<"setup", "setup">> \in Apart, "stmt" \notin Faults,
           TypeInv, TablesOK, AdminInv, WizardInv, [Next]_vars
    PROVE  WizardInv'
  <1>0. Admins # {} => Admins' # {}
    BY AdminRemains
  <1>1. CASE UNCHANGED req /\ UNCHANGED wizard
    BY <1>0, <1>1 DEF WizardInv, SetupOnce
  <1>2. ASSUME NEW p \in Procs, Begin(p)
        PROVE  WizardInv'
    <2>1. UNCHANGED wizard
      BY <1>2 DEF Begin, SetupStart, LoginStart, UserRequest, AdminRequest, CliCreate,
         CliRole, CliDeleteCount, CliReset, tables
    <2>2. \A q \in Procs \ {p} : req'[q] = req[q]
      BY <1>2, BeginMoves
    <2>3. CASE req'[p].op # "setup"
      BY <1>0, <2>1, <2>2, <2>3 DEF WizardInv, SetupOnce
    <2>4. CASE req'[p].op = "setup"
      <3>1. MayStart(p, "setup") /\ req'[p].role = "admin" /\ req'[p].pc = "setup_count"
        BY <1>2, <2>4, BeginSetup
      <3>2. \A q \in Procs : req[q].op # "setup"
        BY <3>1 DEF MayStart
      <3> QED  BY <1>0, <2>1, <2>2, <3>1, <3>2 DEF WizardInv, SetupOnce
    <2> QED  BY <2>3, <2>4
  <1>3. ASSUME NEW p \in Procs, Step(p) \/ Cancel(p) \/ SkipStatement(p)
        PROVE  WizardInv'
    <2>1. /\ req'[p].op \in {req[p].op, "none"}
          /\ \A q \in Procs \ {p} : req'[q] = req[q]
      BY <1>3, StepMoves DEF Continues
    <2>2. CASE req[p].op # "setup"
      <3>1. UNCHANGED wizard /\ req'[p].op # "setup"
        BY <1>3, <2>1, <2>2, WizardKept
      <3> QED  BY <1>0, <2>1, <3>1 DEF WizardInv, SetupOnce
    <2>3. CASE req[p].op = "setup"
      <3>1. \A q \in Procs \ {p} : req'[q].op # "setup"
        BY <2>1, <2>3 DEF WizardInv
      <3>2. /\ req'[p].op = "setup" =>
                 /\ req'[p].role = "admin"
                 /\ req'[p].pc = "insert_user" => wizard' = {}
            /\ \/ wizard' = wizard
               \/ \E i : wizard' = {i} /\ i \in Admins'
        BY <1>3, <2>3, StepSetup
      <3> QED  BY <1>0, <3>1, <3>2 DEF WizardInv, SetupOnce
    <2> QED  BY <2>2, <2>3
  <1>4. ASSUME NEW t \in Tokens, ExpireSession(t)
        PROVE  UNCHANGED req /\ UNCHANGED wizard
    BY <1>4 DEF ExpireSession
  <1> QED  BY <1>1, <1>2, <1>3, <1>4 DEF Next, vars

\* The wizard makes one account at most, although it checks with two
\* statements and inserts with a third: requests may be cancelled between any
\* two of them and the account may be deleted, but an admin remains, so the
\* count of the next Setup finds an account.  It takes that Setups do not
\* overlap, nor operations that remove admins, and that no count fails.
THEOREM WizardMakesOne ==
    ASSUME Removers \X Removers \subseteq Apart, <<"setup", "setup">> \in Apart,
           "stmt" \notin Faults
    PROVE  Spec => []SetupOnce
  <1> DEFINE IInv == TypeInv /\ TablesOK /\ OwnAccountInv /\ AdminInv /\ WizardInv
  <1>1. Init => IInv
    <2>1. Idle.op = "none" /\ Idle.pc = "idle"
      BY DEF Idle
    <2>2. Init => AdminInv /\ WizardInv
      BY <2>1 DEF Init, AdminInv, Guard, Removers, WizardInv, SetupOnce
    <2> QED  BY <2>2, TypesInit, OwnAccountInit
  <1>2. IInv /\ [Next]_vars => IInv'
    BY TypesStep, OwnAccountStep, AdminStep, WizardStep
  <1>3. IInv => SetupOnce
    BY DEF WizardInv
  <1> QED  BY <1>1, <1>2, <1>3, PTL DEF Spec

-----------------------------------------------------------------------------
(* Operations that clients keep apart *)

\* No two requests in flight are a pair of A.
ApartNow(A) == \A p, q \in Procs : p # q => <<req[p].op, req[q].op>> \notin A

LEMMA ApartInit ==
    ASSUME Init, NEW A \in SUBSET Apart
    PROVE  ApartNow(A)
  <1>1. \A p \in Procs : req[p].op = "none"
    BY DEF Init, Idle
  <1>2. <<"none", "none">> \notin A
    BY OpsAssumption DEF AllOps, ManageOps, CliOps
  <1> QED  BY <1>1, <1>2 DEF ApartNow

LEMMA ApartStep ==
    ASSUME TypeInv, TablesOK, [Next]_vars, NEW A \in SUBSET Apart, ApartNow(A),
           \A a, b : <<a, b>> \in A => <<b, a>> \in A
    PROVE  ApartNow(A)'
  <1>0. \A b : <<"none", b>> \notin A /\ <<b, "none">> \notin A
    BY OpsAssumption DEF AllOps, ManageOps, CliOps
  <1>1. CASE UNCHANGED req
    BY <1>1 DEF ApartNow
  <1>2. ASSUME NEW p \in Procs, Begin(p)
        PROVE  ApartNow(A)'
    <2>1. \A q \in Procs : <<req'[p].op, req[q].op>> \notin A
      BY <1>2, BeginMay DEF MayStart
    <2>2. \A q \in Procs \ {p} : req'[q] = req[q]
      BY <1>2, BeginMoves
    <2> QED  BY <2>1, <2>2 DEF ApartNow
  <1>3. ASSUME NEW p \in Procs, Step(p) \/ Cancel(p) \/ SkipStatement(p)
        PROVE  ApartNow(A)'
    <2>1. Continues(p)
      BY <1>3, StepMoves
    <2>2. /\ req'[p].op = req[p].op \/ req'[p].op = "none"
          /\ \A q \in Procs \ {p} : req'[q] = req[q]
      BY <2>1 DEF Continues
    <2> QED  BY <1>0, <2>2 DEF ApartNow
  <1> QED  BY <1>1, <1>2, <1>3 DEF Next, ExpireSession, vars

\* What the steps of a request leave of its fields.
LEMMA ReqFields ==
    ASSUME TypeInv, NEW p \in Procs
    PROVE  /\ Done(p) => req'[p].pc = "idle"
           /\ \A pc : Goto(p, pc) =>
                /\ req'[p].pc = pc /\ req'[p].op = req[p].op
                /\ req'[p].target = req[p].target /\ req'[p].tid = req[p].tid
                /\ req'[p].role = req[p].role /\ req'[p].hash = req[p].hash
           /\ \A i, pc : Resolved(p, i, pc) =>
                /\ req'[p].pc = pc /\ req'[p].op = req[p].op /\ req'[p].tid = i
                /\ req'[p].target = req[p].target /\ req'[p].role = req[p].role
           /\ \A d : req' = [req EXCEPT ![p].dbs = @ \ {d}] =>
                /\ req'[p].pc = req[p].pc /\ req'[p].op = req[p].op
                /\ req'[p].tid = req[p].tid /\ req'[p].role = req[p].role
  <1>0. req \in [Procs -> Request] /\ req[p] \in Request
    BY DEF TypeInv, TypeOK
  <1>1. Done(p) => req'[p].pc = "idle"
    BY <1>0 DEF Done, Idle
  <1>2. ASSUME NEW pc, Goto(p, pc)
        PROVE  /\ req'[p].pc = pc /\ req'[p].op = req[p].op
               /\ req'[p].target = req[p].target /\ req'[p].tid = req[p].tid
               /\ req'[p].role = req[p].role /\ req'[p].hash = req[p].hash
    <2>1. req'[p] = [req[p] EXCEPT !.pc = pc]
      BY <1>0, <1>2 DEF Goto
    <2> QED  BY <1>0, <2>1 DEF Request
  <1>3. ASSUME NEW i, NEW pc, Resolved(p, i, pc)
        PROVE  /\ req'[p].pc = pc /\ req'[p].op = req[p].op /\ req'[p].tid = i
               /\ req'[p].target = req[p].target /\ req'[p].role = req[p].role
    <2>1. req'[p] = [req[p] EXCEPT !.pc = pc, !.tid = i]
      BY <1>0, <1>3 DEF Resolved, Request
    <2> QED  BY <1>0, <2>1 DEF Request
  <1>4. ASSUME NEW d, req' = [req EXCEPT ![p].dbs = @ \ {d}]
        PROVE  /\ req'[p].pc = req[p].pc /\ req'[p].op = req[p].op
               /\ req'[p].tid = req[p].tid /\ req'[p].role = req[p].role
    <2>1. req'[p] = [req[p] EXCEPT !.dbs = req[p].dbs \ {d}]
      BY <1>0, <1>4 DEF Request
    <2> QED  BY <1>0, <2>1 DEF Request
  <1> QED  BY <1>1, <1>2, <1>3, <1>4

-----------------------------------------------------------------------------
(* Sessions of former passwords *)

LoginPassword == ({"login"} \X PasswordOps) \cup (PasswordOps \X {"login"})

\* The request p has written the hash of the account i, its sessions come next.
Dropping(p, i) ==
    /\ req[p].pc = "sessions_then_done" /\ req[p].op \in PasswordOps
    /\ i \in Rows(p)

\* What a Login has verified is still the account's hash when it inserts.
SessionInv ==
    /\ ApartNow(LoginPassword)
    /\ \A p \in Procs : req[p].pc = "login_insert" /\ req[p].tid \in DOMAIN users
         => users[req[p].tid].hash = req[p].hash
    /\ StaleSessionsDropped

\* Passwords change in one statement only.
LEMMA HashesStay ==
    ASSUME TypeInv, TablesOK, [Next]_vars, NEW k \in used, k \in DOMAIN users'
    PROVE  /\ k \in DOMAIN users
           /\ \/ users'[k].hash = users[k].hash
              \/ \E p \in Procs : WriteHash(p) /\ k \in Rows(p)
  <1>0. DOMAIN users \subseteq used
    BY DEF TablesOK
  <1>1. CASE UNCHANGED users
    BY <1>1
  <1>2. ASSUME NEW p \in Procs, Step(p), ~UNCHANGED users
        PROVE  /\ k \in DOMAIN users
               /\ users'[k].hash = users[k].hash \/ (WriteHash(p) /\ k \in Rows(p))
    <2>1. CASE InsertAuthUser(p)
      <3>1. PICK i \in Ids \ used, h \in Hashes :
              InsertRow(i, req[p].target, req[p].role, h)
        BY <1>2, <2>1 DEF InsertAuthUser, RejectsInsert, tables
      <3> QED  BY <3>1 DEF InsertRow
    <2>2. CASE WriteHash(p)
      BY <2>2 DEF WriteHash, SetHash
    <2>3. CASE UpdateGuarded(p) \/ WriteRole(p)
      BY <2>3 DEF UpdateGuarded, WriteRole, SetRole, TablesOK, UserRow
    <2>4. CASE DeleteGuarded(p) \/ DeleteRow(p)
      BY <2>4 DEF DeleteGuarded, DeleteRow, DeleteRows
    <2> QED
      BY <1>2, <2>1, <2>2, <2>3, <2>4 DEF Step, SetupFlag, LoginInsert, Logout,
         DropSessions, CreateAssign, AssignDev, ClearDev, SetupCount,
         ChangePasswordCheck, CreateCheck, CreateResolve, UpdateResolve,
         UpdateSnapshot, DeleteResolve, DeleteSnapshot, ResetResolve,
         CliDeleteRole, CliRoleCount, tables
  <1>3. ASSUME NEW p \in Procs, Begin(p)
        PROVE  UNCHANGED users
    BY <1>3 DEF Begin, SetupStart, LoginStart, UserRequest, AdminRequest,
       CliCreate, CliRole, CliDeleteCount, CliReset, tables
  <1> QED
    BY <1>1, <1>2, <1>3 DEF Next, Cancel, SkipStatement, ExpireSession, vars, tables

\* A session is an old one, or the one a Login has just inserted.
LEMMA SessionsStay ==
    ASSUME TypeInv, TablesOK, [Next]_vars, NEW t \in DOMAIN sessions'
    PROVE  \/ /\ t \in DOMAIN sessions /\ sessions'[t].user = sessions[t].user
              /\ sessions'[t].hash = sessions[t].hash
           \/ \E p \in Procs :
                /\ LoginInsert(p) /\ t \notin DOMAIN sessions
                /\ req[p].pc = "login_insert" /\ req[p].tid \in DOMAIN users
                /\ sessions'[t].user = req[p].tid /\ sessions'[t].hash = req[p].hash
                /\ UNCHANGED users
  <1>1. CASE UNCHANGED sessions
    BY <1>1
  <1>2. ASSUME NEW p \in Procs, Step(p), ~UNCHANGED sessions
        PROVE  \/ /\ t \in DOMAIN sessions /\ sessions'[t].user = sessions[t].user
                  /\ sessions'[t].hash = sessions[t].hash
               \/ /\ LoginInsert(p) /\ t \notin DOMAIN sessions
                  /\ req[p].pc = "login_insert" /\ req[p].tid \in DOMAIN users
                  /\ sessions'[t].user = req[p].tid /\ sessions'[t].hash = req[p].hash
                  /\ UNCHANGED users
    <2>1. CASE LoginInsert(p)
      <3>1. PICK u \in Tokens \ DOMAIN sessions :
              sessions' = [v \in DOMAIN sessions \cup {u} |->
                             IF v = u THEN [user |-> req[p].tid, hash |-> req[p].hash,
                                            expired |-> FALSE]
                                      ELSE sessions[v]]
        BY <1>2, <2>1 DEF LoginInsert
      <3>2. req[p].pc = "login_insert" /\ req[p].tid \in DOMAIN users /\ UNCHANGED users
        BY <1>2, <2>1 DEF LoginInsert
      <3>3. CASE t = u
        BY <2>1, <3>1, <3>2, <3>3
      <3>4. CASE t # u
        BY <3>1, <3>4
      <3> QED  BY <3>3, <3>4
    <2>2. CASE Logout(p)
      BY <2>2 DEF Logout
    <2>3. CASE DropSessions(p)
      BY <2>3 DEF DropSessions, DeleteSessionsOf
    <2>4. CASE DeleteGuarded(p) \/ DeleteRow(p)
      BY <2>4 DEF DeleteGuarded, DeleteRow, DeleteRows, DeleteSessionsOf
    <2> QED
      BY <1>2, <2>1, <2>2, <2>3, <2>4 DEF Step, SetupFlag, InsertAuthUser, WriteHash,
         UpdateGuarded, WriteRole, CreateAssign, AssignDev, ClearDev, SetupCount,
         ChangePasswordCheck, CreateCheck, CreateResolve, UpdateResolve,
         UpdateSnapshot, DeleteResolve, DeleteSnapshot, ResetResolve,
         CliDeleteRole, CliRoleCount, tables
  <1>3. ASSUME NEW p \in Procs, Begin(p)
        PROVE  UNCHANGED sessions
    BY <1>3 DEF Begin, SetupStart, LoginStart, UserRequest, AdminRequest,
       CliCreate, CliRole, CliDeleteCount, CliReset, tables
  <1>4. ASSUME NEW u \in Tokens, ExpireSession(u)
        PROVE  /\ t \in DOMAIN sessions /\ sessions'[t].user = sessions[t].user
               /\ sessions'[t].hash = sessions[t].hash
    <2>1. u \in DOMAIN sessions /\ sessions' = [sessions EXCEPT ![u].expired = TRUE]
      BY <1>4 DEF ExpireSession, Authenticated
    <2> QED  BY <2>1 DEF TablesOK, SessionRow
  <1> QED
    BY <1>1, <1>2, <1>3, <1>4 DEF Next, Cancel, SkipStatement, vars, tables

\* The statement that comes next does come, and leaves no session behind.
LEMMA DroppingStays ==
    ASSUME TypeInv, TablesOK, [Next]_vars, Faults = {}, NEW p \in Procs,
           NEW i, i \in DOMAIN users', Dropping(p, i)
    PROVE  Dropping(p, i)' \/ \A t \in DOMAIN sessions' : sessions'[t].user # i
  <1>0. i \in DOMAIN users /\ i \in used
    BY DEF Dropping, Rows, Named, TablesOK
  <1>1. CASE req'[p] = req[p]
    <2>1. users'[i].name = users[i].name
      BY <1>0, NamesStay DEF NamesFixed
    <2>2. i \in Rows(p)'
      BY <1>0, <1>1, <2>1 DEF Dropping, Rows, Named
    <2> QED  BY <1>1, <2>2 DEF Dropping
  <1>2. CASE req'[p] # req[p]
    <2>1. PICK q \in Procs : Begin(q) \/ Step(q) \/ Cancel(q) \/ SkipStatement(q)
      BY <1>2 DEF Next, ExpireSession, vars
    <2>2. q = p
      BY <1>2, <2>1, BeginMoves, StepMoves DEF Continues
    <2>3. ~Begin(p)
      BY BeginMay DEF MayStart, Dropping
    <2>4. DropSessions(p)
      BY <2>1, <2>2, <2>3
      DEF Dropping, Step, Cancel, SkipStatement, SetupCount, InsertAuthUser, SetupFlag,
          LoginInsert, Logout, ChangePasswordCheck, WriteHash, CreateCheck, CreateResolve,
          CreateAssign, UpdateResolve, UpdateSnapshot, UpdateGuarded, WriteRole, ClearDev,
          AssignDev, DeleteResolve, DeleteSnapshot, DeleteGuarded, DeleteRow, ResetResolve,
          CliDeleteRole, CliRoleCount
    <2>5. i \in IF req[p].op \in CliOps THEN Rows(p) ELSE {req[p].tid}
      BY DEF Dropping, Rows
    <2> QED  BY <2>4, <2>5 DEF DropSessions, DeleteSessionsOf
  <1> QED  BY <1>1, <1>2

\* Only LoginStart takes a request to the INSERT of the session.
LEMMA NoStepToLogin ==
    ASSUME TypeInv, NEW p \in Procs, Step(p) \/ Cancel(p) \/ SkipStatement(p)
    PROVE  req'[p].pc # "login_insert"
  <1>1. CASE Done(p)
    BY <1>1, ReqFields
  <1>2. ASSUME NEW pc \in Pcs \ {"login_insert"},
               \/ Goto(p, pc) \/ \E i : Resolved(p, i, pc)
               \/ req[p].pc = pc /\ \E d : req' = [req EXCEPT ![p].dbs = @ \ {d}]
        PROVE  req'[p].pc # "login_insert"
    <2>1. CASE Goto(p, pc)
      BY <2>1, ReqFields
    <2>2. ASSUME NEW i, Resolved(p, i, pc)
          PROVE  req'[p].pc # "login_insert"
      BY <2>2, ReqFields
    <2>3. ASSUME req[p].pc = pc, NEW d, req' = [req EXCEPT ![p].dbs = @ \ {d}]
          PROVE  req'[p].pc # "login_insert"
      BY <2>3, ReqFields
    <2> QED  BY <1>2, <2>1, <2>2, <2>3
  <1> USE DEF Pcs
  <1>3. CASE SetupCount(p) \/ InsertAuthUser(p) \/ SetupFlag(p) \/ LoginInsert(p) \/ Logout(p)
    BY <1>1, <1>2, <1>3 DEF SetupCount, InsertAuthUser, SetupFlag, LoginInsert, Logout
  <1>4. CASE ChangePasswordCheck(p) \/ WriteHash(p) \/ DropSessions(p) \/ CreateCheck(p)
             \/ CreateResolve(p)
    BY <1>1, <1>2, <1>4 DEF ChangePasswordCheck, WriteHash, DropSessions, CreateCheck, CreateResolve
  <1>5. CASE UpdateResolve(p) \/ UpdateSnapshot(p) \/ UpdateGuarded(p) \/ WriteRole(p)
             \/ ClearDev(p)
    BY <1>1, <1>2, <1>5 DEF UpdateResolve, UpdateSnapshot, UpdateGuarded, WriteRole, ClearDev
  <1>6. CASE DeleteResolve(p) \/ DeleteSnapshot(p) \/ DeleteGuarded(p) \/ DeleteRow(p)
             \/ ResetResolve(p) \/ CliDeleteRole(p) \/ CliRoleCount(p) \/ Cancel(p)
    BY <1>1, <1>2, <1>6 DEF DeleteResolve, DeleteSnapshot, DeleteGuarded, DeleteRow,
       ResetResolve, CliDeleteRole, CliRoleCount, Cancel
  <1>7. CASE CreateAssign(p)
    BY <1>1, <1>2, <1>7 DEF CreateAssign
  <1>8. CASE AssignDev(p)
    BY <1>1, <1>2, <1>8 DEF AssignDev
  <1>9. CASE SkipStatement(p)
    BY <1>1, <1>2, <1>9 DEF SkipStatement
  <1> QED  BY <1>3, <1>4, <1>5, <1>6, <1>7, <1>8, <1>9 DEF Step

\* Where a request begins: only a Login at the INSERT of the session.
FirstPcs == {"setup_count", "logout", "check_password", "check_name", "resolve",
             "insert_user", "cli_role_count", "write_role", "cli_delete_role", "write_hash"}

LEMMA BeginPcs ==
    ASSUME TypeInv, NEW p \in Procs, Begin(p)
    PROVE  (\E n \in Names : LoginStart(p, n)) \/ req'[p].pc \in FirstPcs
  <1> USE DEF TypeInv, TypeOK, Accept
  <1>1. \A n, i, t : /\ SetupRequest(n).pc = "setup_count" /\ LogoutRequest(i, t).pc = "logout"
                     /\ PasswordRequest(i).pc = "check_password"
    BY DEF SetupRequest, LogoutRequest, PasswordRequest, Idle
  <1>2. \A op, i, n, r, D : ManageRequest(op, i, n, r, D).pc \in {"check_name", "resolve"}
    BY DEF ManageRequest, Idle
  <1>3. ASSUME NEW n \in Names, SetupStart(p, n) PROVE req'[p].pc = "setup_count"
    BY <1>1, <1>3 DEF SetupStart
  <1>4. ASSUME NEW t \in Tokens, NEW op \in {"logout", "password"}, UserRequest(p, t, op)
        PROVE  req'[p].pc \in {"logout", "check_password"}
    BY <1>1, <1>4 DEF UserRequest
  <1>5. ASSUME NEW t \in Tokens, NEW op \in ManageOps, NEW n \in Names,
               NEW r \in Roles \cup {"none"}, NEW D \in SUBSET Dbs,
               AdminRequest(p, t, op, n, r, D)
        PROVE  req'[p].pc \in {"check_name", "resolve"}
    BY <1>2, <1>5 DEF AdminRequest
  <1>6. ASSUME NEW n \in Names, NEW r \in Roles, CliCreate(p, n, r)
        PROVE  req'[p].pc = "insert_user"
    <2>1. req'[p] = CliRequest("cli_create", "insert_user", n, r, FALSE)
      BY <1>6 DEF CliCreate
    <2> QED  BY <2>1 DEF CliRequest, Idle
  <1>7. ASSUME NEW n \in Names, NEW r \in Roles, CliRole(p, n, r)
        PROVE  req'[p].pc \in {"cli_role_count", "write_role"}
    <2>1. PICK pc \in {"cli_role_count", "write_role"} :
            req'[p] = CliRequest("cli_role", pc, n, r, FALSE)
      BY <1>7 DEF CliRole
    <2>2. req'[p].pc = pc
      BY <2>1 DEF CliRequest, Idle
    <2> QED  BY <2>2
  <1>8. ASSUME NEW n \in Names, CliDeleteCount(p, n)
        PROVE  req'[p].pc = "cli_delete_role"
    <2>1. req'[p] = CliRequest("cli_delete", "cli_delete_role", n, "none", MoreThanOneAdmin)
      BY <1>8 DEF CliDeleteCount
    <2> QED  BY <2>1 DEF CliRequest, Idle
  <1>9. ASSUME NEW n \in Names, CliReset(p, n)
        PROVE  req'[p].pc = "write_hash"
    <2>1. req'[p] = CliRequest("cli_reset", "write_hash", n, "none", FALSE)
      BY <1>9 DEF CliReset
    <2> QED  BY <2>1 DEF CliRequest, Idle
  <1>10. CASE \E n \in Names : SetupStart(p, n) \/ LoginStart(p, n)
    BY <1>3, <1>10 DEF FirstPcs
  <1>11. CASE \E t \in Tokens, op \in {"logout", "password"} : UserRequest(p, t, op)
    BY <1>4, <1>11 DEF FirstPcs
  <1>12. CASE \E t \in Tokens, op \in ManageOps, n \in Names,
                 r \in Roles \cup {"none"}, D \in SUBSET Dbs : AdminRequest(p, t, op, n, r, D)
    BY <1>5, <1>12 DEF FirstPcs
  <1>13. CASE \/ \E n \in Names, r \in Roles : CliCreate(p, n, r) \/ CliRole(p, n, r)
              \/ \E n \in Names : CliDeleteCount(p, n) \/ CliReset(p, n)
    BY <1>6, <1>7, <1>8, <1>9, <1>13 DEF FirstPcs
  <1> QED  BY <1>10, <1>11, <1>12, <1>13 DEF Begin

\* A Login reads the hash of an account that is there.
LEMMA BeginLogin ==
    ASSUME TypeInv, TablesOK, NEW p \in Procs, Begin(p), req'[p].pc = "login_insert"
    PROVE  \E i \in DOMAIN users : req'[p].tid = i /\ req'[p].hash = users[i].hash
  <1>1. PICK n \in Names : LoginStart(p, n)
    BY BeginPcs DEF FirstPcs
  <1>2. PICK i \in Named(n) : req'[p] = LoginRequest(i, users[i].hash)
    BY <1>1 DEF LoginStart, Accept, TypeInv, TypeOK
  <1>3. req'[p].tid = i /\ req'[p].hash = users[i].hash
    BY <1>2 DEF LoginRequest, Idle
  <1> QED  BY <1>3 DEF Named

LEMMA SessionInit == ASSUME Init, LoginPassword \subseteq Apart PROVE SessionInv
  <1>1. \A p \in Procs : req[p].pc = "idle"
    BY DEF Init, Idle
  <1>2. DOMAIN sessions = {}
    BY DEF Init
  <1> QED  BY <1>1, <1>2, ApartInit DEF SessionInv, StaleSessionsDropped

LEMMA SessionStep ==
    ASSUME LoginPassword \subseteq Apart, Faults = {},
           TypeInv, TablesOK, OwnAccountInv, SessionInv, [Next]_vars
    PROVE  SessionInv'
  <1>0. TypeInv' /\ TablesOK' /\ DOMAIN users \subseteq used
    BY TypesStep DEF TablesOK
  <1>1. ApartNow(LoginPassword)'
    BY ApartStep DEF SessionInv, LoginPassword
  <1>2. ASSUME NEW p \in Procs, WriteHash(p)
        PROVE  /\ req[p].op \in PasswordOps
               /\ \A q \in Procs : req[q].op # "login" /\ req'[q].op # "login"
    <2>1. AtOp(req[p].pc, req[p].op)
      BY DEF TypeInv, ShapedRequest, Shape
    <2>2. req[p].op \in PasswordOps
      BY <1>2, <2>1 DEF WriteHash, AtOp
    <2>3. req'[p].op = req[p].op
      BY <1>2, ReqFields DEF WriteHash
    <2>4. "login" \notin PasswordOps
      BY DEF PasswordOps
    <2> QED  BY <1>1, <2>2, <2>3, <2>4 DEF SessionInv, ApartNow, LoginPassword
  <1>3. ASSUME NEW p \in Procs, req'[p].pc = "login_insert", req'[p].tid \in DOMAIN users'
        PROVE  users'[req'[p].tid].hash = req'[p].hash
    <2>0. req'[p].op = "login" /\ req'[p].tid # None
      BY <1>0, <1>3, NoneAssumption DEF TypeInv, TypeOK, ShapedRequest, Shape, AtOp
    <2>1. \A q \in Procs : ~WriteHash(q)
      BY <1>2, <2>0
    <2>2. CASE req'[p] = req[p]
      <3>1. req[p].tid \in used
        BY <2>0, <2>2 DEF OwnAccountInv
      <3>2. /\ req[p].tid \in DOMAIN users
            /\ users'[req[p].tid].hash = users[req[p].tid].hash
        BY <1>3, <2>1, <2>2, <3>1, HashesStay
      <3> QED  BY <1>3, <2>2, <3>2 DEF SessionInv
    <2>3. CASE Begin(p)
      <3>1. PICK i \in DOMAIN users : req'[p].tid = i /\ req'[p].hash = users[i].hash
        BY <1>3, <2>3, BeginLogin
      <3>2. users'[i].hash = users[i].hash
        BY <1>0, <1>3, <2>1, <3>1, HashesStay
      <3> QED  BY <3>1, <3>2
    <2>4. CASE Step(p) \/ Cancel(p) \/ SkipStatement(p)
      BY <1>3, <2>4, NoStepToLogin
    <2> QED
      BY <2>2, <2>3, <2>4, BeginMoves, StepMoves DEF Continues, Next, ExpireSession, vars
  <1>4. ASSUME NEW t \in DOMAIN sessions',
               sessions'[t].hash # users'[sessions'[t].user].hash
        PROVE  \E p \in Procs : Dropping(p, sessions[t].user)'
    <2>1. PICK i \in DOMAIN users' : i = sessions'[t].user
      BY <1>0 DEF TablesOK, NoOrphans
    <2>2. /\ t \in DOMAIN sessions /\ i = sessions[t].user
          /\ sessions'[t].hash = sessions[t].hash
      <3>1. ASSUME NEW p \in Procs, req[p].pc = "login_insert", req[p].tid \in DOMAIN users,
                   sessions'[t].user = req[p].tid, sessions'[t].hash = req[p].hash,
                   UNCHANGED users
            PROVE  FALSE
        BY <1>4, <3>1 DEF SessionInv
      <3> QED  BY <2>1, <3>1, SessionsStay
    <2>3. i \in DOMAIN users /\ i \in used
      BY <1>0, <2>2 DEF TablesOK, NoOrphans
    <2> SUFFICES \E p \in Procs : Dropping(p, i)'
      BY <2>1 DEF Dropping
    <2>5. CASE users'[i].hash = users[i].hash
      <3>1. PICK p \in Procs : Dropping(p, i)
        BY <1>4, <2>1, <2>2, <2>5 DEF SessionInv, StaleSessionsDropped, Dropping
      <3>2. Dropping(p, i)'
        BY <2>1, <3>1, DroppingStays
      <3> QED  BY <3>2
    <2>6. CASE users'[i].hash # users[i].hash
      <3>1. PICK p \in Procs : WriteHash(p) /\ i \in Rows(p)
        BY <2>1, <2>3, <2>6, HashesStay
      <3>2. /\ req'[p].pc = "sessions_then_done" /\ req'[p].op = req[p].op
            /\ req'[p].target = req[p].target /\ req'[p].tid = req[p].tid
        BY <3>1, ReqFields DEF WriteHash
      <3>3. users'[i].name = users[i].name
        BY <2>1, <2>3, NamesStay DEF NamesFixed
      <3>4. i \in Rows(p)'
        BY <2>1, <3>1, <3>2, <3>3 DEF Rows, Named
      <3>5. Dropping(p, i)'
        BY <1>2, <3>1, <3>2, <3>4 DEF Dropping
      <3> QED  BY <3>5
    <2> QED  BY <2>5, <2>6
  <1>5. StaleSessionsDropped'
    BY <1>4 DEF StaleSessionsDropped, Dropping
  <1> QED  BY <1>1, <1>3, <1>5 DEF SessionInv

\* If no Login overlaps a change of a password and no request is cut short, a
\* session that was opened with a former password goes with the request that
\* changed it.
THEOREM StaleSessionsSafe ==
    ASSUME LoginPassword \subseteq Apart, Faults = {}
    PROVE  Spec => []StaleSessionsDropped
  <1> DEFINE IInv == TypeInv /\ TablesOK /\ OwnAccountInv /\ SessionInv
  <1>1. Init => IInv
    BY TypesInit, OwnAccountInit, SessionInit
  <1>2. IInv /\ [Next]_vars => IInv'
    BY TypesStep, OwnAccountStep, SessionStep
  <1>3. IInv => StaleSessionsDropped
    BY DEF SessionInv
  <1> QED  BY <1>1, <1>2, <1>3, PTL DEF Spec

-----------------------------------------------------------------------------
(* Assignments of databases *)

AssignersApart ==
    ({"update"} \X {"update"})
    \cup ({"create"} \X {"update", "delete", "cli_delete"})
    \cup ({"update", "delete", "cli_delete"} \X {"create"})

\* The request p has written the role of the account i and clears its
\* assignments next.
Clearing(p, i) == req[p].pc = "clear_dev" /\ req[p].tid = i

\* What a request that assigns databases has read or written still holds.
AssignerOK(p) ==
    /\ req[p].op # "cli_role"
    /\ req[p].pc \in {"clear_dev", "assign_dev"} /\ req[p].tid \in DOMAIN users
         => users[req[p].tid].role = req[p].role
    /\ req[p].pc = "assign_dev" => req[p].role = "dev"
    /\ req[p].pc = "create_resolve" =>
         /\ Named(req[p].target) # {}
         /\ \A i \in Named(req[p].target) : users[i].role = "dev"
    /\ req[p].pc = "create_assign" /\ req[p].tid \in DOMAIN users
         => users[req[p].tid].role = "dev"

AssignInv ==
    /\ ApartNow(AssignersApart)
    /\ \A p \in Procs : AssignerOK(p)
    /\ \A r \in devDbs : users[r[1]].role = "dev" \/ \E p \in Procs : Clearing(p, r[1])

\* Roles change in two statements, both of UpdateAuthUser or the CLI.
LEMMA RolesStay ==
    ASSUME TypeInv, TablesOK, [Next]_vars, NEW k \in used, k \in DOMAIN users'
    PROVE  /\ k \in DOMAIN users
           /\ \/ users'[k].role = users[k].role
              \/ \E p \in Procs : /\ UpdateGuarded(p) \/ WriteRole(p)
                                  /\ k \in Rows(p) /\ users'[k].role = req[p].role
  <1>1. CASE UNCHANGED users
    BY <1>1 DEF TablesOK
  <1>2. ASSUME NEW p \in Procs, Step(p), ~UNCHANGED users
        PROVE  /\ k \in DOMAIN users
               /\ \/ users'[k].role = users[k].role
                  \/ /\ UpdateGuarded(p) \/ WriteRole(p)
                     /\ k \in Rows(p) /\ users'[k].role = req[p].role
    <2>1. CASE InsertAuthUser(p)
      <3>1. PICK i \in Ids \ used, h \in Hashes :
              InsertRow(i, req[p].target, req[p].role, h)
        BY <1>2, <2>1 DEF InsertAuthUser, RejectsInsert, tables
      <3> QED  BY <3>1 DEF InsertRow
    <2>2. CASE WriteHash(p)
      BY <2>2 DEF WriteHash, SetHash, TablesOK, UserRow
    <2>3. CASE UpdateGuarded(p) \/ WriteRole(p)
      <3>1. SetRole(Rows(p), req[p].role)
        BY <2>3 DEF UpdateGuarded, WriteRole
      <3> QED  BY <2>3, <3>1 DEF SetRole, TablesOK, UserRow
    <2>4. CASE DeleteGuarded(p) \/ DeleteRow(p)
      BY <2>4 DEF DeleteGuarded, DeleteRow, DeleteRows
    <2> QED
      BY <1>2, <2>1, <2>2, <2>3, <2>4 DEF Step, SetupFlag, LoginInsert, Logout,
         DropSessions, CreateAssign, AssignDev, ClearDev, SetupCount,
         ChangePasswordCheck, CreateCheck, CreateResolve, UpdateResolve,
         UpdateSnapshot, DeleteResolve, DeleteSnapshot, ResetResolve,
         CliDeleteRole, CliRoleCount, tables
  <1>3. ASSUME NEW p \in Procs, Begin(p)
        PROVE  UNCHANGED users
    BY <1>3 DEF Begin, SetupStart, LoginStart, UserRequest, AdminRequest,
       CliCreate, CliRole, CliDeleteCount, CliReset, tables
  <1> QED
    BY <1>1, <1>2, <1>3 DEF Next, Cancel, SkipStatement, ExpireSession, vars, tables

\* Accounts go in two statements, of DeleteAuthUser and the CLI.
LEMMA RowsStay ==
    ASSUME TypeInv, TablesOK, [Next]_vars, NEW k \in DOMAIN users, k \notin DOMAIN users'
    PROVE  \E p \in Procs : req[p].op \in {"delete", "cli_delete"}
  <1>1. PICK p \in Procs : DeleteGuarded(p) \/ DeleteRow(p)
    <2>1. ASSUME NEW p \in Procs, InsertAuthUser(p) PROVE k \in DOMAIN users'
      BY <2>1 DEF InsertAuthUser, InsertRow, tables
    <2>2. ASSUME NEW p \in Procs, WriteHash(p) \/ UpdateGuarded(p) \/ WriteRole(p)
          PROVE  k \in DOMAIN users'
      BY <2>2 DEF WriteHash, SetHash, UpdateGuarded, WriteRole, SetRole
    <2>3. ASSUME NEW p \in Procs, Begin(p) PROVE UNCHANGED users
      BY <2>3 DEF Begin, SetupStart, LoginStart, UserRequest, AdminRequest,
         CliCreate, CliRole, CliDeleteCount, CliReset, tables
    <2>4. ASSUME NEW p \in Procs, Step(p), ~InsertAuthUser(p), ~WriteHash(p),
                 ~UpdateGuarded(p), ~WriteRole(p), ~DeleteGuarded(p), ~DeleteRow(p)
          PROVE  UNCHANGED users
      BY <2>4 DEF Step, SetupFlag, LoginInsert, Logout,
         DropSessions, CreateAssign, AssignDev, ClearDev, SetupCount,
         ChangePasswordCheck, CreateCheck, CreateResolve, UpdateResolve,
         UpdateSnapshot, DeleteResolve, DeleteSnapshot, ResetResolve,
         CliDeleteRole, CliRoleCount, tables
    <2> QED
      BY <2>1, <2>2, <2>3, <2>4 DEF Next, Cancel, SkipStatement, ExpireSession, vars, tables
  <1>2. AtOp(req[p].pc, req[p].op)
    BY DEF TypeInv, ShapedRequest, Shape
  <1> QED  BY <1>1, <1>2 DEF DeleteGuarded, DeleteRow, AtOp

\* An assignment is an old one, or one of the INSERTs has just made it.
LEMMA DevDbsStay ==
    ASSUME TypeInv, TablesOK, [Next]_vars, NEW r \in devDbs'
    PROVE  \/ r \in devDbs /\ \A p \in Procs : ClearDev(p) => req[p].tid # r[1]
           \/ \E p \in Procs : /\ req[p].pc = "create_assign" /\ r[1] = req[p].tid
                               /\ req[p].tid \in DOMAIN users /\ UNCHANGED users
           \/ \E p \in Procs : /\ req[p].pc = "assign_dev" /\ r[1] = req[p].tid
                               /\ req[p].tid \in DOMAIN users /\ UNCHANGED users
  <1>1. ASSUME NEW p \in Procs, ClearDev(p)
        PROVE  r \in devDbs /\ req[p].tid # r[1]
    BY <1>1 DEF ClearDev
  <1>2. ASSUME r \notin devDbs
        PROVE  \E p \in Procs : /\ req[p].pc \in {"create_assign", "assign_dev"}
                                /\ r[1] = req[p].tid
                                /\ req[p].tid \in DOMAIN users /\ UNCHANGED users
    <2>1. ASSUME NEW p \in Procs, CreateAssign(p)
          PROVE  /\ req[p].pc = "create_assign" /\ r[1] = req[p].tid
                 /\ req[p].tid \in DOMAIN users /\ UNCHANGED users
      BY <1>2, <2>1 DEF CreateAssign
    <2>2. ASSUME NEW p \in Procs, AssignDev(p)
          PROVE  /\ req[p].pc = "assign_dev" /\ r[1] = req[p].tid
                 /\ req[p].tid \in DOMAIN users /\ UNCHANGED users
      <3>1. req[p].op = "update"
        BY <2>2 DEF AssignDev, TypeInv, ShapedRequest, Shape, AtOp
      <3>2. Rows(p) = {req[p].tid} \cap DOMAIN users
        BY <3>1 DEF Rows, CliOps
      <3> QED  BY <1>2, <2>2, <3>2 DEF AssignDev
    <2>3. ASSUME NEW p \in Procs, Begin(p) PROVE UNCHANGED devDbs
      BY <2>3 DEF Begin, SetupStart, LoginStart, UserRequest, AdminRequest,
         CliCreate, CliRole, CliDeleteCount, CliReset, tables
    <2>4. ASSUME NEW p \in Procs, Step(p), ~CreateAssign(p), ~AssignDev(p)
          PROVE  devDbs' \subseteq devDbs
      BY <2>4 DEF Step, SetupFlag, LoginInsert, Logout, InsertAuthUser, WriteHash,
         UpdateGuarded, WriteRole, DeleteGuarded, DeleteRow, DeleteRows,
         DropSessions, ClearDev, SetupCount,
         ChangePasswordCheck, CreateCheck, CreateResolve, UpdateResolve,
         UpdateSnapshot, DeleteResolve, DeleteSnapshot, ResetResolve,
         CliDeleteRole, CliRoleCount, tables
    <2> QED
      BY <1>2, <2>1, <2>2, <2>3, <2>4 DEF Next, Cancel, SkipStatement, ExpireSession, vars, tables
  <1> QED  BY <1>1, <1>2

AssignerPcs == {"clear_dev", "assign_dev", "create_resolve", "create_assign"}

\* Seven statements lead to a request that assigns, or on within it.
LEMMA StepToAssigner ==
    ASSUME TypeInv, NEW p \in Procs, Step(p) \/ Cancel(p), req'[p].pc \in AssignerPcs
    PROVE  UpdateGuarded(p) \/ WriteRole(p) \/ ClearDev(p) \/ AssignDev(p)
           \/ InsertAuthUser(p) \/ CreateResolve(p) \/ CreateAssign(p)
  <1>1. ~Done(p)
    BY ReqFields DEF AssignerPcs
  <1>2. \A pc \in Pcs \ AssignerPcs : ~Goto(p, pc) /\ \A i : ~Resolved(p, i, pc)
    BY ReqFields
  <1> USE DEF Pcs, AssignerPcs
  <1>3. ~(SetupCount(p) \/ SetupFlag(p) \/ LoginInsert(p) \/ Logout(p))
    BY <1>1, <1>2 DEF SetupCount, SetupFlag, LoginInsert, Logout
  <1>4. ~(ChangePasswordCheck(p) \/ WriteHash(p) \/ DropSessions(p) \/ CreateCheck(p))
    BY <1>1, <1>2 DEF ChangePasswordCheck, WriteHash, DropSessions, CreateCheck
  <1>5. ~(UpdateResolve(p) \/ UpdateSnapshot(p) \/ DeleteResolve(p) \/ DeleteSnapshot(p))
    BY <1>1, <1>2 DEF UpdateResolve, UpdateSnapshot, DeleteResolve, DeleteSnapshot
  <1>6. ~(DeleteGuarded(p) \/ DeleteRow(p) \/ ResetResolve(p) \/ CliDeleteRole(p)
          \/ CliRoleCount(p) \/ Cancel(p))
    BY <1>1, <1>2 DEF DeleteGuarded, DeleteRow, ResetResolve, CliDeleteRole, CliRoleCount, Cancel
  <1> QED  BY <1>3, <1>4, <1>5, <1>6 DEF Step

\* No request begins where one assigns.
LEMMA NoAssignerBegins ==
    ASSUME TypeInv, NEW p \in Procs, Begin(p)
    PROVE  req'[p].pc \notin AssignerPcs
  <1>1. CASE req'[p].pc \in FirstPcs
    BY <1>1 DEF FirstPcs, AssignerPcs
  <1>2. ASSUME NEW n \in Names, LoginStart(p, n)
        PROVE  req'[p].pc \notin AssignerPcs
    <2>1. PICK i \in Named(n) : req'[p] = LoginRequest(i, users[i].hash)
      BY <1>2 DEF LoginStart, Accept, TypeInv, TypeOK
    <2> QED  BY <2>1 DEF LoginRequest, Idle, AssignerPcs
  <1> QED  BY <1>1, <1>2, BeginPcs

LEMMA AssignerBegins ==
    ASSUME TypeInv, "cli_role" \notin Ops, NEW p \in Procs, Begin(p)
    PROVE  req'[p].pc \notin AssignerPcs /\ req'[p].op # "cli_role"
  BY NoAssignerBegins, BeginMay DEF MayStart

\* Whatever another request does, a request that assigns does not notice.
LEMMA AssignerUndisturbed ==
    ASSUME TypeInv, TablesOK, OwnAccountInv, AssignInv, [Next]_vars,
           NEW p \in Procs, req'[p] = req[p]
    PROVE  AssignerOK(p)'
  <1>0. TablesOK' /\ DOMAIN users \subseteq used /\ AtOp(req[p].pc, req[p].op)
        /\ req[p] \in Request
    BY TypesStep DEF TablesOK, TypeInv, TypeOK, ShapedRequest, Shape
  <1>1. ASSUME req[p].pc \in AssignerPcs, NEW k \in DOMAIN users, k \in DOMAIN users'
        PROVE  users'[k].role = users[k].role
    <2>1. SUFFICES ASSUME NEW q \in Procs, UpdateGuarded(q) \/ WriteRole(q) PROVE FALSE
      BY <1>0, <1>1, RolesStay
    <2>2. AtOp(req[q].pc, req[q].op) /\ req[q].op # "cli_role"
      BY DEF TypeInv, ShapedRequest, Shape, AssignInv, AssignerOK
    <2>3. req[q].op = "update" /\ req[q].pc \notin AssignerPcs
      BY <2>1, <2>2 DEF UpdateGuarded, WriteRole, AtOp, AssignerPcs
    <2>4. req[p].op \in {"update", "create"}
      BY <1>0, <1>1 DEF AtOp, AssignerPcs
    <2> QED  BY <1>1, <2>3, <2>4 DEF AssignInv, ApartNow, AssignersApart
  <1>2. ASSUME req[p].pc = "create_resolve"
        PROVE  /\ (Named(req[p].target) # {})'
               /\ \A i \in DOMAIN users' :
                    users'[i].name = req[p].target => users'[i].role = "dev"
    <2>1. PICK j \in DOMAIN users : users[j].name = req[p].target /\ users[j].role = "dev"
      BY <1>2 DEF AssignInv, AssignerOK, Named
    <2>2. j \in DOMAIN users'
      <3>1. req[p].op = "create"
        BY <1>0, <1>2 DEF AtOp
      <3> QED  BY <2>1, <3>1, RowsStay DEF AssignInv, ApartNow, AssignersApart
    <2>3. users'[j].name = req[p].target
      BY <1>0, <2>1, <2>2, NamesStay DEF NamesFixed
    <2>4. users'[j].role = "dev"
      BY <1>1, <1>2, <2>1, <2>2 DEF AssignerPcs
    <2>5. \A i \in DOMAIN users' : users'[i].name = req[p].target => i = j
      BY <1>0, <2>2, <2>3 DEF TablesOK
    <2> QED  BY <2>2, <2>3, <2>4, <2>5 DEF Named
  <1>3. ASSUME req[p].pc \in AssignerPcs, req[p].tid \in DOMAIN users'
        PROVE  /\ req[p].tid \in DOMAIN users
               /\ users'[req[p].tid].role = users[req[p].tid].role
    <2>1. req[p].tid \in used
      BY <1>0, <1>3, NoneAssumption DEF OwnAccountInv, TablesOK
    <2>2. req[p].tid \in DOMAIN users
      BY <1>3, <2>1, NamesStay DEF NamesFixed
    <2> QED  BY <1>1, <1>3, <2>2
  <1> QED  BY <1>2, <1>3 DEF AssignInv, AssignerOK, AssignerPcs, Named

\* Its own statements read or write what it relies on next.
LEMMA AssignerMoves ==
    ASSUME TypeInv, TablesOK, OwnAccountInv, AssignInv, [Next]_vars,
           NEW p \in Procs, Step(p) \/ Cancel(p)
    PROVE  AssignerOK(p)'
  <1>0. TablesOK /\ TablesOK' /\ AtOp(req[p].pc, req[p].op)
        /\ req[p] \in Request /\ req[p].op # "cli_role" /\ AssignerOK(p)
    BY TypesStep DEF TypeInv, TypeOK, ShapedRequest, Shape, AssignInv, AssignerOK
  <1>1. req'[p].op # "cli_role"
    BY <1>0, StepMoves DEF Continues
  <1>2. CASE req'[p].pc \notin AssignerPcs
    BY <1>1, <1>2 DEF AssignerOK, AssignerPcs
  <1>3. CASE UpdateGuarded(p) \/ WriteRole(p)
    <2>1. req[p].op = "update"
      BY <1>0, <1>3 DEF UpdateGuarded, WriteRole, AtOp
    <2>2. CASE Done(p)
      BY <1>1, <2>2, ReqFields DEF AssignerOK
    <2>3. CASE Goto(p, "clear_dev") /\ SetRole({req[p].tid} \cap DOMAIN users, req[p].role)
      <3>1. req'[p].pc = "clear_dev" /\ req'[p].tid = req[p].tid /\ req'[p].role = req[p].role
        BY <2>3, ReqFields
      <3>2. req[p].tid \in DOMAIN users' => users'[req[p].tid].role = req[p].role
        BY <1>0, <2>3 DEF SetRole, TablesOK, UserRow
      <3> QED  BY <1>1, <3>1, <3>2 DEF AssignerOK
    <2> QED  BY <1>3, <2>1, <2>2, <2>3 DEF UpdateGuarded, WriteRole, Rows, CliOps
  <1>4. CASE ClearDev(p)
    <2>1. CASE Done(p)
      BY <1>1, <2>1, ReqFields DEF AssignerOK
    <2>2. CASE req[p].role = "dev" /\ Goto(p, "assign_dev") /\ UNCHANGED users
      <3>1. req'[p].pc = "assign_dev" /\ req'[p].tid = req[p].tid /\ req'[p].role = req[p].role
        BY <2>2, ReqFields
      <3> QED  BY <1>0, <1>1, <1>4, <2>2, <3>1 DEF AssignerOK, ClearDev
    <2> QED  BY <1>4, <2>1, <2>2 DEF ClearDev
  <1>5. CASE AssignDev(p) \/ CreateAssign(p)
    <2>1. CASE Done(p)
      BY <1>1, <2>1, ReqFields DEF AssignerOK
    <2>2. ASSUME NEW d, req' = [req EXCEPT ![p].dbs = @ \ {d}], UNCHANGED users
          PROVE  AssignerOK(p)'
      <3>1. req'[p].pc = req[p].pc /\ req'[p].tid = req[p].tid /\ req'[p].role = req[p].role
        BY <2>2, ReqFields
      <3> QED  BY <1>0, <1>1, <1>5, <2>2, <3>1 DEF AssignerOK, AssignDev, CreateAssign
    <2>3. UNCHANGED users
      BY <1>5 DEF AssignDev, CreateAssign
    <2>4. Done(p) \/ \E d : req' = [req EXCEPT ![p].dbs = @ \ {d}]
      BY <1>5 DEF AssignDev, CreateAssign
    <2> QED  BY <2>1, <2>2, <2>3, <2>4
  <1>6. CASE InsertAuthUser(p)
    <2>1. CASE Done(p) \/ Goto(p, "setup_flag")
      BY <1>1, <2>1, ReqFields DEF AssignerOK
    <2>2. CASE /\ Goto(p, "create_resolve") /\ req[p].role = "dev" /\ Named(req[p].target) = {}
               /\ \E i \in Ids \ used, h \in Hashes : InsertRow(i, req[p].target, req[p].role, h)
      <3>1. PICK i \in Ids \ used, h \in Hashes : InsertRow(i, req[p].target, req[p].role, h)
        BY <2>2
      <3>2. req'[p].pc = "create_resolve" /\ req'[p].target = req[p].target
        BY <2>2, ReqFields
      <3>3. DOMAIN users' = DOMAIN users \cup {i} /\ users'[i].name = req[p].target
            /\ users'[i].role = "dev"
        BY <2>2, <3>1 DEF InsertRow
      <3>4. \A k \in DOMAIN users' : users'[k].name = req[p].target => k = i
        BY <1>0, <3>3 DEF TablesOK
      <3> QED  BY <1>1, <3>2, <3>3, <3>4 DEF AssignerOK, Named
    <2> QED  BY <1>6, <2>1, <2>2 DEF InsertAuthUser, RejectsInsert
  <1>7. CASE CreateResolve(p)
    <2>1. CASE Done(p)
      BY <1>1, <2>1, ReqFields DEF AssignerOK
    <2>2. ASSUME NEW i \in Named(req[p].target), Resolved(p, i, "create_assign")
          PROVE  AssignerOK(p)'
      <3>1. req'[p].pc = "create_assign" /\ req'[p].tid = i
        BY <2>2, ReqFields
      <3>2. users[i].role = "dev" /\ UNCHANGED users
        BY <1>0, <1>7, <2>2 DEF AssignerOK, CreateResolve, tables
      <3> QED  BY <1>1, <3>1, <3>2 DEF AssignerOK
    <2> QED  BY <1>7, <2>1, <2>2 DEF CreateResolve
  <1> QED  BY <1>2, <1>3, <1>4, <1>5, <1>6, <1>7, StepToAssigner

LEMMA AssignStep ==
    ASSUME AssignersApart \subseteq Apart, "cli_role" \notin Ops, Faults = {},
           TypeInv, TablesOK, OwnAccountInv, AssignInv, [Next]_vars
    PROVE  AssignInv'
  <1>0. TypeInv' /\ TablesOK'
    BY TypesStep
  <1>1. ApartNow(AssignersApart)'
    BY ApartStep DEF AssignInv, AssignersApart
  <1>2. ASSUME NEW p \in Procs PROVE AssignerOK(p)'
    <2>1. CASE req'[p] = req[p]
      BY <2>1, AssignerUndisturbed
    <2>2. CASE Begin(p)
      BY <2>2, AssignerBegins DEF AssignerOK, AssignerPcs
    <2>3. CASE Step(p) \/ Cancel(p)
      BY <2>3, AssignerMoves
    <2>4. ~SkipStatement(p)
      BY DEF SkipStatement
    <2> QED
      BY <2>1, <2>2, <2>3, <2>4, BeginMoves, StepMoves DEF Continues, Next, ExpireSession, vars
  <1>3. ASSUME NEW r \in devDbs', users'[r[1]].role # "dev"
        PROVE  \E p \in Procs : Clearing(p, r[1])'
    <2>1. PICK i \in DOMAIN users' : i = r[1]
      BY <1>0 DEF TablesOK, NoOrphans
    <2>2. ASSUME NEW p \in Procs, req[p].pc \in {"create_assign", "assign_dev"},
                 i = req[p].tid, i \in DOMAIN users, UNCHANGED users
          PROVE  FALSE
      BY <1>3, <2>1, <2>2 DEF AssignInv, AssignerOK
    <2>3. r \in devDbs /\ \A p \in Procs : ClearDev(p) => req[p].tid # i
      BY <2>1, <2>2, DevDbsStay
    <2>4. i \in DOMAIN users /\ i \in used
      BY <2>1, <2>3 DEF TablesOK, NoOrphans
    <2>5. CASE users'[i].role = users[i].role
      <3>1. PICK p \in Procs : Clearing(p, i)
        BY <1>3, <2>1, <2>3, <2>5 DEF AssignInv
      <3>2. req'[p] = req[p]
        <4>1. SUFFICES ASSUME req'[p] # req[p] PROVE FALSE
          OBVIOUS
        <4>2. PICK q \in Procs : Begin(q) \/ Step(q) \/ Cancel(q) \/ SkipStatement(q)
          BY <4>1 DEF Next, ExpireSession, vars
        <4>3. q = p
          BY <4>1, <4>2, BeginMoves, StepMoves DEF Continues
        <4>4. ~Begin(p)
          BY <3>1, BeginMay DEF MayStart, Clearing
        <4>5. ClearDev(p)
          BY <3>1, <4>2, <4>3, <4>4
          DEF Clearing, Step, Cancel, SkipStatement, SetupCount, InsertAuthUser, SetupFlag,
              LoginInsert, Logout, ChangePasswordCheck, WriteHash, DropSessions, CreateCheck,
              CreateResolve, CreateAssign, UpdateResolve, UpdateSnapshot, UpdateGuarded,
              WriteRole, AssignDev, DeleteResolve, DeleteSnapshot, DeleteGuarded, DeleteRow,
              ResetResolve, CliDeleteRole, CliRoleCount
        <4> QED  BY <2>3, <3>1, <4>5 DEF Clearing
      <3> QED  BY <2>1, <3>1, <3>2 DEF Clearing
    <2>6. CASE users'[i].role # users[i].role
      <3>1. PICK p \in Procs : (UpdateGuarded(p) \/ WriteRole(p)) /\ i \in Rows(p)
        BY <2>1, <2>4, <2>6, RolesStay
      <3>2. req[p].op = "update"
        <4>1. AtOp(req[p].pc, req[p].op) /\ req[p].op # "cli_role"
          BY DEF TypeInv, ShapedRequest, Shape, AssignInv, AssignerOK
        <4> QED  BY <3>1, <4>1 DEF UpdateGuarded, WriteRole, AtOp
      <3>3. i = req[p].tid /\ Goto(p, "clear_dev")
        BY <3>1, <3>2 DEF Rows, CliOps, UpdateGuarded, WriteRole
      <3>4. req'[p].pc = "clear_dev" /\ req'[p].tid = i
        BY <3>3, ReqFields
      <3> QED  BY <2>1, <3>4 DEF Clearing
    <2> QED  BY <2>5, <2>6
  <1> QED  BY <1>1, <1>2, <1>3 DEF AssignInv

LEMMA AssignInit ==
    ASSUME Init, AssignersApart \subseteq Apart
    PROVE  AssignInv
  <1>0. Idle.pc = "idle" /\ Idle.op = "none"
    BY DEF Idle
  <1>1. \A p \in Procs : req[p].pc = "idle" /\ req[p].op = "none"
    BY <1>0 DEF Init
  <1>2. devDbs = {}
    BY DEF Init
  <1> QED  BY <1>1, <1>2, ApartInit DEF AssignInv, AssignerOK

\* When nothing runs, only developers have assignments.  It takes that no two
\* changes of a role overlap, that nobody creates an account while another
\* request changes or deletes accounts, that the CLI, which leaves assignments
\* alone, changes no role, and that no request is cut short.
THEOREM AssignmentsSafe ==
    ASSUME AssignersApart \subseteq Apart, "cli_role" \notin Ops, Faults = {}
    PROVE  Spec => []AssignmentsAreDevelopers
  <1> DEFINE IInv == TypeInv /\ TablesOK /\ OwnAccountInv /\ AssignInv
  <1>1. Init => IInv
    BY TypesInit, OwnAccountInit, AssignInit
  <1>2. IInv /\ [Next]_vars => IInv'
    BY TypesStep, OwnAccountStep, AssignStep
  <1>3. IInv => AssignmentsAreDevelopers
    BY DEF AssignInv, AssignmentsAreDevelopers, Clearing
  <1> QED  BY <1>1, <1>2, <1>3, PTL DEF Spec

-----------------------------------------------------------------------------
(***************************************************************************)
(* WebAccounts implements AccountRegister, for every value of the          *)
(* constants: each statement is one step of the register, or none.         *)
(*                                                                         *)
(* What a statement does to the tables decides which step it is; the       *)
(* lemmas below say so for each kind of statement.  The steps of the       *)
(* register have guards of their own, which need the uniqueness of names   *)
(* and the foreign keys (TablesOK).                                        *)
(***************************************************************************)

\* The rows whose expiry has not passed.
Unexpired == {u \in DOMAIN sessions : ~sessions[u].expired}

-----------------------------------------------------------------------------
(* What the statements are to the register *)

LEMMA InsertIsJoin ==
    ASSUME TablesOK, NEW i \in Ids \ used, NEW n \in Names, NEW r \in Roles,
           NEW h \in Hashes, Named(n) = {}, InsertRow(i, n, r, h),
           UNCHANGED <<sessions, devDbs>>
    PROVE  Register!Change
  <1>1. DOMAIN users' = DOMAIN users \cup {i}
    BY DEF InsertRow
  <1>2. \A k \in DOMAIN users' :
          Entry(k)' = IF k = i THEN [name |-> n, role |-> r] ELSE Entry(k)
    BY DEF InsertRow, Entry
  <1>3. \A j \in DOMAIN users : Entry(j).name # n
    BY DEF Named, Entry
  <1>4. Register!Join(i, n, r)
    BY <1>1, <1>2, <1>3 DEF Register!Join, InsertRow, TablesOK
  <1> QED  BY <1>4 DEF Register!Change

\* An UPDATE that concerns one row, or none.
LEMMA SetRoleIsChange ==
    ASSUME TablesOK, NEW S \in SUBSET DOMAIN users,
           \A i, j \in S : i = j, NEW r \in Roles, SetRole(S, r),
           UNCHANGED <<used, sessions, devDbs>>
    PROVE  Register!Change \/ UNCHANGED Register!registerVars
  <1>1. DOMAIN users' = DOMAIN users
    BY DEF SetRole
  <1>2. CASE S = {}
    <2>1. \A k \in DOMAIN users : Entry(k)' = Entry(k)
      BY <1>2 DEF SetRole, Entry
    <2> QED  BY <1>1, <2>1 DEF Register!registerVars
  <1>3. CASE S # {}
    <2>1. PICK i \in DOMAIN users : S = {i}
      BY <1>3
    <2>2. \A k \in DOMAIN users :
            Entry(k)' = IF k = i THEN [Entry(k) EXCEPT !.role = r] ELSE Entry(k)
      BY <2>1 DEF SetRole, Entry, TablesOK, UserRow
    <2>3. Register!ChangeRole(i, r)
      BY <1>1, <2>2 DEF Register!ChangeRole
    <2> QED  BY <2>3 DEF Register!Change
  <1> QED  BY <1>2, <1>3

LEMMA SetHashIsStutter ==
    ASSUME TablesOK, NEW S, NEW h \in Hashes, SetHash(S, h),
           UNCHANGED <<used, sessions, devDbs>>
    PROVE  UNCHANGED Register!registerVars
  <1>1. DOMAIN users' = DOMAIN users
    BY DEF SetHash
  <1>2. \A k \in DOMAIN users : Entry(k)' = Entry(k)
    BY DEF SetHash, Entry, TablesOK, UserRow
  <1> QED  BY <1>1, <1>2 DEF Register!registerVars

LEMMA DeleteIsLeave ==
    ASSUME TablesOK, NEW S \in SUBSET DOMAIN users,
           \A i, j \in S : i = j, DeleteRows(S), UNCHANGED used
    PROVE  Register!Change \/ UNCHANGED Register!registerVars
  <1>1. /\ DOMAIN users' = DOMAIN users \ S
        /\ \A k \in DOMAIN users' : Entry(k)' = Entry(k)
    BY DEF DeleteRows, Entry
  <1>2. /\ Unexpired' = {t \in Unexpired : sessions[t].user \notin S}
        /\ \A t \in Unexpired' : sessions'[t] = sessions[t]
    BY DEF DeleteRows, DeleteSessionsOf, Unexpired
  <1>3. CASE S = {}
    <2>1. Unexpired' = Unexpired /\ devDbs' = devDbs
      BY <1>2, <1>3 DEF DeleteRows
    <2> QED  BY <1>1, <1>2, <1>3, <2>1 DEF Register!registerVars, Unexpired
  <1>4. CASE S # {}
    <2>1. PICK i \in DOMAIN users : S = {i}
      BY <1>4
    <2>2. devDbs' = {r \in devDbs : r[1] # i}
      BY <2>1 DEF DeleteRows
    <2>3. Register!Leave(i)
      BY <1>1, <1>2, <2>1, <2>2 DEF Register!Leave, Unexpired
    <2> QED  BY <2>3 DEF Register!Change
  <1> QED  BY <1>3, <1>4

LEMMA LoginIsSignIn ==
    ASSUME TablesOK, NEW t \in Tokens \ DOMAIN sessions,
           NEW i \in DOMAIN users, NEW h,
           sessions' = [u \in DOMAIN sessions \cup {t} |->
                          IF u = t THEN [user |-> i, hash |-> h,
                                         expired |-> FALSE]
                                   ELSE sessions[u]],
           UNCHANGED <<users, used, devDbs>>
    PROVE  Register!Change
  <1>1. Unexpired' = Unexpired \cup {t} /\ t \notin Unexpired
    BY DEF Unexpired
  <1>2. \A u \in Unexpired' :
          sessions'[u].user = IF u = t THEN i ELSE sessions[u].user
    BY DEF Unexpired
  <1>3. \A k \in DOMAIN users : Entry(k)' = Entry(k)
    BY DEF Entry
  <1>4. Register!SignIn(t, i)
    BY <1>1, <1>2, <1>3 DEF Register!SignIn, Unexpired
  <1> QED  BY <1>4 DEF Register!Change

\* Sessions that are deleted or expire.
LEMMA EndIsSignOut ==
    ASSUME Unexpired' \subseteq Unexpired,
           \A t \in Unexpired' : sessions'[t].user = sessions[t].user,
           UNCHANGED <<users, used, devDbs>>
    PROVE  Register!Change
  <1>1. \A k \in DOMAIN users : Entry(k)' = Entry(k)
    BY DEF Entry
  <1>2. Register!SignOut
    BY <1>1 DEF Register!SignOut, Unexpired
  <1> QED  BY <1>2 DEF Register!Change

LEMMA AssignIsAssign ==
    ASSUME NEW i \in DOMAIN users, NEW d \in Dbs,
           devDbs' = devDbs \cup {<<i, d>>},
           UNCHANGED <<users, used, sessions>>
    PROVE  Register!Change
  <1>1. \A k \in DOMAIN users : Entry(k)' = Entry(k)
    BY DEF Entry
  <1>2. Register!Assign(i, d)
    BY <1>1 DEF Register!Assign
  <1> QED  BY <1>2 DEF Register!Change

LEMMA ClearIsUnassign ==
    ASSUME devDbs' \subseteq devDbs, UNCHANGED <<users, used, sessions>>
    PROVE  Register!Change
  <1>1. \A k \in DOMAIN users : Entry(k)' = Entry(k)
    BY DEF Entry
  <1>2. Register!Unassign
    BY <1>1 DEF Register!Unassign
  <1> QED  BY <1>2 DEF Register!Change

LEMMA UnchangedIsStutter ==
    ASSUME UNCHANGED <<users, used, sessions, devDbs>>
    PROVE  UNCHANGED Register!registerVars
  BY DEF Register!registerVars, Entry

-----------------------------------------------------------------------------
(* Every step *)

\* A username or an id selects one row at most.
LEMMA OneRow ==
    ASSUME TablesOK, NEW p \in Procs
    PROVE  Rows(p) \in SUBSET DOMAIN users /\ \A i, j \in Rows(p) : i = j
  BY DEF TablesOK, Rows, Named

LEMMA StepRefines ==
    ASSUME TypeInv, TablesOK, NEW p \in Procs, Step(p)
    PROVE  Register!Change \/ UNCHANGED Register!registerVars
  <1>0. /\ req[p] \in Request /\ Shape(req[p])
        /\ AtOp(req[p].pc, req[p].op)
    BY DEF TypeInv, ShapedRequest, Shape
  <1>1. CASE InsertAuthUser(p)
    <2>1. req[p].target \in Names /\ req[p].role \in Roles
      BY <1>0, <1>1 DEF InsertAuthUser, RejectsInsert, AtOp, Shape
    <2>2. CASE RejectsInsert(req[p].target)
      BY <1>1, <2>2, UnchangedIsStutter DEF InsertAuthUser, tables
    <2>3. CASE ~RejectsInsert(req[p].target)
      <3>1. PICK i \in Ids \ used, h \in Hashes :
              /\ InsertRow(i, req[p].target, req[p].role, h)
              /\ UNCHANGED <<sessions, devDbs>>
        BY <1>1, <2>3 DEF InsertAuthUser
      <3>2. Named(req[p].target) = {}
        BY <2>3 DEF RejectsInsert
      <3> QED  BY <2>1, <3>1, <3>2, InsertIsJoin
    <2> QED  BY <2>2, <2>3
  <1>2. CASE LoginInsert(p)
    <2>1. CASE UNCHANGED sessions
      BY <1>2, <2>1, UnchangedIsStutter DEF LoginInsert
    <2>2. CASE sessions' # sessions
      <3>1. PICK t \in Tokens \ DOMAIN sessions :
              sessions' = [u \in DOMAIN sessions \cup {t} |->
                             IF u = t THEN [user |-> req[p].tid,
                                            hash |-> req[p].hash,
                                            expired |-> FALSE]
                                      ELSE sessions[u]]
        BY <1>2, <2>2 DEF LoginInsert
      <3>2. req[p].tid \in DOMAIN users /\ UNCHANGED <<users, used, devDbs>>
        BY <1>2, <2>2 DEF LoginInsert
      <3> QED  BY <3>1, <3>2, LoginIsSignIn
    <2> QED  BY <2>1, <2>2
  <1>3. CASE Logout(p) \/ DropSessions(p)
    <2>1. PICK T \in SUBSET DOMAIN sessions :
            sessions' = [t \in T |-> sessions[t]]
      BY <1>3 DEF Logout, DropSessions, DeleteSessionsOf
    <2>2. UNCHANGED <<users, used, devDbs>>
      BY <1>3 DEF Logout, DropSessions
    <2> QED  BY <2>1, <2>2, EndIsSignOut DEF Unexpired
  <1>4. CASE WriteHash(p)
    BY <1>4, SetHashIsStutter DEF WriteHash
  <1>5. CASE CreateAssign(p)
    <2>1. UNCHANGED <<users, used, sessions>>
      BY <1>5 DEF CreateAssign
    <2>2. CASE UNCHANGED devDbs
      BY <2>1, <2>2, UnchangedIsStutter
    <2>3. CASE devDbs' # devDbs
      <3>1. PICK d \in req[p].dbs : /\ req[p].tid \in DOMAIN users
                                    /\ devDbs' = devDbs \cup {<<req[p].tid, d>>}
        BY <1>5, <2>3 DEF CreateAssign
      <3>2. d \in Dbs
        BY <1>0 DEF Request
      <3> QED  BY <2>1, <3>1, <3>2, AssignIsAssign
    <2> QED  BY <2>2, <2>3
  <1>6. CASE AssignDev(p)
    <2>1. PICK d \in req[p].dbs : devDbs' = devDbs \cup (Rows(p) \X {d})
      BY <1>6 DEF AssignDev
    <2>2. d \in Dbs /\ UNCHANGED <<users, used, sessions>>
      BY <1>0, <1>6 DEF Request, AssignDev
    <2>3. CASE Rows(p) = {}
      BY <2>1, <2>2, <2>3, UnchangedIsStutter
    <2>4. CASE Rows(p) # {}
      <3>1. PICK i \in DOMAIN users : Rows(p) = {i}
        BY <2>4, OneRow
      <3>2. devDbs' = devDbs \cup {<<i, d>>}
        BY <2>1, <3>1
      <3> QED  BY <2>2, <3>2, AssignIsAssign
    <2> QED  BY <2>3, <2>4
  <1>7. CASE ClearDev(p)
    BY <1>7, ClearIsUnassign DEF ClearDev
  <1>8. CASE UpdateGuarded(p) \/ WriteRole(p)
    <2>1. req[p].role \in Roles
      BY <1>0, <1>8 DEF UpdateGuarded, WriteRole, AtOp, Shape
    <2>2. SetRole(Rows(p), req[p].role) /\ UNCHANGED <<used, sessions, devDbs>>
      BY <1>8 DEF UpdateGuarded, WriteRole
    <2> QED  BY <2>1, <2>2, OneRow, SetRoleIsChange
  <1>9. CASE DeleteGuarded(p)
    <2>1. DeleteRows(Rows(p) \cap Admins) /\ UNCHANGED used
      BY <1>9 DEF DeleteGuarded
    <2>2. /\ Rows(p) \cap Admins \in SUBSET DOMAIN users
          /\ \A i, j \in Rows(p) \cap Admins : i = j
      BY OneRow
    <2> QED  BY <2>1, <2>2, DeleteIsLeave
  <1>10. CASE DeleteRow(p)
    BY <1>10, OneRow, DeleteIsLeave DEF DeleteRow
  <1>11. CASE SetupFlag(p)
    BY <1>11, UnchangedIsStutter DEF SetupFlag
  <1>12. CASE SetupCount(p) \/ ChangePasswordCheck(p) \/ CreateCheck(p)
              \/ CreateResolve(p) \/ UpdateResolve(p) \/ UpdateSnapshot(p)
              \/ DeleteResolve(p) \/ DeleteSnapshot(p) \/ ResetResolve(p)
              \/ CliDeleteRole(p) \/ CliRoleCount(p)
    <2>1. UNCHANGED tables
      BY <1>12 DEF SetupCount, ChangePasswordCheck, CreateCheck, CreateResolve,
         UpdateResolve, UpdateSnapshot, DeleteResolve, DeleteSnapshot,
         ResetResolve, CliDeleteRole, CliRoleCount
    <2> QED  BY <2>1, UnchangedIsStutter DEF tables
  <1> QED
    BY <1>1, <1>2, <1>3, <1>4, <1>5, <1>6, <1>7, <1>8, <1>9, <1>10, <1>11,
       <1>12 DEF Step

LEMMA NextRefines ==
    ASSUME TypeInv, TablesOK, [Next]_vars
    PROVE  [Register!Change]_(Register!registerVars)
  <1>1. ASSUME NEW p \in Procs, Begin(p) \/ Cancel(p) \/ SkipStatement(p)
        PROVE  UNCHANGED Register!registerVars
    <2>1. UNCHANGED tables
      BY <1>1 DEF Begin, SetupStart, LoginStart, UserRequest, AdminRequest,
         CliCreate, CliRole, CliDeleteCount, CliReset, Cancel, SkipStatement
    <2> QED  BY <2>1, UnchangedIsStutter DEF tables
  <1>2. ASSUME NEW p \in Procs, Step(p)
        PROVE  Register!Change \/ UNCHANGED Register!registerVars
    BY <1>2, StepRefines
  <1>3. ASSUME NEW t \in Tokens, ExpireSession(t)
        PROVE  Register!Change
    <2>1. /\ t \in DOMAIN sessions
          /\ sessions' = [sessions EXCEPT ![t].expired = TRUE]
          /\ UNCHANGED <<users, used, devDbs>>
      BY <1>3 DEF ExpireSession, Authenticated
    <2>2. \A u \in DOMAIN sessions :
            /\ sessions'[u].user = sessions[u].user
            /\ ~sessions'[u].expired => ~sessions[u].expired
      BY <2>1 DEF TablesOK, SessionRow
    <2>3. DOMAIN sessions' = DOMAIN sessions
      BY <2>1
    <2> QED  BY <2>1, <2>2, <2>3, EndIsSignOut DEF Unexpired
  <1>4. CASE UNCHANGED vars
    BY <1>4, UnchangedIsStutter DEF vars
  <1> QED  BY <1>1, <1>2, <1>3, <1>4 DEF Next

LEMMA InitRefines == Init => Register!Start
  BY DEF Init, Register!Start

\* The statements of any number of requests and of the CLI, interleaved and
\* failing in any way, implement the register of accounts.
THEOREM RegisterImplemented == Spec => ImplementsRegister
  <1>1. TypeInv /\ TablesOK /\ [Next]_vars => (TypeInv /\ TablesOK)'
    BY TypesStep
  <1>2. TypeInv /\ TablesOK /\ [Next]_vars
          => [Register!Change]_(Register!registerVars)
    BY NextRefines
  <1> QED
    BY TypesInit, InitRefines, <1>1, <1>2, PTL
       DEF Spec, ImplementsRegister, Register!RegisterSpec

-----------------------------------------------------------------------------
(***************************************************************************)
(* Requests that overlap or are cut short, without any assumption on       *)
(* clients and failures: what they leave behind is traced to the step that *)
(* is to blame.                                                            *)
(***************************************************************************)

\* What a Login has verified is the account's hash unless a change overtook it.
LoginsTraced ==
    \A p \in Procs \ overtaken :
        req[p].pc = "login_insert" /\ req[p].tid \in DOMAIN users
            => users[req[p].tid].hash = req[p].hash

\* Who goes on to assign works on a developer, or the account is to blame.
AssignersTraced ==
    \A q \in Procs, i \in DOMAIN users :
        Assigns(q, i) => users[i].role = "dev" \/ i \in loose

\* Every other assignment is about to be cleared.
RowsTraced ==
    \A r \in devDbs :
        \/ users[r[1]].role = "dev" \/ r[1] \in loose
        \/ \E p \in Procs : Clearing(p, r[1]) /\ req[p].role # "dev"

TracedInv ==
    StaleSessionsTraced /\ LoginsTraced /\ AssignersTraced /\ RowsTraced

\* The history variables add no step.
LEMMA FailNextSteps == ASSUME [FailNext]_failVars PROVE [Next]_vars
  <1>1. ASSUME FailNext PROVE Next
    BY <1>1, Zenon DEF FailNext, Next
  <1> QED  BY <1>1 DEF failVars

\* A request that moves begins, makes a statement, or is cut short.
LEMMA FailMoves ==
    ASSUME TypeInv, TablesOK, [FailNext]_failVars,
           NEW p \in Procs, req'[p] # req[p]
    PROVE  \/ req[p].pc = "idle" /\ Begin(p)
           \/ Step(p) /\ Follows(p)
           \/ (Cancel(p) \/ SkipStatement(p)) /\ Breaks(p)
  <1>1. FailNext
    BY DEF failVars, vars
  <1>2. ~\E t \in Tokens : ExpireSession(t) /\ UNCHANGED history
    BY DEF ExpireSession
  <1>3. PICK q \in Procs : \/ Begin(q) /\ UNCHANGED history
                           \/ Step(q) /\ Follows(q)
                           \/ (Cancel(q) \/ SkipStatement(q)) /\ Breaks(q)
    BY <1>1, <1>2 DEF FailNext
  <1>4. q = p
    BY <1>3, BeginMoves, StepMoves DEF Continues
  <1>5. Begin(p) => req[p].pc = "idle"
    BY BeginMay DEF MayStart
  <1> QED  BY <1>3, <1>4, <1>5

\* What the steps in between leave of the history.
LEMMA FailCases ==
    ASSUME [FailNext]_failVars
    PROVE  \/ UNCHANGED history
           \/ \E p \in Procs : Step(p) /\ Follows(p)
           \/ \E p \in Procs : Breaks(p)
  BY Zenon DEF FailNext, failVars

\* Which statement a request makes is a matter of its program counter.
LEMMA StepsByPc ==
    ASSUME NEW p \in Procs, Step(p)
    PROVE  /\ req[p].pc \in {"sessions_then_done", "sessions_then_delete"} => DropSessions(p)
           /\ req[p].pc = "write_hash" => WriteHash(p)
           /\ req[p].pc = "clear_dev" => ClearDev(p)
           /\ req[p].pc = "create_resolve" => CreateResolve(p)
           /\ req[p].pc = "create_assign" => CreateAssign(p)
           /\ req[p].pc = "assign_dev" => AssignDev(p)
  BY DEF Step, SetupCount, InsertAuthUser, SetupFlag, LoginInsert, Logout,
     ChangePasswordCheck, WriteHash, DropSessions, CreateCheck, CreateResolve, CreateAssign,
     UpdateResolve, UpdateSnapshot, UpdateGuarded, WriteRole, ClearDev, AssignDev,
     DeleteResolve, DeleteSnapshot, DeleteGuarded, DeleteRow, ResetResolve, CliDeleteRole,
     CliRoleCount

(* Sessions *)

\* A late session stays late, and who is overtaken stays so until it moves.
LEMMA LateStays ==
    ASSUME [FailNext]_failVars
    PROVE  \A t \in late : t \in DOMAIN sessions' => t \in late'
  BY FailCases DEF history, Follows, Breaks

LEMMA OvertakenStays ==
    ASSUME TypeInv, TablesOK, [FailNext]_failVars,
           NEW p \in overtaken, req'[p] = req[p], req[p].pc = "login_insert", p \in Procs
    PROVE  p \in overtaken'
  <1>1. ASSUME NEW q \in Procs, Step(q) \/ Cancel(q) \/ SkipStatement(q) PROVE q # p
    <2>1. ASSUME Step(p) \/ Cancel(p) \/ SkipStatement(p) PROVE FALSE
      BY <2>1, NoStepToLogin
    <2> QED  BY <1>1, <2>1
  <1>2. \/ UNCHANGED history
        \/ \E q \in Procs : (Step(q) \/ Cancel(q) \/ SkipStatement(q)) /\ (Follows(q) \/ Breaks(q))
    BY Zenon DEF FailNext, failVars
  <1> QED  BY <1>1, <1>2 DEF history, Follows, Breaks, Overtakes

\* An account is to blame until its sessions are dropped.
LEMMA CutStays ==
    ASSUME TypeInv, TablesOK, [FailNext]_failVars, NEW i \in cut
    PROVE  i \in cut' \/ \A t \in DOMAIN sessions' : sessions'[t].user # i
  <1>1. ASSUME NEW p \in Procs, Step(p), Follows(p), i \notin cut'
        PROVE  \A t \in DOMAIN sessions' : sessions'[t].user # i
    <2>1. /\ req[p].pc \in {"sessions_then_done", "sessions_then_delete"}
          /\ i \in IF req[p].op \in CliOps THEN Rows(p) ELSE {req[p].tid}
      BY <1>1 DEF Follows, DropsSessions
    <2>2. DropSessions(p)
      BY <1>1, <2>1, StepsByPc
    <2> QED  BY <2>1, <2>2 DEF DropSessions, DeleteSessionsOf
  <1>2. ASSUME NEW p \in Procs, Breaks(p) PROVE i \in cut'
    BY <1>2 DEF Breaks
  <1> QED  BY <1>1, <1>2, FailCases DEF history

\* The statement that comes next drops the sessions, or never comes.
LEMMA DroppingTraced ==
    ASSUME TypeInv, TablesOK, [FailNext]_failVars, NEW p \in Procs,
           NEW i, i \in DOMAIN users', Dropping(p, i)
    PROVE  \/ Dropping(p, i)' \/ i \in cut'
           \/ \A t \in DOMAIN sessions' : sessions'[t].user # i
  <1>0. i \in DOMAIN users /\ i \in used
    BY DEF Dropping, Rows, Named, TablesOK
  <1>1. CASE req'[p] = req[p]
    <2>1. users'[i].name = users[i].name
      BY <1>0, FailNextSteps, NamesStay DEF NamesFixed
    <2>2. i \in Rows(p)'
      BY <1>0, <1>1, <2>1 DEF Dropping, Rows, Named
    <2> QED  BY <1>1, <2>2 DEF Dropping
  <1>2. CASE req'[p] # req[p]
    <2>1. \/ Step(p) /\ Follows(p)
          \/ (Cancel(p) \/ SkipStatement(p)) /\ Breaks(p)
      BY <1>2, FailMoves DEF Dropping
    <2>2. CASE Step(p)
      <3>1. DropSessions(p)
        BY <2>2, StepsByPc DEF Dropping
      <3>2. i \in IF req[p].op \in CliOps THEN Rows(p) ELSE {req[p].tid}
        BY DEF Dropping, Rows
      <3> QED  BY <3>1, <3>2 DEF DropSessions, DeleteSessionsOf
    <2>3. CASE Breaks(p)
      BY <2>3 DEF Breaks, Dropping
    <2> QED  BY <2>1, <2>2, <2>3
  <1> QED  BY <1>1, <1>2

\* Who writes a password moves on to drop the sessions, and overtakes the logins.
LEMMA HashWritten ==
    ASSUME TypeInv, TablesOK, [FailNext]_failVars, NEW p \in Procs, WriteHash(p)
    PROVE  /\ Step(p) /\ Follows(p)
           /\ req[p].pc = "write_hash" /\ req[p].op \in PasswordOps
           /\ req'[p].pc = "sessions_then_done" /\ req'[p].op = req[p].op
           /\ req'[p].target = req[p].target /\ req'[p].tid = req[p].tid
  <1>1. /\ req'[p].pc = "sessions_then_done" /\ req'[p].op = req[p].op
        /\ req'[p].target = req[p].target /\ req'[p].tid = req[p].tid
        /\ req[p].pc = "write_hash"
    BY ReqFields DEF WriteHash
  <1>2. req[p].op \in PasswordOps
    <2>1. AtOp(req[p].pc, req[p].op)
      BY DEF TypeInv, ShapedRequest, Shape
    <2> QED  BY <1>1, <2>1 DEF AtOp
  <1>3. ~Cancel(p)
    BY <1>1, ReqFields DEF Cancel
  <1>4. ~SkipStatement(p)
    BY <1>1 DEF SkipStatement
  <1>5. Step(p) /\ Follows(p)
    BY <1>1, <1>3, <1>4, FailMoves
  <1> QED  BY <1>1, <1>2, <1>5

LEMMA LoginsStep ==
    ASSUME TypeInv, TablesOK, OwnAccountInv, LoginsTraced, [FailNext]_failVars
    PROVE  LoginsTraced'
  <1>0. TypeInv' /\ TablesOK' /\ DOMAIN users \subseteq used /\ [Next]_vars
    BY TypesStep, FailNextSteps DEF TablesOK
  <1> SUFFICES ASSUME NEW p \in Procs, p \notin overtaken',
                      req'[p].pc = "login_insert", req'[p].tid \in DOMAIN users'
               PROVE  users'[req'[p].tid].hash = req'[p].hash
    BY DEF LoginsTraced
  <1>1. CASE req'[p] = req[p]
    <2>1. p \notin overtaken
      BY <1>1, OvertakenStays
    <2>2. req[p].tid \in used
      BY <1>0, <1>1, NoneAssumption DEF OwnAccountInv, TablesOK
    <2>3. /\ req[p].tid \in DOMAIN users
          /\ \/ users'[req[p].tid].hash = users[req[p].tid].hash
             \/ \E q \in Procs : WriteHash(q) /\ req[p].tid \in Rows(q)
      BY <1>0, <1>1, <2>2, HashesStay
    <2>4. ASSUME NEW q \in Procs, WriteHash(q), req[p].tid \in Rows(q) PROVE FALSE
      BY <1>1, <2>4, HashWritten DEF Follows, Overtakes
    <2> QED  BY <1>1, <2>1, <2>3, <2>4 DEF LoginsTraced
  <1>2. CASE Begin(p)
    <2>1. PICK i \in DOMAIN users : req'[p].tid = i /\ req'[p].hash = users[i].hash
      BY <1>2, BeginLogin
    <2>2. UNCHANGED users
      BY <1>2 DEF Begin, SetupStart, LoginStart, UserRequest, AdminRequest,
         CliCreate, CliRole, CliDeleteCount, CliReset, tables
    <2> QED  BY <2>1, <2>2
  <1>3. CASE Step(p) \/ Cancel(p) \/ SkipStatement(p)
    BY <1>3, NoStepToLogin
  <1> QED
    BY <1>0, <1>1, <1>2, <1>3, BeginMoves, StepMoves DEF Continues, Next, ExpireSession, vars

LEMMA StaleStep ==
    ASSUME TypeInv, TablesOK, LoginsTraced, StaleSessionsTraced, [FailNext]_failVars
    PROVE  StaleSessionsTraced'
  <1>0. TypeInv' /\ TablesOK' /\ DOMAIN users \subseteq used /\ [Next]_vars
    BY TypesStep, FailNextSteps DEF TablesOK
  <1> SUFFICES ASSUME NEW t \in DOMAIN sessions',
                      sessions'[t].hash # users'[sessions'[t].user].hash
               PROVE  \/ \E p \in Procs : Dropping(p, sessions[t].user)'
                      \/ sessions'[t].user \in cut'
                      \/ t \in late'
    BY DEF StaleSessionsTraced, Dropping
  <1>1. PICK i \in DOMAIN users' : i = sessions'[t].user
    BY <1>0 DEF TablesOK, NoOrphans
  <1> SUFFICES (\E p \in Procs : Dropping(p, i)') \/ i \in cut' \/ t \in late'
    BY <1>1 DEF Dropping
  <1>2. CASE \E p \in Procs :
               /\ LoginInsert(p) /\ t \notin DOMAIN sessions
               /\ req[p].pc = "login_insert" /\ req[p].tid \in DOMAIN users
               /\ sessions'[t].user = req[p].tid /\ sessions'[t].hash = req[p].hash
               /\ UNCHANGED users
    <2>1. PICK p \in Procs :
               /\ LoginInsert(p) /\ t \notin DOMAIN sessions
               /\ req[p].pc = "login_insert" /\ req[p].tid \in DOMAIN users
               /\ sessions'[t].user = req[p].tid /\ sessions'[t].hash = req[p].hash
               /\ UNCHANGED users
      BY <1>2
    <2>2. p \in overtaken
      BY <2>1 DEF LoginsTraced
    <2>3. req'[p].pc = "idle"
      BY <2>1, ReqFields DEF LoginInsert
    <2>4. ~(Cancel(p) \/ SkipStatement(p))
      BY <2>1 DEF Cancel, SkipStatement, tables
    <2>5. Follows(p)
      BY <2>1, <2>3, <2>4, FailMoves
    <2> QED  BY <2>1, <2>2, <2>5 DEF Follows
  <1>3. CASE /\ t \in DOMAIN sessions /\ sessions'[t].user = sessions[t].user
             /\ sessions'[t].hash = sessions[t].hash
    <2>1. i = sessions[t].user /\ i \in DOMAIN users /\ i \in used
      BY <1>0, <1>1, <1>3 DEF TablesOK, NoOrphans
    <2>2. CASE users'[i].hash = users[i].hash
      <3>1. (\E p \in Procs : Dropping(p, i)) \/ i \in cut \/ t \in late
        BY <1>1, <1>3, <2>1, <2>2 DEF StaleSessionsTraced, Dropping
      <3>2. ASSUME NEW p \in Procs, Dropping(p, i)
            PROVE  Dropping(p, i)' \/ i \in cut'
        BY <1>1, <3>2, DroppingTraced
      <3>3. CASE i \in cut
        BY <1>1, <3>3, CutStays
      <3>4. CASE t \in late
        BY <3>4, LateStays
      <3> QED  BY <3>1, <3>2, <3>3, <3>4
    <2>3. CASE users'[i].hash # users[i].hash
      <3>1. PICK p \in Procs : WriteHash(p) /\ i \in Rows(p)
        BY <1>0, <1>1, <2>1, <2>3, HashesStay
      <3>2. /\ req[p].op \in PasswordOps
            /\ req'[p].pc = "sessions_then_done" /\ req'[p].op = req[p].op
            /\ req'[p].target = req[p].target /\ req'[p].tid = req[p].tid
        BY <3>1, HashWritten
      <3>3. users'[i].name = users[i].name
        BY <1>0, <1>1, <2>1, NamesStay DEF NamesFixed
      <3>4. i \in Rows(p)'
        BY <1>1, <3>1, <3>2, <3>3 DEF Rows, Named
      <3> QED  BY <3>2, <3>4 DEF Dropping
    <2> QED  BY <2>2, <2>3
  <1> QED  BY <1>0, <1>2, <1>3, SessionsStay

(* Assignments *)

\* Only a request that clears the assignments of an account that nobody is
\* assigning to mends the account.
LEMMA LooseStays ==
    ASSUME [FailNext]_failVars, NEW i \in loose, i \notin loose'
    PROVE  \E p \in Procs : /\ ClearDev(p) /\ req[p].tid = i
                            /\ \A q \in Procs : ~Assigns(q, i)
  <1>1. ASSUME NEW p \in Procs, Step(p), Follows(p)
        PROVE  /\ ClearDev(p) /\ req[p].tid = i
               /\ \A q \in Procs : ~Assigns(q, i)
    <2>1. /\ req[p].pc = "clear_dev" /\ req[p].tid = i
          /\ \A q \in Procs : ~Assigns(q, req[p].tid)
      BY <1>1 DEF Follows, Loosens
    <2> QED  BY <1>1, <2>1, StepsByPc
  <1>2. ASSUME NEW p \in Procs, Breaks(p) PROVE FALSE
    BY <1>2 DEF Breaks
  <1> QED  BY <1>1, <1>2, FailCases DEF history

\* Who writes a role goes on within UpdateAuthUser, or answers for it.
LEMMA RoleWritten ==
    ASSUME TypeInv, TablesOK, [FailNext]_failVars, NEW p \in Procs,
           UpdateGuarded(p) \/ WriteRole(p), NEW i \in Rows(p)
    PROVE  /\ Follows(p) /\ req[p].pc \in {"write_role", "update_guarded"}
           /\ req'[p].role = req[p].role
           /\ \/ req[p].op \in CliOps
              \/ req[p].tid = i /\ req'[p].tid = i /\ req'[p].pc = "clear_dev"
  <1>1. AtOp(req[p].pc, req[p].op)
    BY DEF TypeInv, ShapedRequest, Shape
  <1>2. PICK pc \in {"clear_dev", "sessions_then_done"} :
           /\ Goto(p, pc) /\ req[p].pc \in {"write_role", "update_guarded"}
           /\ req[p].op \in CliOps \/ (req[p].op \notin CliOps /\ pc = "clear_dev")
    <2>1. CASE UpdateGuarded(p)
      BY <1>1, <2>1 DEF UpdateGuarded, AtOp, CliOps
    <2>2. CASE WriteRole(p)
      BY <1>1, <2>2 DEF WriteRole, AtOp, CliOps
    <2> QED  BY <2>1, <2>2
  <1>3. req'[p].pc = pc /\ req'[p].tid = req[p].tid /\ req'[p].role = req[p].role
    BY <1>2, ReqFields
  <1>4. ~Cancel(p) /\ ~SkipStatement(p)
    BY <1>2, <1>3, ReqFields DEF Cancel, SkipStatement
  <1>5. Follows(p)
    BY <1>2, <1>3, <1>4, FailMoves
  <1>6. req[p].op \notin CliOps => req[p].tid = i
    BY DEF Rows
  <1> QED  BY <1>2, <1>3, <1>5, <1>6

LEMMA AssignersStep ==
    ASSUME TypeInv, TablesOK, OwnAccountInv, AssignersTraced, [FailNext]_failVars
    PROVE  AssignersTraced'
  <1>0. TypeInv' /\ TablesOK' /\ DOMAIN users \subseteq used /\ [Next]_vars
    BY TypesStep, FailNextSteps DEF TablesOK
  <1> SUFFICES ASSUME NEW q \in Procs, NEW i \in DOMAIN users', Assigns(q, i)'
               PROVE  users'[i].role = "dev" \/ i \in loose'
    BY DEF AssignersTraced
  <1>1. CASE Assigns(q, i)
    <2>1. i \in used
      BY <1>0, <1>1, NoneAssumption DEF Assigns, OwnAccountInv, TablesOK
    <2>2. i \in DOMAIN users
      BY <1>0, <2>1, RolesStay
    <2>3. CASE users'[i].role = users[i].role
      BY <1>1, <2>2, <2>3, LooseStays DEF AssignersTraced
    <2>4. ASSUME NEW p \in Procs, UpdateGuarded(p) \/ WriteRole(p),
                 i \in Rows(p), users'[i].role = req[p].role
          PROVE  users'[i].role = "dev" \/ i \in loose'
      <3>1. Follows(p) /\ req[p].pc \in {"write_role", "update_guarded"}
        BY <2>4, RoleWritten
      <3> QED  BY <1>1, <2>4, <3>1 DEF Follows, Loosens
    <2> QED  BY <1>0, <2>1, <2>3, <2>4, RolesStay
  <1>2. CASE ~Assigns(q, i)
    <2>1. req'[q] # req[q] /\ req'[q].pc \in AssignerPcs
      BY <1>2 DEF Assigns, AssignerPcs
    <2>2. ~Begin(q)
      BY <2>1, NoAssignerBegins
    <2>3. CASE SkipStatement(q)
      <3>1. CASE req[q].pc = "clear_dev" /\ req[q].role = "dev" /\ Goto(q, "assign_dev")
        BY <1>2, <3>1, ReqFields DEF Assigns
      <3>2. CASE req[q].pc = "assign_dev" /\ \E d : req' = [req EXCEPT ![q].dbs = @ \ {d}]
        BY <1>2, <3>2, ReqFields DEF Assigns
      <3>3. CASE Done(q) \/ Goto(q, "delete_row")
        BY <2>1, <3>3, ReqFields DEF AssignerPcs
      <3> QED  BY <2>3, <3>1, <3>2, <3>3 DEF SkipStatement
    <2>4. CASE Cancel(q)
      BY <2>1, <2>4, ReqFields DEF Cancel, AssignerPcs
    <2>5. CASE (UpdateGuarded(q) \/ WriteRole(q)) /\ Follows(q)
      <3>1. CASE Done(q)
        BY <2>1, <3>1, ReqFields DEF AssignerPcs
      <3>2. CASE Goto(q, "sessions_then_done")
        BY <2>1, <3>2, ReqFields DEF AssignerPcs
      <3>3. CASE Goto(q, "clear_dev") /\ req[q].op = "update"
        <4>1. req[q].tid = i /\ req[q].role = "dev"
          BY <3>3, ReqFields DEF Assigns
        <4>2. SetRole(Rows(q), "dev")
          BY <2>5, <4>1 DEF UpdateGuarded, WriteRole
        <4>3. i \in Rows(q)
          BY <3>3, <4>1, <4>2 DEF SetRole, Rows, CliOps
        <4> QED  BY <4>2, <4>3 DEF SetRole, TablesOK, UserRow
      <3>4. AtOp(req[q].pc, req[q].op)
        BY DEF TypeInv, ShapedRequest, Shape
      <3> QED  BY <2>5, <3>1, <3>2, <3>3, <3>4 DEF UpdateGuarded, WriteRole, AtOp
    <2>6. CASE ClearDev(q)
      <3>1. CASE Done(q)
        BY <2>1, <3>1, ReqFields DEF AssignerPcs
      <3>2. CASE req[q].role = "dev" /\ Goto(q, "assign_dev")
        BY <1>2, <2>6, <3>2, ReqFields DEF Assigns, ClearDev
      <3> QED  BY <2>6, <3>1, <3>2 DEF ClearDev
    <2>7. CASE AssignDev(q) \/ CreateAssign(q)
      <3>1. CASE Done(q)
        BY <2>1, <3>1, ReqFields DEF AssignerPcs
      <3>2. CASE \E d : req' = [req EXCEPT ![q].dbs = @ \ {d}]
        BY <1>2, <2>7, <3>2, ReqFields DEF Assigns, AssignDev, CreateAssign
      <3> QED  BY <2>7, <3>1, <3>2 DEF AssignDev, CreateAssign
    <2>8. CASE InsertAuthUser(q)
      <3>1. Done(q) \/ Goto(q, "setup_flag") \/ Goto(q, "create_resolve")
        BY <2>8 DEF InsertAuthUser
      <3> QED  BY <3>1, ReqFields DEF Assigns
    <2>9. CASE CreateResolve(q) /\ Follows(q)
      <3>1. CASE Done(q)
        BY <2>1, <3>1, ReqFields DEF AssignerPcs
      <3>2. ASSUME NEW j \in Named(req[q].target), Resolved(q, j, "create_assign")
            PROVE  users'[i].role = "dev" \/ i \in loose'
        <4>1. j = i
          BY <3>2, ReqFields DEF Assigns
        <4>2. req[q].pc = "create_resolve" /\ UNCHANGED users
          BY <2>9 DEF CreateResolve, tables
        <4> QED  BY <2>9, <3>2, <4>1, <4>2 DEF Follows, Loosens
      <3> QED  BY <2>9, <3>1, <3>2 DEF CreateResolve
    <2>10. Step(q) => Follows(q) \/ Cancel(q) \/ SkipStatement(q)
      BY <2>1, <2>2, FailMoves
    <2>11. Step(q) \/ Cancel(q) \/ SkipStatement(q)
      BY <2>1, <2>2, FailMoves
    <2> QED
      BY <2>1, <2>3, <2>4, <2>5, <2>6, <2>7, <2>8, <2>9, <2>10, <2>11, StepToAssigner
  <1> QED  BY <1>1, <1>2

LEMMA RowsStep ==
    ASSUME TypeInv, TablesOK, OwnAccountInv, AssignersTraced, RowsTraced, [FailNext]_failVars
    PROVE  RowsTraced'
  <1>0. TypeInv' /\ TablesOK' /\ DOMAIN users \subseteq used /\ [Next]_vars
    BY TypesStep, FailNextSteps DEF TablesOK
  <1> SUFFICES ASSUME NEW r \in devDbs', users'[r[1]].role # "dev", r[1] \notin loose'
               PROVE  \E p \in Procs : Clearing(p, r[1])' /\ req'[p].role # "dev"
    BY DEF RowsTraced, Clearing
  <1>1. PICK i \in DOMAIN users' : i = r[1]
    BY <1>0 DEF TablesOK, NoOrphans
  <1>2. ASSUME NEW q \in Procs, req[q].pc \in {"create_assign", "assign_dev"},
               i = req[q].tid, i \in DOMAIN users, UNCHANGED users
        PROVE  FALSE
    <2>1. Assigns(q, i)
      BY <1>2 DEF Assigns
    <2>2. i \in loose
      BY <1>1, <1>2, <2>1 DEF AssignersTraced
    <2> QED  BY <1>1, <2>1, <2>2, LooseStays
  <1>3. r \in devDbs /\ \A p \in Procs : ClearDev(p) => req[p].tid # i
    BY <1>0, <1>1, <1>2, DevDbsStay
  <1>4. i \in DOMAIN users /\ i \in used
    BY <1>0, <1>1, <1>3 DEF TablesOK, NoOrphans
  <1>5. i \notin loose
    BY <1>1, <1>3, LooseStays
  <1>6. CASE users'[i].role = users[i].role
    <2>1. PICK p \in Procs : Clearing(p, i) /\ req[p].role # "dev"
      BY <1>1, <1>3, <1>5, <1>6 DEF RowsTraced
    <2>2. req'[p] = req[p]
      <3>1. SUFFICES ASSUME req'[p] # req[p] PROVE FALSE
        OBVIOUS
      <3>2. Step(p) \/ Breaks(p)
        BY <2>1, <3>1, FailMoves DEF Clearing
      <3>3. ~Step(p)
        BY <1>3, <2>1, StepsByPc DEF Clearing
      <3>4. Breaks(p)
        BY <3>2, <3>3
      <3> QED  BY <1>1, <2>1, <3>4 DEF Breaks, Clearing
    <2> QED  BY <1>1, <2>1, <2>2 DEF Clearing
  <1>7. ASSUME NEW p \in Procs, UpdateGuarded(p) \/ WriteRole(p),
               i \in Rows(p), users'[i].role = req[p].role
        PROVE  Clearing(p, i)' /\ req'[p].role # "dev"
    <2>1. /\ Follows(p) /\ req[p].pc \in {"write_role", "update_guarded"}
          /\ req'[p].role = req[p].role
          /\ \/ req[p].op \in CliOps
             \/ req[p].tid = i /\ req'[p].tid = i /\ req'[p].pc = "clear_dev"
      BY <1>7, RoleWritten
    <2>2. req[p].op \notin CliOps
      BY <1>1, <1>7, <2>1 DEF Follows, Loosens
    <2> QED  BY <1>1, <1>7, <2>1, <2>2 DEF Clearing
  <1> QED  BY <1>0, <1>1, <1>4, <1>6, <1>7, RolesStay

LEMMA TracedInit == FailInit => TypeInv /\ TablesOK /\ OwnAccountInv /\ TracedInv
  <1> SUFFICES ASSUME FailInit PROVE TypeInv /\ TablesOK /\ OwnAccountInv /\ TracedInv
    OBVIOUS
  <1>1. Init
    BY DEF FailInit
  <1>2. DOMAIN sessions = {} /\ devDbs = {} /\ DOMAIN users = {}
    BY <1>1 DEF Init
  <1> QED
    BY <1>1, <1>2, TypesInit, OwnAccountInit DEF TracedInv, StaleSessionsTraced,
       LoginsTraced, AssignersTraced, RowsTraced

LEMMA TracedStep ==
    ASSUME TypeInv, TablesOK, OwnAccountInv, TracedInv, [FailNext]_failVars
    PROVE  TypeInv' /\ TablesOK' /\ OwnAccountInv' /\ TracedInv'
  BY FailNextSteps, TypesStep, OwnAccountStep, LoginsStep, StaleStep, AssignersStep,
     RowsStep DEF TracedInv

\* The history only watches: a behaviour with it is one of the tables and the
\* requests, so that what is proved of Spec holds of it too.
THEOREM FailuresAreRuns == FailSpec => Spec
  <1>1. FailInit => Init
    BY DEF FailInit
  <1>2. [FailNext]_failVars => [Next]_vars
    BY FailNextSteps
  <1> QED  BY <1>1, <1>2, PTL DEF FailSpec, Spec

\* Whatever clients overlap and whatever is cut short or fails unnoticed, a
\* session of a former password is there because its request has yet to drop
\* it or was cut short before it did, or because the change of the password
\* overtook the login that made the session.  There is no other way.
THEOREM StaleSessionsAreTraced == FailSpec => []StaleSessionsTraced
  <1> DEFINE IInv == TypeInv /\ TablesOK /\ OwnAccountInv /\ TracedInv
  <1>1. FailInit => IInv
    BY TracedInit
  <1>2. IInv /\ [FailNext]_failVars => IInv'
    BY TracedStep
  <1>3. IInv => StaleSessionsTraced
    BY DEF TracedInv
  <1> QED  BY <1>1, <1>2, <1>3, PTL DEF FailSpec

\* Likewise, an account that is no developer and has databases assigned when
\* nothing runs lost its role by the CLI, under a request that was assigning,
\* or by one that was cut short before it cleared the assignments.
THEOREM AssignmentsAreTraced == FailSpec => []AssignmentsTraced
  <1> DEFINE IInv == TypeInv /\ TablesOK /\ OwnAccountInv /\ TracedInv
  <1>1. FailInit => IInv
    BY TracedInit
  <1>2. IInv /\ [FailNext]_failVars => IInv'
    BY TracedStep
  <1>3. IInv => AssignmentsTraced
    BY DEF TracedInv, RowsTraced, Clearing, AssignmentsTraced
  <1> QED  BY <1>1, <1>2, <1>3, PTL DEF FailSpec
=============================================================================
