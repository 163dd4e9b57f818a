-------------------------- MODULE AccountFailures --------------------------
(***************************************************************************)
(* What requests that overlap or are cut short leave behind in the tables  *)
(* of WebAccounts: sessions of former passwords, and databases assigned to *)
(* accounts that are no developers.  WebAccounts shows that there are none *)
(* if clients behave and nothing fails.  Here clients and failures are     *)
(* free, and each leftover is traced to the step that is to blame, so that *)
(* there are no others.                                                    *)
(*                                                                         *)
(* Four history variables follow the steps of WebAccounts; no step reads   *)
(* them.                                                                   *)
(***************************************************************************)
EXTENDS WebAccounts

VARIABLES
    overtaken,  \* logins whose account got another password since it was checked
    late,       \* sessions such a login has opened
    cut,        \* accounts that got another password from a request that was
                \* cut short before it dropped their sessions
    loose       \* accounts that kept or got assignments they should not have

history == <<overtaken, late, cut, loose>>
failVars == <<vars, history>>

\* The request q goes on to assign databases to the account i.
Assigns(q, i) ==
    /\ req[q].tid = i
    /\ \/ req[q].pc \in {"create_assign", "assign_dev"}
       \/ req[q].pc = "clear_dev" /\ req[q].role = "dev"

\* A password is written while a login of the account is under way.
Overtakes(p) ==
    overtaken' = (overtaken \ {p}) \cup
        {q \in Procs : /\ req[p].pc = "write_hash" /\ req[q].pc = "login_insert"
                       /\ req[q].tid \in Rows(p)}

\* The sessions of the account are dropped after all.
DropsSessions(p) ==
    cut' = IF req[p].pc \in {"sessions_then_done", "sessions_then_delete"}
           THEN cut \ (IF req[p].op \in CliOps THEN Rows(p) ELSE {req[p].tid})
           ELSE cut

\* The CLI takes the role of a developer and leaves the assignments; a request
\* takes it while another one assigns; CreateAuthUser finds an account of the
\* same name that is no developer.  Clearing the assignments mends all that.
Loosens(p) ==
    loose' = CASE req[p].pc \in {"write_role", "update_guarded"} /\ req[p].role # "dev"
                    -> loose \cup {i \in Rows(p) : \/ req[p].op \in CliOps
                                                   \/ \E q \in Procs : Assigns(q, i)}
               [] req[p].pc = "create_resolve"
                    -> loose \cup {i \in Named(req[p].target) : users[i].role # "dev"}
               [] req[p].pc = "clear_dev" /\ ~ \E q \in Procs : Assigns(q, req[p].tid)
                    -> loose \ {req[p].tid}
               [] OTHER -> loose

Follows(p) ==
    /\ Overtakes(p)
    /\ late' = (late \cap DOMAIN sessions') \cup
               (IF p \in overtaken THEN DOMAIN sessions' \ DOMAIN sessions ELSE {})
    /\ DropsSessions(p)
    /\ Loosens(p)

\* A request is cancelled, or a statement of it fails and nobody asks.
Breaks(p) ==
    /\ overtaken' = overtaken \ {p}
    /\ UNCHANGED late
    /\ cut' = IF req[p].pc = "sessions_then_done" /\ req[p].op \in PasswordOps
              THEN cut \cup Rows(p) ELSE cut
    /\ loose' = IF req[p].pc = "clear_dev" /\ req[p].role # "dev"
                THEN loose \cup {req[p].tid} ELSE loose

FailNext ==
    \/ \E p \in Procs : \/ Begin(p) /\ UNCHANGED history
                        \/ Step(p) /\ Follows(p)
                        \/ (Cancel(p) \/ SkipStatement(p)) /\ Breaks(p)
    \/ \E t \in Tokens : ExpireSession(t) /\ UNCHANGED history

FailInit == Init /\ overtaken = {} /\ late = {} /\ cut = {} /\ loose = {}

FailSpec == FailInit /\ [][FailNext]_failVars

-----------------------------------------------------------------------------
(* Properties *)

\* A session that was opened with a former password has one of three origins:
\* the request that changed the password has yet to drop it, that request was
\* cut short before it did and nobody has dropped the account's sessions since,
\* or the change overtook the login between its check and its INSERT.
StaleSessionsTraced ==
    \A t \in DOMAIN sessions :
        sessions[t].hash # users[sessions[t].user].hash =>
            \/ \E p \in Procs : /\ req[p].pc = "sessions_then_done"
                                /\ req[p].op \in PasswordOps
                                /\ sessions[t].user \in Rows(p)
            \/ sessions[t].user \in cut
            \/ t \in late

\* When no request is running, an account with assigned databases is a
\* developer, or its role was taken by the CLI, under a request that was
\* assigning, or by a request that was cut short before it cleared them.
AssignmentsTraced ==
    (\A p \in Procs : req[p].pc = "idle") =>
        \A r \in devDbs : users[r[1]].role = "dev" \/ r[1] \in loose
=============================================================================
