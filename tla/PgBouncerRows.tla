---------------------------- MODULE PgBouncerRows ----------------------------
(***************************************************************************)
(* The databases of the server and their rows in pgbouncer_databases.  A   *)
(* database and its row are created, and deleted, by two statements, the   *)
(* second of which runs after the client was answered and may fail without *)
(* anybody asking; a restore drops and creates a database and leaves the   *)
(* row alone.  Requests overlap, fail and are killed, and each             *)
(* disagreement is traced to the request that is to blame.                 *)
(*                                                                         *)
(* A history variable follows the steps of PgBouncerSync; no step reads    *)
(* it.                                                                     *)
(***************************************************************************)
EXTENDS PgBouncerSync

VARIABLE astray  \* databases whose row nothing is known of

\* w has yet to write, or to delete, the row of d.
Owes(w, d) == work[w].pc \in {"insert_row", "delete_row"} /\ work[w].db = d

Owed(d) == \E w \in Workers : Owes(w, d)

\* A statement on the row of d has failed, or was never reached: the step is
\* paid for as a failure or a restart.
Forgets(d) ==
    /\ budget' # budget
    /\ \E w \in Workers : Owes(w, d) /\ ~ Owes(w, d)'

\* Two requests on d overlap.
Crosses(d) == \E v \in Workers : Owes(v, d)' /\ \E w \in Workers \ {v} : Owes(w, d)'

\* w has yet to create d again.
Recreates(w, d) == At(w, "recreate") /\ work[w].db = d

\* A restore drops d, or creates it.
Restores(d) ==
    /\ databases' # databases
    /\ \E w \in Workers : Recreates(w, d) \/ Recreates(w, d)'

\* A request on d begins.
Takes(d) == ~ Owed(d) /\ Owed(d)'

Strays == astray' = {d \in Dbs : \/ Forgets(d) \/ Crosses(d) \/ Restores(d)
                                 \/ d \in astray /\ ~ Takes(d)}

StrayInit == Init /\ astray = {}

StrayNext == Next /\ Strays

StraySpec == StrayInit /\ [][StrayNext]_<<vars, astray>>

-----------------------------------------------------------------------------
(* Properties *)

\* A database without a row, which TogglePgBouncerDatabase answers with 404 for
\* ever, and a row without a database, which the rebuild opens, are left behind
\* only by an INSERT or a DELETE of the row that failed or was never reached, by
\* two requests on the same database that overlapped, or by a restore that has
\* dropped or created it.  The next request to create or to delete that database
\* mends it, if none of this happens again.
RowsTraced ==
    \A d \in Dbs : ~ Owed(d) /\ d \notin astray => (d \in DOMAIN rows <=> d \in databases)
=============================================================================
