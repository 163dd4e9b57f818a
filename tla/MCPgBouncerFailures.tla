------------------------ MODULE MCPgBouncerFailures ------------------------
(* Instances for TLC in which rebuilds overlap, fail and are killed: the    *)
(* steps of PgBouncerSync, with the history of the rebuilds, that of the    *)
(* rows and the text of pgbouncer.ini at once.  A behaviour is about the    *)
(* files, with one request beside the ticker, or about the rows, with two   *)
(* requests, whose rebuilds do not matter then.                             *)
EXTENDS PgBouncerHealing, PgBouncerRows, PgBouncerIni

CONSTANTS w1, w2, a1, a2, q1, q2

TwoHandlers == {w1, w2}
TwoDbs == {"app", "pool_mode"}
TwoAcls == {a1, a2}
TwoPools == {q1, q2}

VARIABLE subject  \* what the behaviour is about

\* A behaviour about the files has a failure or a restart, and one database at
\* a time.  The users' rules change while there is none, and PgBouncer or the app
\* restarts while there is none or the one named like a pool setting.
FilesKeep ==
    /\ work'[w2].pc = "idle"
    /\ budget'.failures + budget'.restarts > 0
    /\ databases' \in {{}, {"pool_mode"}}
                      \cup (IF budget'.restarts = MaxRestarts THEN {{"app"}} ELSE {})
    /\ acl' \in IF databases' = {} THEN Acls ELSE {a1}

\* In a behaviour about the rows the requests stand still when the row is
\* written; only the ticker rebuilds, and only the app restarts.
RowsKeep ==
    /\ bouncer' = bouncer
    /\ \A w \in Handlers :
         work'[w].pc \in {"idle", "insert_row", "delete_row", "recreate", "query_acl"}
    /\ acl' = a1

\* Restores, which touch no file, are those of the second handler.
Keeps ==
    /\ work'[w1].pc # "recreate"
    /\ subject = "files" => FilesKeep
    /\ subject = "rows" => RowsKeep

\* The users' rules have no order: the first may be any.
MCInit ==
    /\ HealInit /\ IniInit /\ StrayInit
    /\ acl = a1
    /\ subject \in {"files", "rows"}

MCNext == IniNext /\ Keeps /\ HealNext /\ Strays /\ UNCHANGED subject
MCSpec == MCInit /\ [][MCNext]_<<healVars, iniVars, astray, subject>>
=============================================================================
