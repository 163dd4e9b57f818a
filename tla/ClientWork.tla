------------------------------ MODULE ClientWork ------------------------------
(***************************************************************************)
(* The pages of AppLayout that work with the contents of databases: the    *)
(* backups, a table, the tables and the console of a database, and the     *)
(* audit log.                                                              *)
(*                                                                         *)
(* The pages share no state: a page is taken down when another one is      *)
(* shown, and each has its own entries in the query cache.  What happens   *)
(* on one does not depend on the others, so a behaviour follows one page.  *)
(***************************************************************************)
EXTENDS BackupsPage, TablePage, DatabasePage, LogsPage

VARIABLE followed   \* the page whose steps are followed

workVars == <<followed, bkVars, tableVars, pageVars, logsVars>>

WorkInit ==
    /\ followed \in {"backups", "table", "database", "logs"}
    /\ BackupsInit /\ TableInit /\ DatabasePageInit /\ LogsInit

WorkNext ==
    \/ followed = "backups" /\ BackupsNext /\ UNCHANGED <<followed, tableVars, pageVars, logsVars>>
    \/ followed = "table" /\ TableNext /\ UNCHANGED <<followed, bkVars, pageVars, logsVars>>
    \/ followed = "database" /\ DatabasePageNext
       /\ UNCHANGED <<followed, bkVars, tableVars, logsVars>>
    \/ followed = "logs" /\ LogsNext /\ UNCHANGED <<followed, bkVars, tableVars, pageVars>>

WorkSpec == WorkInit /\ [][WorkNext]_workVars

\* Every variable of the four pages has its type.
ClientWorkTypeOK == BackupsTypeOK /\ TableTypeOK /\ DatabasePageTypeOK /\ LogsPageTypeOK
=============================================================================
