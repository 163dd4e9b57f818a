------------------------------ MODULE ClientAdmin ------------------------------
(***************************************************************************)
(* Who is signed in, and the pages of AppLayout that administer users,     *)
(* databases and settings.                                                 *)
(*                                                                         *)
(* The pages share no state: a page is taken down when another one is      *)
(* shown, and each has its own entries in the query cache.  What happens   *)
(* on one does not depend on the others, so a behaviour follows one page,  *)
(* or the session of the tabs.                                             *)
(***************************************************************************)
EXTENDS ClientSession, UsersPage, DatabasesPage, SettingsPage

VARIABLE followed   \* the page whose steps are followed

adminVars == <<followed, clientVars, userVars, dbVars, stVars>>

AdminInit ==
    /\ followed \in {"session", "users", "databases", "settings"}
    /\ ClientInit /\ UsersInit /\ DatabasesInit /\ SettingsInit

AdminNext ==
    \/ followed = "session" /\ ClientNext /\ UNCHANGED <<followed, userVars, dbVars, stVars>>
    \/ followed = "users" /\ UsersNext /\ UNCHANGED <<followed, clientVars, dbVars, stVars>>
    \/ followed = "databases" /\ DatabasesNext
       /\ UNCHANGED <<followed, clientVars, userVars, stVars>>
    \/ followed = "settings" /\ SettingsNext
       /\ UNCHANGED <<followed, clientVars, userVars, dbVars>>

AdminSpec == AdminInit /\ [][AdminNext]_adminVars

\* Every variable of the session and the three pages has its type.
ClientAdminTypeOK == ClientTypeOK /\ UsersTypeOK /\ DatabasesTypeOK /\ SettingsTypeOK
=============================================================================
