-------------------------- MODULE AccountRegister --------------------------
(***************************************************************************)
(* What the interface promises about its accounts, without requests and    *)
(* statements: every change is one step.  A name belongs to one account at *)
(* a time, an id to one account for ever; an account keeps its id and name *)
(* for life; whoever is signed in, or has a database assigned, has an      *)
(* account, and loses both with it at the same moment.  WebAccounts, where *)
(* statements of many requests interleave and fail, implements this.       *)
(***************************************************************************)
EXTENDS Naturals

CONSTANTS Ids, Names, Roles, Tokens, Dbs

VARIABLES
    account,    \* id -> name and role, of those who have an account
    past,       \* ids that were ever given
    signedIn,   \* token -> id, of those who are signed in
    assigned    \* pairs of an id and a database

registerVars == <<account, past, signedIn, assigned>>

Start ==
    /\ account = [i \in {} |-> 0] /\ signedIn = [t \in {} |-> 0]
    /\ past = {} /\ assigned = {}

Join(i, n, r) ==
    /\ i \notin past
    /\ \A j \in DOMAIN account : account[j].name # n
    /\ past' = past \cup {i}
    /\ account' = [k \in DOMAIN account \cup {i} |->
                     IF k = i THEN [name |-> n, role |-> r] ELSE account[k]]
    /\ UNCHANGED <<signedIn, assigned>>

ChangeRole(i, r) ==
    /\ account' = [account EXCEPT ![i].role = r]
    /\ UNCHANGED <<past, signedIn, assigned>>

\* The sessions and the assignments go with the account.
Leave(i) ==
    /\ account' = [k \in DOMAIN account \ {i} |-> account[k]]
    /\ signedIn' = [t \in {u \in DOMAIN signedIn : signedIn[u] # i} |-> signedIn[t]]
    /\ assigned' = {r \in assigned : r[1] # i}
    /\ UNCHANGED past

SignIn(t, i) ==
    /\ t \notin DOMAIN signedIn
    /\ signedIn' = [u \in DOMAIN signedIn \cup {t} |-> IF u = t THEN i ELSE signedIn[u]]
    /\ UNCHANGED <<account, past, assigned>>

\* Any of the sessions end: logout, a new password, time.
SignOut ==
    /\ \E T \in SUBSET DOMAIN signedIn : signedIn' = [t \in T |-> signedIn[t]]
    /\ UNCHANGED <<account, past, assigned>>

Assign(i, d) ==
    /\ assigned' = assigned \cup {<<i, d>>}
    /\ UNCHANGED <<account, past, signedIn>>

Unassign ==
    /\ \E S \in SUBSET assigned : assigned' = S
    /\ UNCHANGED <<account, past, signedIn>>

Change ==
    \/ \E i \in Ids, n \in Names, r \in Roles : Join(i, n, r)
    \/ \E i \in DOMAIN account : \/ Leave(i)
                                 \/ \E r \in Roles : ChangeRole(i, r)
                                 \/ \E t \in Tokens : SignIn(t, i)
                                 \/ \E d \in Dbs : Assign(i, d)
    \/ SignOut \/ Unassign

RegisterSpec == Start /\ [][Change]_registerVars
=============================================================================
