----------------------------- MODULE MCClientAdmin -----------------------------
(* Instances of ClientAdmin: two tabs, two users, three databases, and     *)
(* what is asked of each page.                                             *)
EXTENDS ClientAdmin, TLC

CONSTANTS tabA, tabB, ann, bob, uA, uB, dApp, dWeb, dSys, pA, pB

ClientTabs == {tabA, tabB}
ClientLogins == {ann, bob}
(* A tab that is loaded once and three requests, or two loads, of one tab  *)
(* or of two, and a request *)
AllClientBounds == {<<1, 3>>, <<2, 1>>}
TwoUsers == {uA, uB}
OneDb == {dApp}
AllDbs == {dApp, dWeb, dSys}
OneSystemDb == {dSys}
TwoPooled == {pA, pB}

(* Per section: one kind of dialog at a time, and two requests in a visit  *)
(* or one in two *)
AllUserPlans ==
    {p \in [section : {"pg", "auth"}, uses : {{k} : k \in {"create", "edit", "reset", "delete"}},
            ops : {1, 2}, visits : {1, 2}] : p.ops + p.visits = 3}

AllDbPlans ==
    {[existing |-> AllDbs, admin |-> TRUE, uses |-> {"delete"}, ops |-> 2, visits |-> 1],
     [existing |-> OneSystemDb, admin |-> TRUE, uses |-> {"create", "system"}, ops |-> 2, visits |-> 1],
     [existing |-> OneSystemDb, admin |-> TRUE, uses |-> {"create", "delete"},
      ops |-> 1, visits |-> 2],
     [existing |-> OneSystemDb, admin |-> FALSE, uses |-> {"system"}, ops |-> 0, visits |-> 2]}

(* Two requests in a visit or one in two; of the switches, whose requests  *)
(* overlap only if the page was left in between, two in two visits         *)
AllSettingsPlans ==
    {[part |-> p, ops |-> 2, visits |-> 1] : p \in {"pool", "retention", "tls"}}
    \cup {[part |-> p, ops |-> 1, visits |-> 2] : p \in {"pool", "retention", "tls"}}
    \cup {[part |-> "access", ops |-> 2, visits |-> 2]}

\* The pages that are not followed have one plan each.
MCInit ==
    /\ AdminInit
    /\ followed # "session" => hasAccounts
    /\ followed # "users" => userPlan = CHOOSE p \in AllUserPlans : TRUE
    /\ followed # "databases" => dbPlan = CHOOSE p \in AllDbPlans : TRUE
    /\ followed # "settings" => stPlan = CHOOSE p \in AllSettingsPlans : p.part = "access"

MCSpec == MCInit /\ [][AdminNext]_adminVars

(* The pages share no state, so one permutation may swap the tabs, the     *)
(* users and the databases at once                                         *)
Symmetry == {tabA :> tabB @@ tabB :> tabA @@ uA :> uB @@ uB :> uA @@ pA :> pB @@ pB :> pA}
=============================================================================
