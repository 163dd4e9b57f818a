----------------------------- MODULE MCClientWork ------------------------------
(* Instances of ClientWork: what the databases hold and what is asked of   *)
(* each page.                                                              *)
EXTENDS ClientWork, TLC

CONSTANTS dA, dB, fA, fB, fBroken, colA, colB, colC

(* Backups: two databases, a table of one name in two schemas, two dumps   *)
(* and a file that is none *)
TwoBackupDbs == {dA, dB}
ThreeFiles == {fA, fB, fBroken}
TwoDumps == {fA, fB}
DumpNames == fA :> dA @@ fB :> dA
ThreeTableRows == {<<"public", "t">>, <<"audit", "t">>, <<"public", "u">>}
NothingHeld == [d \in TwoBackupDbs |-> {}]

BPlan(tabName, used, held, ops, others, visits) ==
    [tab |-> tabName, uses |-> used, holds |-> held, ops |-> ops, others |-> others,
     visits |-> visits]

AllBackupPlans ==
    {BPlan("database", {}, NothingHeld, 2, 1, 2),
     BPlan("tables", {}, dA :> ThreeTableRows @@ dB :> {<<"public", "u">>}, 2, 1, 2),
     BPlan("restore", {"drop", dA, dB} \cup ThreeFiles, dA :> {<<"public", "t">>} @@ dB :> Gone,
           2, 0, 2),
     BPlan("restore", {fA, fB}, dA :> {<<"audit", "t">>} @@ dB :> Gone, 4, 0, 1),
     BPlan("restore", {"drop", fA}, dA :> {<<"public", "t">>} @@ dB :> Gone, 3, 0, 1),
     BPlan("restore", {"drop", dB, fA}, NothingHeld, 2, 1, 1)}

(* One table: a key column and one that may be NULL, or the latter alone *)
ThreeColumnNames == {colA, colB, colC}
SortByB == {colB}
FourCells == {1, 2, 3, 4}
TextOfCells == <<1, 2, 2, 4>>     \* 3 is an object
MinusOne == -1
MinusTwo == -2
KeyColumn == [name |-> colA, type |-> "INTEGER", nullable |-> FALSE, default |-> FALSE,
              pk |-> TRUE]
TextColumn == [name |-> colB, type |-> "TEXT", nullable |-> TRUE, default |-> FALSE,
               pk |-> FALSE]
UnsortedColumn == [TextColumn EXCEPT !.name = colA]
TwoColumnForms == {[name |-> colC, type |-> "TEXT", nullable |-> TRUE, default |-> TRUE, pk |-> FALSE],
                   [name |-> colB, type |-> "INTEGER", nullable |-> FALSE, default |-> FALSE,
                    pk |-> FALSE]}

TPlan(uses, texts, cols, rows, ops, others, visits) ==
    [uses |-> uses, texts |-> texts, cols |-> cols, rows |-> rows, ops |-> ops,
     others |-> others, visits |-> visits]

AllTablePlans ==
    {TPlan({"pages"}, {}, <<TextColumn>>, <<<<2>>, <<1>>, <<2>>>>, 0, 0, 1),
     TPlan({"pages", "delete"}, {}, <<UnsortedColumn>>, <<<<2>>, <<1>>, <<2>>>>, 1, 0, 1),
     TPlan({"insert"}, {1, 4}, <<TextColumn>>, <<<<1>>>>, 2, 0, 1),
     TPlan({"edit"}, {1}, <<KeyColumn, TextColumn>>, <<<<1, 0>>, <<2, 3>>>>, 1, 1, 1),
     TPlan({"edit"}, {4}, <<TextColumn>>, <<<<4>>, <<2>>>>, 2, 0, 1),
     TPlan({"edit", "drop"}, {}, <<TextColumn, KeyColumn>>, <<<<1, 2>>>>, 2, 0, 1),
     TPlan({"delete"}, {}, <<TextColumn>>, <<<<2>>, <<1>>, <<2>>>>, 2, 1, 1),
     TPlan({"delete"}, {}, <<TextColumn>>, <<<<2>>, <<1>>, <<2>>>>, 1, 1, 2),
     TPlan({"add", "drop", "alter"}, {}, <<TextColumn>>, <<<<1>>>>, 1, 0, 1)}

(* One database and its console *)
ConsoleTexts == {"alter", "ALTER"}
ConsoleAnswers == [t \in ConsoleTexts |-> "changed"]
ConsoleFormats == [t \in ConsoleTexts |-> "ALTER"]

DPlan(used, held, ops, others, visits) ==
    [uses |-> used, holds |-> held, ops |-> ops, others |-> others, visits |-> visits]

AllPagePlans ==
    {DPlan({"create", "columns"}, {}, 1, 0, 1), DPlan({"create"}, {}, 2, 1, 2),
     DPlan({"query"}, {}, 2, 0, 1), DPlan({"query"}, {"t1"}, 1, 1, 2)}

(* The log: entries of two users, pages of one entry *)
LogOf(name) == [f \in {"username"} |-> name]
TwoLogs == {[at |-> 0, of |-> LogOf("x")], [at |-> -1, of |-> LogOf("y")]}
MoreLogs == {LogOf("x")}

\* The pages that are not followed have one plan each.
MCInit ==
    /\ WorkInit
    /\ followed # "backups" => bkPlan = CHOOSE p \in AllBackupPlans : p.tab = "database"
    /\ followed # "table" => tPlan = CHOOSE p \in AllTablePlans : p.uses = {"insert"}
    /\ followed # "database" => pPlan = DPlan({"query"}, {}, 2, 0, 1)

MCSpec == MCInit /\ [][WorkNext]_workVars
=============================================================================
