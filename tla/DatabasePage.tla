------------------------------ MODULE DatabasePage ------------------------------
(***************************************************************************)
(* One database: its tables, the dialog that creates one, and the SQL      *)
(* console (src/backend/ui/src/routes/DatabaseDetail.tsx and               *)
(* components/SqlConsole.tsx).                                             *)
(*                                                                         *)
(* The draft of a table is a list of column drafts; what of it is sent is  *)
(* what matters here: the names, NOT NULL and the primary key.  A query is *)
(* a text with the kind of answer it gets.                                 *)
(***************************************************************************)
EXTENDS Naturals, SequencesExt, QueryCache

CONSTANTS
    TableNames,     \* names of tables
    ColNames,       \* names of columns in a draft
    MaxDrafts,      \* bound: how many column drafts
    Queries,        \* texts for the console
    AnswerTo,       \* their answers: "rows", "empty", "error" or changed tables
    FormattedAs,    \* what the formatter makes of them
    HistoryLimit,   \* how many entries the history keeps (50)
    PagePlans       \* bounds: the tables at first, what is used of the page, how
                    \* many requests, changes by others and visits

ASSUME QueriesAssumption ==
    /\ FormattedAs \in [Queries -> Queries]
    /\ AnswerTo \in [Queries -> {"rows", "empty", "error", "changed"}]
ASSUME BoundsAssumption == MaxDrafts \in Nat \ {0} /\ HistoryLimit \in Nat \ {0}
ASSUME PagePlansAssumption ==
    PagePlans \subseteq [holds : SUBSET TableNames, uses : SUBSET {"create", "columns", "query"},
                         ops : Nat, others : Nat, visits : Nat]

VARIABLES
    tables,         \* the tables of the server
    tablesQ,        \* the cached list
    allColumnsQ,    \* the tables whose columns the console has fetched
    pTab,           \* the tab, or "away"
    draft,          \* the dialog: is it open, the name, the columns
    sql,            \* the text in the console
    result,         \* the query whose answer is shown
    history,        \* the entries of the history, newest first
    pOps,           \* requests on their way
    pCount,         \* how many requests, changes by others and visits there were
    pPlan,
    pUnsure         \* the tables changed since they were last read for the list,
                    \* and nobody told this page

pageVars == <<tables, tablesQ, allColumnsQ, pTab, draft, sql, result, history, pOps,
              pCount, pPlan, pUnsure>>

consoleVars == <<sql, result, history>>
tablesTabVars == <<tablesQ, allColumnsQ>>
pServer == <<tables, pUnsure>>
pRequests == <<pOps, pCount>>

NoQuery == "none"

ColumnDraft == [name : ColNames \cup {"", "id"}, nullable : BOOLEAN, pk : BOOLEAN]

newColumnDraft == [name |-> "", nullable |-> TRUE, pk |-> FALSE]
serialColumnDraft == [name |-> "id", nullable |-> FALSE, pk |-> TRUE]

NewDraft == [open |-> FALSE, name |-> "", columns |-> <<serialColumnDraft>>]

DatabasePageTypeOK ==
    /\ tables \subseteq TableNames
    /\ tablesQ \in Entries(SUBSET TableNames) /\ allColumnsQ \in Entries(SUBSET TableNames)
    /\ pTab \in {"away", "tables", "query"} /\ pPlan \in PagePlans
    /\ draft.name \in TableNames \cup {""}
    /\ draft.columns \in Seq(ColumnDraft) /\ Len(draft.columns) \in 1..MaxDrafts
    /\ sql \in Queries \cup {""} /\ result \in Queries \cup {NoQuery}
    /\ history \in Seq(Queries \cup {""}) /\ Len(history) <= HistoryLimit
    /\ \A o \in pOps : o.kind \in {"create", "query"}
    /\ pCount.ops \in 0..pPlan.ops /\ pCount.visits \in 0..pPlan.visits

---------------------------------------------------------------------------
(* The list of tables and the tabs.  The console asks for the columns of   *)
(* the tables once the list is there and not empty.                        *)

ListedTables == IF tablesQ.data = NoData THEN {} ELSE tablesQ.data

ObserveColumns(list) ==
    IF list.data \in {NoData, {}} THEN allColumnsQ ELSE Observe(allColumnsQ)

RefreshTables ==
    /\ pTab # "away" /\ ~draft.open /\ tablesQ.fetch = "idle"
    /\ tablesQ' = Observe(Age(tablesQ))
    /\ allColumnsQ' = IF pTab = "query" THEN ObserveColumns(tablesQ) ELSE allColumnsQ
    /\ UNCHANGED <<pServer, pTab, draft, consoleVars, pRequests, pPlan>>

OpenConsole ==
    /\ pTab = "tables" /\ ~draft.open /\ "query" \in pPlan.uses
    /\ pTab' = "query"
    /\ tablesQ' = Observe(tablesQ)
    /\ allColumnsQ' = ObserveColumns(tablesQ)
    /\ UNCHANGED <<pServer, draft, consoleVars, pRequests, pPlan>>

(* The console is taken down with its tab: text, result and history go *)
ClearedConsole ==
    /\ sql' = "" /\ result' = NoQuery /\ history' = <<>>

CloseConsole ==
    /\ pTab = "query"
    /\ pTab' = "tables"
    /\ ClearedConsole
    /\ pOps' = {[o EXCEPT !.live = @ /\ o.kind # "query"] : o \in pOps}
    /\ UNCHANGED <<pServer, tablesTabVars, draft, pCount, pPlan>>

---------------------------------------------------------------------------
(* The dialog that creates a table. *)

Drafting == draft.open
DraftingColumns == Drafting /\ "columns" \in pPlan.uses
EditDraft(d) ==
    /\ draft' = d
    /\ UNCHANGED <<pServer, tablesTabVars, pTab, consoleVars, pRequests, pPlan>>

OpenDraft ==
    /\ pTab = "tables" /\ ~Drafting /\ "create" \in pPlan.uses
    /\ EditDraft([draft EXCEPT !.open = TRUE])
CancelDraft == Drafting /\ EditDraft([draft EXCEPT !.open = FALSE])
NameTable(n) == Drafting /\ EditDraft([draft EXCEPT !.name = n])

AddColumn ==
    /\ DraftingColumns /\ Len(draft.columns) < MaxDrafts
    /\ EditDraft([draft EXCEPT !.columns = Append(@, newColumnDraft)])

\* Mutant: the last column goes as well.
RemoveAnyColumn(i) == DraftingColumns /\ EditDraft([draft EXCEPT !.columns = RemoveAt(@, i)])

RemoveColumn(i) ==
    /\ DraftingColumns /\ Len(draft.columns) > 1
    /\ EditDraft([draft EXCEPT !.columns = RemoveAt(@, i)])

NameColumn(i, n) == DraftingColumns /\ EditDraft([draft EXCEPT !.columns[i].name = n])

\* Mutant: Nullable is left as it is.
TogglePKOnly(i) == DraftingColumns /\ EditDraft([draft EXCEPT !.columns[i].pk = ~@])

(* the checkbox PK takes Nullable away; unchecked it leaves it away *)
TogglePK(i) ==
    LET c == draft.columns[i]
    IN  DraftingColumns /\ EditDraft([draft EXCEPT !.columns[i] =
            [c EXCEPT !.pk = ~c.pk, !.nullable = c.pk /\ c.nullable]])

(* the checkbox Nullable is there for columns outside the key *)
ToggleNullable(i) ==
    /\ DraftingColumns /\ ~draft.columns[i].pk
    /\ EditDraft([draft EXCEPT !.columns[i].nullable = ~@])

PPending(kind) == \E o \in pOps : o.kind = kind /\ o.live /\ o.current

PRequest(kind) == [kind |-> kind, id |-> pCount.ops, name |-> "", columns |-> <<>>, ran |-> "",
                   sql |-> "", current |-> TRUE, live |-> TRUE, done |-> FALSE]

(* handleCreateTable: drafts without a name are dropped, from the dialog   *)
(* as well, and the request is built from what is left; "order" lists the  *)
(* positions of the others, from the first to the last                     *)
NamedDrafts == {i \in DOMAIN draft.columns : draft.columns[i].name # ""}

SubmitTable ==
    /\ Drafting /\ ~PPending("create") /\ pCount.ops < pPlan.ops
    /\ draft.name # "" /\ NamedDrafts # {}
    /\ \E order \in [1..Cardinality(NamedDrafts) -> NamedDrafts] :
        LET named == [n \in DOMAIN order |-> draft.columns[order[n]]]
        IN  /\ \A m, n \in DOMAIN order : m < n => order[m] < order[n]
            /\ draft' = [draft EXCEPT !.columns = named]
            /\ pOps' = pOps \cup {[PRequest("create") EXCEPT !.name = draft.name,
                                                           !.columns = named]}
    /\ pCount' = [pCount EXCEPT !.ops = @ + 1]
    /\ UNCHANGED <<pServer, tablesTabVars, pTab, consoleVars, pPlan>>

---------------------------------------------------------------------------
(* The console. *)

(* The callbacks of a query under way are those of the last rendering:     *)
(* they follow the text, unless another query was started meanwhile.       *)
WithText(ops, t) ==
    {IF o.kind = "query" /\ o.current THEN [o EXCEPT !.sql = t] ELSE o : o \in ops}

SetSql(t) ==
    /\ pTab = "query"
    /\ sql' = t
    /\ pOps' = WithText(pOps, t)
    /\ UNCHANGED <<pServer, tablesTabVars, pTab, draft, result, history, pCount, pPlan>>

TypeSql(t) == t # sql /\ SetSql(t)
FormatSql == sql # "" /\ SetSql(FormattedAs[sql])
PickHistory(i) == SetSql(history[i])

ClearHistory ==
    /\ pTab = "query" /\ history # <<>>
    /\ history' = <<>>
    /\ UNCHANGED <<pServer, tablesTabVars, pTab, draft, sql, result, pRequests, pPlan>>

RunSql ==
    /\ pTab = "query" /\ sql # "" /\ pCount.ops < pPlan.ops
    /\ pCount' = [pCount EXCEPT !.ops = @ + 1]
    /\ pOps' = {IF o.kind = "query" THEN [o EXCEPT !.current = FALSE] ELSE o : o \in pOps}
               \cup {[PRequest("query") EXCEPT !.ran = sql, !.sql = sql]}
    /\ UNCHANGED <<pServer, tablesTabVars, pTab, draft, consoleVars, pPlan>>

(* the button waits for the answer, Ctrl+Enter does not *)
ClickExecute == ~PPending("query") /\ RunSql
CtrlEnter == PPending("query") /\ RunSql

---------------------------------------------------------------------------
(* The server.  ExecuteQuery refuses what IsBlockedSQL finds; a statement   *)
(* may still create, drop and rename tables.                               *)

HandlePage(o) ==
    /\ ~o.done
    /\ IF o.kind = "create"
       THEN /\ o.name \notin tables
            /\ o.columns # <<>> /\ \A i \in DOMAIN o.columns : o.columns[i].name # ""
            /\ \A i, j \in DOMAIN o.columns : i # j => o.columns[i].name # o.columns[j].name
            /\ tables' = tables \cup {o.name}
            /\ UNCHANGED pUnsure
       ELSE /\ tables' \in IF AnswerTo[o.ran] = "changed" THEN SUBSET TableNames ELSE {tables}
            /\ pUnsure' = (pUnsure \/ tables' # tables)
    /\ pOps' = (pOps \ {o}) \cup {[o EXCEPT !.done = TRUE]}
    /\ UNCHANGED <<tablesTabVars, pTab, draft, consoleVars, pCount, pPlan>>

(* another user, or a program that uses the database *)
OthersChangeTables ==
    /\ pCount.others < pPlan.others
    /\ pCount' = [pCount EXCEPT !.others = @ + 1]
    /\ tables' \in (SUBSET TableNames) \ {tables}
    /\ pUnsure' = TRUE
    /\ UNCHANGED <<tablesTabVars, pTab, draft, consoleVars, pOps, pPlan>>

\* Mutant: the list is not asked for anew.
TableCreatedQuietly(o) ==
    /\ o.kind = "create" /\ o.done
    /\ pOps' = pOps \ {o}
    /\ draft' = IF o.live THEN NewDraft ELSE draft
    /\ UNCHANGED <<pServer, tablesTabVars, pTab, consoleVars, pCount, pPlan>>

(* onSuccess of createTableMutation: whatever is in the dialog by now goes *)
TableCreated(o) ==
    /\ o.kind = "create" /\ o.done
    /\ pOps' = pOps \ {o}
    /\ tablesQ' = Invalidate(tablesQ, pTab # "away")
    /\ draft' = IF o.live THEN NewDraft ELSE draft
    /\ UNCHANGED <<pServer, allColumnsQ, pTab, consoleVars, pCount, pPlan>>

(* executeQuery accepts an answer with columns and rows.  ExecuteQuery     *)
(* leaves both null for a query that failed and the rows null if there are *)
(* none: QueryResultSchema refuses these, and the mutation fails.          *)
Accepted(o) == AnswerTo[o.ran] \in {"rows", "changed"}

FirstOf(s, n) == SubSeq(s, 1, IF Len(s) < n THEN Len(s) ELSE n)

(* The entry of the history has the text of the last rendering, which need *)
(* not be the query that was answered.                                     *)
QueryAnswered(o) ==
    /\ o.kind = "query" /\ o.done /\ Accepted(o)
    /\ pOps' = pOps \ {o}
    /\ IF o.live
       THEN /\ result' = o.ran
            /\ history' = <<o.sql>> \o FirstOf(history, HistoryLimit - 1)
       ELSE UNCHANGED <<result, history>>
    /\ UNCHANGED <<pServer, tablesTabVars, pTab, draft, sql, pCount, pPlan>>

(* refused, not handled, or the answer was lost or not accepted *)
FailPage(o) ==
    /\ pOps' = pOps \ {o}
    /\ pUnsure' = (pUnsure \/ (o.kind = "create" /\ o.done))
    /\ UNCHANGED <<tables, tablesTabVars, pTab, draft, consoleVars, pCount, pPlan>>

ReadTables ==
    /\ tablesQ.fetch = "sent"
    /\ tablesQ' = Read(tablesQ, tables)
    /\ pUnsure' = FALSE
    /\ UNCHANGED <<tables, allColumnsQ, pTab, draft, consoleVars, pRequests, pPlan>>

TablesArrive ==
    /\ tablesQ.fetch = "read"
    /\ tablesQ' = Arrive(tablesQ)
    /\ allColumnsQ' = IF pTab = "query" /\ ListedTables = {} THEN ObserveColumns(tablesQ') ELSE allColumnsQ
    /\ UNCHANGED <<pServer, pTab, draft, consoleVars, pRequests, pPlan>>

TablesFail ==
    /\ tablesQ.fetch # "idle"
    /\ tablesQ' = FetchFails(tablesQ)
    /\ UNCHANGED <<pServer, allColumnsQ, pTab, draft, consoleVars, pRequests, pPlan>>

(* one request for each table of the list, one after the other *)
ColumnsFetched ==
    /\ allColumnsQ.fetch # "idle"
    /\ allColumnsQ' = Arrive(Read(allColumnsQ, ListedTables))
    /\ UNCHANGED <<pServer, tablesQ, pTab, draft, consoleVars, pRequests, pPlan>>

ColumnsNotFetched ==
    /\ allColumnsQ.fetch # "idle"
    /\ allColumnsQ' = FetchFails(allColumnsQ)
    /\ UNCHANGED <<pServer, tablesQ, pTab, draft, consoleVars, pRequests, pPlan>>

---------------------------------------------------------------------------
LeaveDatabase ==
    /\ pTab # "away"
    /\ pTab' = "away"
    /\ draft' = NewDraft
    /\ ClearedConsole
    /\ pOps' = {[o EXCEPT !.live = FALSE] : o \in pOps}
    /\ UNCHANGED <<pServer, tablesTabVars, pCount, pPlan>>

EnterDatabase ==
    /\ pTab = "away" /\ pCount.visits < pPlan.visits
    /\ pCount' = [pCount EXCEPT !.visits = @ + 1]
    /\ pTab' = "tables"
    /\ tablesQ' = Observe(tablesQ)
    /\ UNCHANGED <<pServer, allColumnsQ, draft, consoleVars, pOps, pPlan>>

DatabasePageInit ==
    /\ pPlan \in PagePlans /\ tables = pPlan.holds
    /\ tablesQ = Unasked /\ allColumnsQ = Unasked
    /\ pTab = "away" /\ draft = NewDraft
    /\ sql = "" /\ result = NoQuery /\ history = <<>>
    /\ pOps = {} /\ pCount = [ops |-> 0, others |-> 0, visits |-> 0]
    /\ pUnsure = FALSE

DatabasePageNext ==
    \/ EnterDatabase \/ LeaveDatabase \/ RefreshTables \/ OpenConsole \/ CloseConsole
    \/ OpenDraft \/ CancelDraft \/ AddColumn \/ SubmitTable
    \/ \E n \in TableNames : NameTable(n)
    \/ \E i \in DOMAIN draft.columns :
        \/ RemoveColumn(i) \/ TogglePK(i) \/ ToggleNullable(i)
        \/ \E n \in ColNames : NameColumn(i, n)
    \/ \E t \in Queries \cup {""} : TypeSql(t)
    \/ \E i \in DOMAIN history : PickHistory(i)
    \/ FormatSql \/ ClearHistory \/ ClickExecute \/ CtrlEnter
    \/ \E o \in pOps : HandlePage(o) \/ TableCreated(o) \/ QueryAnswered(o) \/ FailPage(o)
    \/ OthersChangeTables \/ ReadTables \/ TablesArrive \/ TablesFail \/ ColumnsFetched \/ ColumnsNotFetched

DatabasePageSpec == DatabasePageInit /\ [][DatabasePageNext]_pageVars

---------------------------------------------------------------------------
(* The list, if it counts as up to date, shows the tables.  Except for     *)
(* what the page is not told, a statement of the console, other users, a   *)
(* table created with the answer lost, until the tables are read again;    *)
(* and for a table created while the first list was awaited, which is then *)
(* not asked for anew.                                                     *)
TablesInSync ==
    Fresh(tablesQ) /\ ~tablesQ.overtaken /\ pOps = {} /\ ~pUnsure => tablesQ.data = tables

(* Whatever is ticked, added, removed and submitted in whatever order: no  *)
(* column of the key is nullable, in the dialog and in a request, and a    *)
(* request has columns, all of them named                                  *)
WellFormedTable(cols) == \A i \in DOMAIN cols : cols[i].pk => ~cols[i].nullable

TablesWellFormed ==
    /\ WellFormedTable(draft.columns) /\ draft.columns # <<>>
    /\ \A o \in pOps : o.kind = "create" =>
        /\ WellFormedTable(o.columns) /\ o.columns # <<>>
        /\ \A i \in DOMAIN o.columns : o.columns[i].name # ""
===============================================================================
