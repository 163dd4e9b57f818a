------------------------------- MODULE TablePage -------------------------------
(***************************************************************************)
(* One table of a database: its rows, page by page, and its columns        *)
(* (src/backend/ui/src/routes/TableDetail.tsx with the tabs DataTab and    *)
(* StructureTab and the dialogs that insert, edit and delete a row, and    *)
(* add, edit and drop a column).                                           *)
(*                                                                         *)
(* The rows and the columns are two queries.  A row arrives as a sequence  *)
(* of values and the columns as a sequence of descriptions; the dialog     *)
(* that edits a row pairs the one with the other by position.              *)
(***************************************************************************)
EXTENDS Integers, SequencesExt, QueryCache

CONSTANTS
    Names,          \* names of columns
    SortNames,      \* the columns by which the user sorts
    NullValue,      \* NULL
    EmptyText,      \* the empty string
    Undefined,      \* the value beyond the end of a row, and its text
    Cells,          \* the other values of a cell, numbers; 1 is the default of columns
    NullText,       \* the text NULL
    StringOf,       \* what String() makes of a cell; of an array or an object
                    \* another value
    TypedTexts,     \* what is typed into a form
    PageSize,       \* rows of a page
    LastRowPage,    \* bound: pages above are not asked for
    ColumnForms,    \* what is filled into a dialog about a column
    NoRow, NoColumn,
    TablePlans      \* bounds: the table at first, what is used of the page and
                    \* typed, and how many requests, doings of other users and visits

ASSUME CellAssumption ==
    /\ Cells \subseteq 1..999 /\ 1 \in Cells /\ {NullValue, EmptyText, Undefined} \subseteq Int \ Cells
    /\ NullValue # EmptyText /\ NullText \in Cells /\ StringOf \in [Cells -> Cells]
ASSUME PageSizeAssumption ==
    /\ PageSize \in Nat \ {0} /\ LastRowPage \in Nat
    /\ SortNames \subseteq Names /\ TypedTexts \subseteq Cells \cup {EmptyText}

Values == Cells \cup {NullValue, EmptyText, Undefined}
Row == Seq(Values)

(* ColumnInfo and ColumnDef; an unnamed one has the name "" *)
ColumnInfos == [name : Names \cup {""}, type : {"TEXT", "INTEGER"}, nullable : BOOLEAN,
                default : BOOLEAN, pk : BOOLEAN]

BlankColumn == [name |-> "", type |-> "TEXT", nullable |-> TRUE, default |-> FALSE, pk |-> FALSE]

ASSUME TablePlansAssumption ==
    /\ ColumnForms \subseteq ColumnInfos /\ NoData \notin Seq(ColumnInfos)
    /\ \A p \in TablePlans :
        /\ p.uses \subseteq {"pages", "insert", "edit", "delete", "add", "drop", "alter"}
        /\ p.texts \subseteq TypedTexts
        /\ {p.ops, p.others, p.visits} \subseteq Nat
        /\ p.cols \in Seq(ColumnInfos) /\ \A i \in DOMAIN p.cols : p.cols[i].name # ""
        /\ \A i, j \in DOMAIN p.cols : i # j => p.cols[i].name # p.cols[j].name
        /\ p.rows \in Seq([DOMAIN p.cols -> Values])

VARIABLES
    tCols, tRows,   \* the table of the server: columns, and rows in their order
    colQ,           \* the cached columns
    rowQ,           \* the cached pages of rows, by page and sorting
    view,           \* the tab, the page and the sorting that are shown
    insertBox, editBox, deleteBox,      \* the dialogs about a row
    addBox, alterBox,                   \* the dialogs about a column
    tOps,           \* requests on their way
    tCount,         \* how many requests, doings of others and visits there were
    tPlan,
    tGhost          \* what the properties make an exception for

tableVars == <<tCols, tRows, colQ, rowQ, view, insertBox, editBox, deleteBox, addBox,
               alterBox, tOps, tCount, tPlan, tGhost>>

boxes == <<insertBox, editBox, deleteBox, addBox, alterBox>>
server == <<tCols, tRows, tGhost>>
queries == <<colQ, rowQ>>
requests == <<tOps, tCount>>

---------------------------------------------------------------------------
(* The table. *)

ColumnNamesOf(cols) == [i \in DOMAIN cols |-> cols[i].name]
HasColumn(cols, n) == \E i \in DOMAIN cols : cols[i].name = n
Position(cols, n) == CHOOSE i \in DOMAIN cols : cols[i].name = n

(* A row satisfies a WHERE of pairs <<column, value>>, all of them columns *)
Matches(r, where) == \A w \in where : r[Position(tCols, w[1])] = w[2]

(* What PostgreSQL demands of rows: NOT NULL, and unique keys *)
Accepts(cols, rows) ==
    /\ \A i \in DOMAIN rows, j \in DOMAIN cols :
        ~cols[j].nullable => rows[i][j] # NullValue
    /\ \A j \in DOMAIN cols : cols[j].pk =>
        \A h, i \in DOMAIN rows : h # i => rows[h][j] # rows[i][j]

DefaultOf(c) == IF c.default THEN 1 ELSE NullValue

Unsorted == [by |-> "", dir |-> "asc"]
PageKeys == [page : 0..LastRowPage, sort : [by : SortNames \cup {""}, dir : {"asc", "desc"}]]
Shown == [page |-> view.page, sort |-> view.sort]

(* ListData: one page of the rows in their order; NULL comes after every    *)
(* other value, and rows with the same value stay as they are              *)
Rank(v) == IF v = NullValue THEN 1000 ELSE v
Precedes(r, q, dir) == IF dir = "asc" THEN Rank(r) < Rank(q) ELSE Rank(r) > Rank(q)
Sorted(cols, rows, s) ==
    IF ~HasColumn(cols, s.by) THEN rows
    ELSE LET i == Position(cols, s.by)
             Before(h) == {g \in DOMAIN rows :
                             \/ Precedes(rows[g][i], rows[h][i], s.dir)
                             \/ g < h /\ Rank(rows[g][i]) = Rank(rows[h][i])}
         IN  [n \in DOMAIN rows |-> rows[CHOOSE h \in DOMAIN rows : Cardinality(Before(h)) = n - 1]]
PageIn(cols, rows, k) ==
    [names |-> ColumnNamesOf(cols), total |-> Len(rows),
     rows |-> SubSeq(Sorted(cols, rows, k.sort), k.page * PageSize + 1,
                     IF (k.page + 1) * PageSize < Len(rows) THEN (k.page + 1) * PageSize ELSE Len(rows))]
PageOf(k) == PageIn(tCols, tRows, k)

---------------------------------------------------------------------------
(* The page's state. *)

NothingTyped == [n \in Names |-> EmptyText]
ClosedEdit == [open |-> FALSE, row |-> NoRow, names |-> <<>>, form |-> NothingTyped,
               typed |-> [n \in Names |-> NullValue], reseeded |-> FALSE]
ClosedAlter == [column |-> NoColumn, form |-> BlankColumn]

NoBox == ~insertBox.open /\ ~editBox.open /\ deleteBox = NoRow /\ ~addBox.open
         /\ alterBox.column = NoColumn
Using(u) == u \in tPlan.uses /\ NoBox
ShownRows == IF rowQ[Shown].data = NoData THEN <<>> ELSE rowQ[Shown].data.rows
ShownColumns == IF colQ.data = NoData THEN <<>> ELSE colQ.data
ColumnsShown == view.tab = "structure" \/ insertBox.open \/ editBox.open

TableTypeOK ==
    /\ tCols \in Seq(ColumnInfos) /\ tRows \in Seq(Row)
    /\ \A r \in Range(tRows) : Len(r) = Len(tCols)
    /\ colQ \in Entries(Seq(ColumnInfos))
    /\ DOMAIN rowQ = PageKeys
    /\ view.tab \in {"away", "data", "structure"} /\ Shown \in PageKeys
    /\ insertBox.form \in [Names -> Values]
    /\ editBox.row \in Row \cup {NoRow} /\ editBox.form \in [Names -> Values]
    /\ addBox.form \in ColumnInfos /\ alterBox.form \in ColumnInfos
    /\ tPlan \in TablePlans /\ tCount.ops \in 0..tPlan.ops

(* useMutation: one request of a kind at a time, except for dropped columns *)
TPending(kind) == \E o \in tOps : o.kind = kind /\ o.live

Request(kind) == [kind |-> kind, id |-> tCount.ops, set |-> {}, where |-> {},
                  column |-> BlankColumn, form |-> BlankColumn, stmts |-> <<>>,
                  from |-> ClosedEdit, names |-> <<>>, live |-> TRUE, done |-> FALSE]

SendT(o) ==
    /\ tCount.ops < tPlan.ops
    /\ tCount' = [tCount EXCEPT !.ops = @ + 1]
    /\ tOps' = tOps \cup {o}

---------------------------------------------------------------------------
(* DataTab: pages, sorting, and the buttons of the rows. *)

ShowPage(p, s) ==
    /\ view' = [view EXCEPT !.page = p, !.sort = s]
    /\ rowQ' = [rowQ EXCEPT ![[page |-> p, sort |-> s]] = Observe(@)]
    /\ UNCHANGED <<server, colQ, boxes, requests, tPlan>>

SortBy(n) ==
    /\ view.tab = "data" /\ Using("pages")
    /\ ShownRows # <<>> /\ n \in Range(rowQ[Shown].data.names)
    /\ ShowPage(0, IF view.sort.by = n
                   THEN [by |-> n, dir |-> IF view.sort.dir = "asc" THEN "desc" ELSE "asc"]
                   ELSE [by |-> n, dir |-> "asc"])

\* Mutant: the page that is shown is compared, not the next one.
TurnPastEnd(step) ==
    /\ view.tab = "data" /\ Using("pages")
    /\ rowQ[Shown].data # NoData /\ rowQ[Shown].data.total > PageSize
    /\ IF step = -1 THEN view.page # 0 ELSE view.page * PageSize < rowQ[Shown].data.total
    /\ view.page + step <= LastRowPage
    /\ ShowPage(view.page + step, view.sort)

(* the pager is there if the rows are more than one page *)
TurnPage(step) ==
    /\ view.tab = "data" /\ Using("pages")
    /\ rowQ[Shown].data # NoData /\ rowQ[Shown].data.total > PageSize
    /\ IF step = -1 THEN view.page # 0
                    ELSE (view.page + 1) * PageSize < rowQ[Shown].data.total
    /\ view.page + step <= LastRowPage
    /\ ShowPage(view.page + step, view.sort)

(* the Refresh button, and the window that gets the focus back *)
RefreshRows ==
    /\ view.tab = "data" /\ NoBox /\ rowQ[Shown].fetch = "idle"
    /\ rowQ' = [rowQ EXCEPT ![Shown] = Observe(Age(@))]
    /\ UNCHANGED <<server, colQ, view, boxes, requests, tPlan>>

RefreshColumns ==
    /\ ColumnsShown /\ colQ.fetch = "idle"
    /\ colQ' = Observe(Age(colQ))
    /\ UNCHANGED <<server, rowQ, view, boxes, requests, tPlan>>

SwitchTab ==
    /\ view.tab # "away" /\ NoBox /\ tPlan.uses \cap {"add", "drop", "alter"} # {}
    /\ IF view.tab = "data"
       THEN /\ view' = [view EXCEPT !.tab = "structure"]
            /\ colQ' = Observe(colQ)
            /\ UNCHANGED <<rowQ, alterBox, tOps>>
       ELSE /\ view' = [view EXCEPT !.tab = "data"]
            /\ rowQ' = [rowQ EXCEPT ![Shown] = Observe(@)]
            /\ alterBox' = ClosedAlter
            /\ tOps' = {[o EXCEPT !.live = @ /\ o.kind \notin {"alter", "drop"}] : o \in tOps}
            /\ UNCHANGED colQ
    /\ UNCHANGED <<server, insertBox, editBox, deleteBox, addBox, tCount, tPlan>>

---------------------------------------------------------------------------
(* InsertRowDialog.  What was typed stays until a row was inserted. *)

OpenInsert ==
    /\ view.tab = "data" /\ Using("insert")
    /\ insertBox' = [insertBox EXCEPT !.open = TRUE]
    /\ colQ' = Observe(colQ)
    /\ UNCHANGED <<server, rowQ, view, editBox, deleteBox, addBox, alterBox, requests, tPlan>>

TypeInsert(n, v) ==
    /\ insertBox.open /\ HasColumn(ShownColumns, n) /\ v \in tPlan.texts
    /\ insertBox' = [insertBox EXCEPT !.form[n] = v]
    /\ UNCHANGED <<server, queries, view, editBox, deleteBox, addBox, alterBox, requests, tPlan>>

(* parseValue: the empty text and the text NULL are NULL *)
ParsedValue(t) == IF t \in {EmptyText, NullText} THEN NullValue ELSE t

(* A column that is NOT NULL must be given: GetColumns reports the types   *)
(* of information_schema, none of which contains SERIAL                    *)
SaveInsert ==
    /\ insertBox.open /\ ~TPending("insert")
    /\ \A c \in Range(ShownColumns) : insertBox.form[c.name] = EmptyText => c.nullable
    /\ SendT([Request("insert") EXCEPT !.set =
           {<<c.name, ParsedValue(insertBox.form[c.name])>> : c \in
               {d \in Range(ShownColumns) : insertBox.form[d.name] # EmptyText}}])
    /\ UNCHANGED <<server, queries, view, boxes, tPlan>>

CancelInsert ==
    /\ insertBox.open
    /\ insertBox' = [insertBox EXCEPT !.open = FALSE]
    /\ UNCHANGED <<server, queries, view, editBox, deleteBox, addBox, alterBox, requests, tPlan>>

---------------------------------------------------------------------------
(* EditRowDialog. *)

ValueAt(row, i) == IF i \in DOMAIN row THEN row[i] ELSE Undefined

(* String(row[i]); NULL becomes the empty string *)
TextOf(v) == IF v = NullValue THEN EmptyText ELSE IF v \in Cells THEN StringOf[v] ELSE v

(* the effect that fills the form when the dialog opens and when its row   *)
(* or the columns change                                                   *)
Seed(box, cols) ==
    [box EXCEPT !.form = [n \in Names |->
        IF HasColumn(cols, n) THEN TextOf(ValueAt(box.row, Position(cols, n))) ELSE EmptyText]]

\* Mutant: the form is filled only when the columns arrive.
OpenEditUnfilled(i) ==
    /\ view.tab = "data" /\ Using("edit")
    /\ i \in DOMAIN ShownRows
    /\ editBox' = [ClosedEdit EXCEPT !.open = TRUE, !.row = ShownRows[i],
                                     !.names = rowQ[Shown].data.names, !.form = editBox.form]
    /\ colQ' = Observe(colQ)
    /\ UNCHANGED <<server, rowQ, view, insertBox, deleteBox, addBox, alterBox, requests, tPlan>>

OpenEdit(i) ==
    /\ view.tab = "data" /\ Using("edit")
    /\ i \in DOMAIN ShownRows
    /\ editBox' = LET box == [ClosedEdit EXCEPT !.open = TRUE, !.row = ShownRows[i],
                                                !.names = rowQ[Shown].data.names,
                                                !.form = editBox.form]
                  IN  IF colQ.data = NoData THEN box ELSE Seed(box, colQ.data)
    /\ colQ' = Observe(colQ)
    /\ UNCHANGED <<server, rowQ, view, insertBox, deleteBox, addBox, alterBox, requests, tPlan>>

TypeEdit(n, v) ==
    /\ editBox.open /\ HasColumn(ShownColumns, n) /\ v \in tPlan.texts
    /\ editBox' = [editBox EXCEPT !.form[n] = v, !.typed[n] = v]
    /\ UNCHANGED <<server, queries, view, insertBox, deleteBox, addBox, alterBox, requests, tPlan>>

SaveEdit ==
    /\ editBox.open /\ ~TPending("update") /\ colQ.data # NoData
    /\ SendT([Request("update") EXCEPT
           !.set = {<<c.name, ParsedValue(editBox.form[c.name])>> : c \in Range(colQ.data)},
           !.where = {<<colQ.data[i].name, ValueAt(editBox.row, i)>> : i \in DOMAIN colQ.data},
           !.from = editBox, !.names = ColumnNamesOf(colQ.data)])
    /\ UNCHANGED <<server, queries, view, boxes, tPlan>>

CancelEdit ==
    /\ editBox.open
    /\ editBox' = [editBox EXCEPT !.open = FALSE]
    /\ UNCHANGED <<server, queries, view, insertBox, deleteBox, addBox, alterBox, requests, tPlan>>

---------------------------------------------------------------------------
(* DeleteRowConfirm, opened with the WHERE of buildRowWhere. *)

OpenDelete(i) ==
    /\ view.tab = "data" /\ Using("delete")
    /\ i \in DOMAIN ShownRows
    /\ LET names == rowQ[Shown].data.names
       IN  deleteBox' = {<<names[j], ShownRows[i][j]>> : j \in DOMAIN names}
    /\ UNCHANGED <<server, queries, view, insertBox, editBox, addBox, alterBox, requests, tPlan>>

ConfirmDelete ==
    /\ deleteBox # NoRow /\ ~TPending("delete")
    /\ SendT([Request("delete") EXCEPT !.where = deleteBox])
    /\ UNCHANGED <<server, queries, view, boxes, tPlan>>

CancelDelete ==
    /\ deleteBox # NoRow
    /\ deleteBox' = NoRow
    /\ UNCHANGED <<server, queries, view, insertBox, editBox, addBox, alterBox, requests, tPlan>>

---------------------------------------------------------------------------
(* StructureTab, AddColumnDialog and EditColumnDialog. *)

OpenAdd ==
    /\ view.tab = "structure" /\ Using("add")
    /\ addBox' = [addBox EXCEPT !.open = TRUE]
    /\ UNCHANGED <<server, queries, view, insertBox, editBox, deleteBox, alterBox, requests, tPlan>>

FillAdd(f) ==
    /\ addBox.open
    /\ addBox' = [addBox EXCEPT !.form = [f EXCEPT !.pk = FALSE]]
    /\ UNCHANGED <<server, queries, view, insertBox, editBox, deleteBox, alterBox, requests, tPlan>>

SaveAdd ==
    /\ addBox.open /\ addBox.form.name # "" /\ ~TPending("add")
    /\ SendT([Request("add") EXCEPT !.form = addBox.form])
    /\ UNCHANGED <<server, queries, view, boxes, tPlan>>

CancelAdd ==
    /\ addBox.open
    /\ addBox' = [addBox EXCEPT !.open = FALSE]
    /\ UNCHANGED <<server, queries, view, insertBox, editBox, deleteBox, alterBox, requests, tPlan>>

(* A column of the key has no button, and confirm() stops everything else *)
DropColumn(c) ==
    /\ view.tab = "structure" /\ Using("drop")
    /\ ~c.pk
    /\ SendT([Request("drop") EXCEPT !.column = c])
    /\ UNCHANGED <<server, queries, view, boxes, tPlan>>

(* The form of EditColumnDialog got its first values when the tab was      *)
(* shown and no column chosen; it is never filled with the column's.       *)
OpenAlter(c) ==
    /\ view.tab = "structure" /\ Using("alter")
    /\ alterBox' = [alterBox EXCEPT !.column = c]
    /\ UNCHANGED <<server, queries, view, insertBox, editBox, deleteBox, addBox, requests, tPlan>>

FillAlter(f) ==
    /\ alterBox.column # NoColumn
    /\ alterBox' = [alterBox EXCEPT !.form = [f EXCEPT !.pk = FALSE]]
    /\ UNCHANGED <<server, queries, view, insertBox, editBox, deleteBox, addBox, requests, tPlan>>

(* The statements of a change.  The type is always among them: the form    *)
(* says INTEGER where GetColumns says integer.                             *)
Statements(c, f) ==
    (IF f.name # c.name THEN <<"rename">> ELSE <<>>) \o <<"type">>
    \o (IF f.nullable # c.nullable THEN <<"nullable">> ELSE <<>>)
    \o (IF f.default # c.default THEN <<"default">> ELSE <<>>)

SaveAlter ==
    /\ alterBox.column # NoColumn /\ alterBox.form.name # "" /\ ~TPending("alter")
    /\ SendT([Request("alter") EXCEPT !.column = alterBox.column, !.form = alterBox.form,
                  !.stmts = Statements(alterBox.column, alterBox.form)])
    /\ UNCHANGED <<server, queries, view, boxes, tPlan>>

CancelAlter ==
    /\ alterBox.column # NoColumn
    /\ alterBox' = [alterBox EXCEPT !.column = NoColumn]
    /\ UNCHANGED <<server, queries, view, insertBox, editBox, deleteBox, addBox, requests, tPlan>>

---------------------------------------------------------------------------
(* The server.  What PostgreSQL refuses is never handled: it fails. *)

Reply(o) == tOps' = (tOps \ {o}) \cup {[o EXCEPT !.done = TRUE]}

WhereColumnsExist(o) == \A w \in o.where \cup o.set : HasColumn(tCols, w[1])

HandleInsert(o) ==
    /\ o.kind = "insert" /\ ~o.done /\ o.set # {} /\ WhereColumnsExist(o)
    /\ LET new == [i \in DOMAIN tCols |->
                     IF \E w \in o.set : w[1] = tCols[i].name
                     THEN (CHOOSE w \in o.set : w[1] = tCols[i].name)[2]
                     ELSE DefaultOf(tCols[i])]
       IN  tRows' = Append(tRows, new)
    /\ Accepts(tCols, tRows')
    /\ Reply(o)
    /\ UNCHANGED <<tCols, tGhost, queries, view, boxes, tCount, tPlan>>

HandleUpdate(o) ==
    /\ o.kind = "update" /\ ~o.done /\ WhereColumnsExist(o)
    /\ tRows' = [h \in DOMAIN tRows |->
           IF ~Matches(tRows[h], o.where) THEN tRows[h]
           ELSE [i \in DOMAIN tCols |->
                   IF \E w \in o.set : w[1] = tCols[i].name
                   THEN (CHOOSE w \in o.set : w[1] = tCols[i].name)[2]
                   ELSE tRows[h][i]]]
    /\ Accepts(tCols, tRows')
    /\ Reply(o)
    /\ UNCHANGED <<tCols, tGhost, queries, view, boxes, tCount, tPlan>>

(* what stays is in its order *)
HandleDelete(o) ==
    /\ o.kind = "delete" /\ ~o.done /\ WhereColumnsExist(o)
    /\ LET kept == {h \in DOMAIN tRows : ~Matches(tRows[h], o.where)}
       IN  \E order \in [1..Cardinality(kept) -> kept] :
            /\ \A m, n \in DOMAIN order : m < n => order[m] < order[n]
            /\ tRows' = [n \in DOMAIN order |-> tRows[order[n]]]
    /\ tGhost' = [tGhost EXCEPT !.removed = TRUE]
    /\ Reply(o)
    /\ UNCHANGED <<tCols, queries, view, boxes, tCount, tPlan>>

HandleAdd(o) ==
    /\ o.kind = "add" /\ ~o.done /\ ~HasColumn(tCols, o.form.name)
    /\ tCols' = Append(tCols, o.form)
    /\ tRows' = [h \in DOMAIN tRows |-> Append(tRows[h], DefaultOf(o.form))]
    /\ Accepts(tCols', tRows')
    /\ tGhost' = [tGhost EXCEPT !.reshaped = TRUE]
    /\ Reply(o)
    /\ UNCHANGED <<queries, view, boxes, tCount, tPlan>>

HandleDrop(o) ==
    /\ o.kind = "drop" /\ ~o.done /\ HasColumn(tCols, o.column.name)
    /\ LET i == Position(tCols, o.column.name)
       IN  /\ ~tCols[i].pk
           /\ tCols' = RemoveAt(tCols, i)
           /\ tRows' = [h \in DOMAIN tRows |-> RemoveAt(tRows[h], i)]
    /\ tGhost' = [tGhost EXCEPT !.reshaped = TRUE]
    /\ Reply(o)
    /\ UNCHANGED <<queries, view, boxes, tCount, tPlan>>

\* Mutant: every statement has the old name.
AddressedBefore(o) == o.column.name

(* The column a statement addresses: after a rename its new name *)
Addressed(o) == IF Head(o.stmts) = "rename" THEN o.column.name ELSE o.form.name

(* One statement after the other is sent and awaited; no cast leads from   *)
(* text to integer.                                                        *)
HandleStatement(o) ==
    /\ o.kind = "alter" /\ o.stmts # <<>> /\ HasColumn(tCols, Addressed(o))
    /\ LET i == Position(tCols, Addressed(o))
           s == Head(o.stmts)
       IN  /\ s = "rename" => ~HasColumn(tCols, o.form.name)
           /\ s = "type" => ~(tCols[i].type = "TEXT" /\ o.form.type = "INTEGER")
           /\ tCols' = [tCols EXCEPT ![i] =
                 CASE s = "rename" -> [@ EXCEPT !.name = o.form.name]
                   [] s = "type" -> [@ EXCEPT !.type = o.form.type]
                   [] s = "nullable" -> [@ EXCEPT !.nullable = o.form.nullable]
                   [] s = "default" -> [@ EXCEPT !.default = o.form.default]]
           /\ tCols'[i].pk => ~tCols'[i].nullable
    /\ Accepts(tCols', tRows)
    /\ tGhost' = [tGhost EXCEPT !.reshaped = TRUE]
    /\ tOps' = (tOps \ {o}) \cup {[o EXCEPT !.stmts = Tail(@), !.done = (Tail(o.stmts) = <<>>)]}
    /\ UNCHANGED <<tRows, queries, view, boxes, tCount, tPlan>>

(* another user of the database removes a row *)
OthersRemove(i) ==
    /\ tCount.others < tPlan.others /\ i \in DOMAIN tRows
    /\ tRows' = RemoveAt(tRows, i)
    /\ tCount' = [tCount EXCEPT !.others = @ + 1]
    /\ tGhost' = [tGhost EXCEPT !.removed = TRUE, !.unsure = TRUE]
    /\ UNCHANGED <<tCols, queries, view, boxes, tOps, tPlan>>

---------------------------------------------------------------------------
(* The answers. *)

\* Mutant: only the page on the screen.
InvalidateShownPage == rowQ' = [rowQ EXCEPT ![Shown] = Invalidate(@, view.tab = "data")]

InvalidateRows ==
    rowQ' = [k \in PageKeys |-> Invalidate(rowQ[k], view.tab = "data" /\ k = Shown)]

SucceedT(o) ==
    /\ o.done
    /\ tOps' = tOps \ {o}
    /\ IF o.kind \in {"insert", "update", "delete"}
       THEN InvalidateRows /\ UNCHANGED colQ
       ELSE colQ' = Invalidate(colQ, ColumnsShown) /\ UNCHANGED rowQ
    /\ insertBox' = IF o.kind = "insert" /\ o.live
                    THEN [open |-> FALSE, form |-> NothingTyped] ELSE insertBox
    /\ editBox' = IF o.kind = "update" /\ o.live
                  THEN [editBox EXCEPT !.open = FALSE] ELSE editBox
    /\ deleteBox' = IF o.kind = "delete" /\ o.live THEN NoRow ELSE deleteBox
    /\ addBox' = IF o.kind = "add" /\ o.live
                 THEN [open |-> FALSE, form |-> BlankColumn] ELSE addBox
    /\ alterBox' = IF o.kind = "alter" /\ o.live
                   THEN [alterBox EXCEPT !.column = NoColumn] ELSE alterBox
    /\ UNCHANGED <<server, view, tCount, tPlan>>

(* refused, not handled, or handled with the answer lost on the way *)
FailT(o) ==
    /\ tOps' = tOps \ {o}
    /\ tGhost' = [tGhost EXCEPT !.unsure = TRUE]
    /\ UNCHANGED <<tCols, tRows, queries, view, boxes, tCount, tPlan>>

ReadRows(k) ==
    /\ rowQ[k].fetch = "sent"
    /\ rowQ' = [rowQ EXCEPT ![k] = Read(@, PageOf(k))]
    /\ UNCHANGED <<server, colQ, view, boxes, requests, tPlan>>

(* A page without rows is null where DataResultSchema wants an array: the  *)
(* query fails.                                                            *)
RowsArrive(k) ==
    /\ rowQ[k].fetch = "read"
    /\ rowQ' = [rowQ EXCEPT ![k] = IF @.answer.rows = <<>> THEN FetchFails(@) ELSE Arrive(@)]
    /\ UNCHANGED <<server, colQ, view, boxes, requests, tPlan>>

RowsFail(k) ==
    /\ rowQ[k].fetch # "idle"
    /\ rowQ' = [rowQ EXCEPT ![k] = FetchFails(@)]
    /\ UNCHANGED <<server, colQ, view, boxes, requests, tPlan>>

ReadColumns ==
    /\ colQ.fetch = "sent"
    /\ colQ' = Read(colQ, tCols)
    /\ UNCHANGED <<server, rowQ, view, boxes, requests, tPlan>>

ColumnsArrive ==
    /\ colQ.fetch = "read"
    /\ colQ' = Arrive(colQ)
    /\ editBox' = IF editBox.open /\ colQ.answer # colQ.data
                  THEN [Seed(editBox, colQ.answer) EXCEPT !.reseeded = colQ.data # NoData]
                  ELSE editBox
    /\ UNCHANGED <<server, rowQ, view, insertBox, deleteBox, addBox, alterBox, requests, tPlan>>

ColumnsFail ==
    /\ colQ.fetch # "idle"
    /\ colQ' = FetchFails(colQ)
    /\ UNCHANGED <<server, rowQ, view, boxes, requests, tPlan>>

---------------------------------------------------------------------------
LeaveTable ==
    /\ view.tab # "away"
    /\ view' = [tab |-> "away", page |-> 0, sort |-> Unsorted]
    /\ tOps' = {[o EXCEPT !.live = FALSE] : o \in tOps}
    /\ insertBox' = [open |-> FALSE, form |-> NothingTyped] /\ editBox' = ClosedEdit
    /\ deleteBox' = NoRow /\ addBox' = [open |-> FALSE, form |-> BlankColumn]
    /\ alterBox' = ClosedAlter
    /\ UNCHANGED <<server, queries, tCount, tPlan>>

EnterTable ==
    /\ view.tab = "away" /\ tCount.visits < tPlan.visits
    /\ tCount' = [tCount EXCEPT !.visits = @ + 1]
    /\ view' = [view EXCEPT !.tab = "data"]
    /\ rowQ' = [rowQ EXCEPT ![Shown] = Observe(@)]
    /\ UNCHANGED <<server, colQ, boxes, tOps, tPlan>>

TableInit ==
    /\ tPlan \in TablePlans /\ tCols = tPlan.cols /\ tRows = tPlan.rows
    /\ colQ = Unasked /\ rowQ = [k \in PageKeys |-> Unasked]
    /\ view = [tab |-> "away", page |-> 0, sort |-> Unsorted]
    /\ insertBox = [open |-> FALSE, form |-> NothingTyped] /\ editBox = ClosedEdit
    /\ deleteBox = NoRow /\ addBox = [open |-> FALSE, form |-> BlankColumn]
    /\ alterBox = ClosedAlter
    /\ tOps = {} /\ tCount = [ops |-> 0, others |-> 0, visits |-> 0]
    /\ tGhost = [unsure |-> FALSE, reshaped |-> FALSE, removed |-> FALSE]

TableNext ==
    \/ EnterTable \/ LeaveTable \/ SwitchTab \/ RefreshRows \/ RefreshColumns
    \/ \E n \in SortNames : SortBy(n)
    \/ \E step \in {-1, 1} : TurnPage(step)
    \/ OpenInsert \/ SaveInsert \/ CancelInsert \/ SaveEdit \/ CancelEdit
    \/ ConfirmDelete \/ CancelDelete
    \/ \E n \in Names, v \in TypedTexts : TypeInsert(n, v) \/ TypeEdit(n, v)
    \/ \E i \in 1..PageSize : OpenEdit(i) \/ OpenDelete(i)
    \/ OpenAdd \/ SaveAdd \/ CancelAdd \/ SaveAlter \/ CancelAlter
    \/ \E f \in ColumnForms : FillAdd(f) \/ FillAlter(f)
    \/ \E c \in Range(ShownColumns) : DropColumn(c) \/ OpenAlter(c)
    \/ \E o \in tOps :
        \/ HandleInsert(o) \/ HandleUpdate(o) \/ HandleDelete(o)
        \/ HandleAdd(o) \/ HandleDrop(o) \/ HandleStatement(o)
        \/ SucceedT(o) \/ FailT(o)
    \/ \E i \in DOMAIN tRows : OthersRemove(i)
    \/ \E k \in PageKeys : ReadRows(k) \/ RowsArrive(k) \/ RowsFail(k)
    \/ ReadColumns \/ ColumnsArrive \/ ColumnsFail

TableSpec == TableInit /\ [][TableNext]_tableVars

---------------------------------------------------------------------------
(* Once the user's own requests are answered, the columns that count as up *)
(* to date are the table's, and the pages of rows likewise, those not on   *)
(* the screen too; but changed columns do not reach the rows.              *)
TableInSync ==
    tOps = {} /\ ~tGhost.unsure =>
        /\ (Fresh(colQ) /\ ~colQ.overtaken) => colQ.data = tCols
        /\ \A k \in PageKeys : (Fresh(rowQ[k]) /\ ~rowQ[k].overtaken /\ ~tGhost.reshaped)
                                 => rowQ[k].data = PageOf(k)

RowPairs(box) == {<<box.names[i], box.row[i]>> : i \in DOMAIN box.names}

(* NULL, and what String() and parseValue leave as it is: the empty string *)
(* and the text NULL are written back as NULL, an array or an object as    *)
(* the text that String() makes of it                                      *)
Survives(v) == v = NullValue \/ (v \in Cells \ {NullText} /\ StringOf[v] = v)
WrittenBack(typed, v) ==
    IF typed # NullValue THEN ParsedValue(typed)
    ELSE IF Survives(v) THEN v ELSE ParsedValue(TextOf(v))

(* An update names the values of the row the dialog was opened for, and    *)
(* writes those that survive back except where the user typed: whatever    *)
(* was fetched, sorted, saved or typed for another row meanwhile, as long  *)
(* as the row and the columns arrived with the same names and no other     *)
(* columns arrived while the dialog was open.                              *)
UpdateIsOfRow ==
    \A o \in tOps : o.kind = "update" /\ o.names = o.from.names /\ ~o.from.reseeded =>
        /\ o.where = RowPairs(o.from)
        /\ o.set = {<<p[1], WrittenBack(o.from.typed[p[1]], p[2])>> : p \in RowPairs(o.from)}

(* The statements of a changed column find it, the ones after a rename     *)
(* too, if nothing else was sent that could change the columns             *)
AlterFindsColumn ==
    \A o \in tOps : o.kind = "alter" /\ o.stmts # <<>> /\ tCount.ops = 1 =>
        HasColumn(tCols, Addressed(o))

(* Nobody removed a row: the page that is shown has rows *)
PageHasRows == view.page # 0 /\ ~tGhost.removed => view.page * PageSize < Len(tRows)
===============================================================================
