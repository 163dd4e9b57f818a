------------------------------- MODULE QueryCache -------------------------------
(***************************************************************************)
(* One entry of the browser's query cache and the dialog that asks for a   *)
(* deletion to be confirmed: the two parts every page of the client uses.  *)
(*                                                                         *)
(* The cache is @tanstack/react-query with the options of main.tsx: an     *)
(* answer is fresh for five seconds, a failing request is sent a second    *)
(* time before the query fails.  A request is "sent" until the server has  *)
(* read the data, then "read" until the answer arrives; the second attempt *)
(* is the first one read later.  The entry keeps its data while a new      *)
(* answer is awaited and after a failure.                                  *)
(***************************************************************************)
EXTENDS FiniteSets

CONSTANT NoData     \* the data of a query that was never answered

(* An entry whose data are taken from D.  "overtaken": the request that    *)
(* brought the data was under way at an invalidation and not sent anew,    *)
(* because there were no data yet or nobody showed them.                   *)
Entries(D) == [data : D \cup {NoData}, fetch : {"idle", "sent", "read"},
               answer : D \cup {NoData}, stale : BOOLEAN, overtaken : BOOLEAN]

Unasked == [data |-> NoData, fetch |-> "idle", answer |-> NoData, stale |-> FALSE,
            overtaken |-> FALSE]

Send(q) == [q EXCEPT !.fetch = "sent", !.answer = NoData, !.overtaken = FALSE]

(* useQuery, on mount and whenever the window gets the focus back: ask if  *)
(* there are no data or stale ones, unless a request is under way          *)
Observe(q) ==
    IF q.fetch = "idle" /\ (q.data = NoData \/ q.stale) THEN Send(q) ELSE q

(* isLoading: the first answer is still awaited *)
IsLoading(q) == q.data = NoData /\ q.fetch # "idle"

(* invalidateQueries: the data are stale, and a page that shows them asks  *)
(* anew; a request under way is given up only if there are data already    *)
Invalidate(q, shown) ==
    LET s == [q EXCEPT !.stale = TRUE]
    IN  IF shown /\ ~IsLoading(q)
        THEN Send(s)
        ELSE [s EXCEPT !.overtaken = q.fetch # "idle"]

(* cancelQueries: the request is given up, the entry is as it was before *)
Cancel(q) == [q EXCEPT !.fetch = "idle", !.answer = NoData]

(* setQueryData: written by the page, taken for fresh; a request under way *)
(* goes on and will write over it                                          *)
SetData(q, d) == [q EXCEPT !.data = d, !.stale = FALSE, !.overtaken = q.fetch # "idle"]

(* the staleTime of main.tsx has passed *)
Age(q) == [q EXCEPT !.stale = TRUE]

(* The life of a request: the server reads d, the answer arrives, or both *)
(* attempts fail, before or after the server read *)
Read(q, d) == [q EXCEPT !.fetch = "read", !.answer = d]

Arrive(q) == [q EXCEPT !.data = q.answer, !.fetch = "idle", !.answer = NoData,
                       !.stale = FALSE]

FetchFails(q) == [q EXCEPT !.fetch = "idle", !.answer = NoData, !.stale = TRUE]

(* What the entry holds counts as up to date: nothing marks it otherwise *)
Fresh(q) == q.data # NoData /\ q.fetch = "idle" /\ ~q.stale

---------------------------------------------------------------------------
(* ConfirmDeleteDialog.  The component stays mounted while it is closed,   *)
(* and with it the typed text; the page holds the item to delete.  "typed" *)
(* is the item the dialog named when DELETE was typed.                     *)

Confirms(T, No) == [target : T \cup {No}, text : {"", "DELETE"}, typed : T \cup {No}]

NothingToConfirm(No) == [target |-> No, text |-> "", typed |-> No]

AskToConfirm(c, x) == [c EXCEPT !.target = x]

TypeDelete(c) == [c EXCEPT !.text = "DELETE", !.typed = c.target]

(* handleClose: cancel, escape, a click outside, and the end of a confirm *)
CloseConfirm(c, No) == NothingToConfirm(No)

(* the Delete button; the page's mutation is not pending *)
MayConfirm(c, No, pending) == c.target # No /\ ~pending /\ c.text = "DELETE"

(* The dialog names the item for which DELETE was typed *)
Confirmed(c, No) == c.target # No /\ c.text = "DELETE" => c.typed = c.target
=============================================================================
