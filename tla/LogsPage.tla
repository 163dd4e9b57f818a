-------------------------------- MODULE LogsPage --------------------------------
(***************************************************************************)
(* The audit log as an administrator reads it: page by page and filtered   *)
(* (src/backend/ui/src/routes/Logs.tsx), while entries are written and the *)
(* retention removes old ones.  Each page of each filter is an entry of    *)
(* the query cache.  The log is a set: what tells its entries apart and    *)
(* puts them in order is when they were written.                           *)
(***************************************************************************)
EXTENDS Integers, QueryCache

CONSTANTS
    Filters,        \* the fields that are filtered by
    LogTexts,       \* what an entry has in these fields
    FilterTexts,    \* what of it is typed into a filter
    FirstLogs,      \* the log at first
    LaterLogs,      \* what the entries have that may be written later
    LogLimit,       \* entries of a page (50)
    LastPage,       \* bound: pages above are not asked for
    MaxLogEvents    \* bound: how many entries are written or removed, and visits

ASSUME FiltersAssumption == Filters \subseteq {"username", "action", "database"}
ASSUME LogsAssumption ==
    /\ LogLimit \in Nat \ {0} /\ {LastPage, MaxLogEvents} \subseteq Nat /\ FilterTexts \subseteq LogTexts \ {""}
    /\ LaterLogs \subseteq [Filters -> LogTexts]
    /\ FirstLogs \subseteq [at : {t \in Int : t <= 0}, of : [Filters -> LogTexts]]
    /\ IsFiniteSet(FirstLogs)

VARIABLES
    logs,           \* the table audit_log
    logsQ,          \* the cached pages
    logsView,       \* the page and the filters that are shown; is the page open
    logEvents,      \* how many entries were written or removed, and visits
    purged          \* were entries removed

logsVars == <<logs, logsQ, logsView, logEvents, purged>>

AuditLogEntry == [at : Int, of : [Filters -> LogTexts]]
AuditLogResponse == [entries : SUBSET AuditLogEntry, total : Nat]
NoFilter == [f \in Filters |-> ""]
LogKeys == [page : 0..LastPage, filter : [Filters -> FilterTexts \cup {""}]]

\* Mutant: the filters are not part of the key.
LogKeyOfPage(v) == [page |-> v.page, filter |-> NoFilter]

(* the query key: page, username, action, database *)
LogKey(v) == [page |-> v.page, filter |-> v.filter]

LogsPageTypeOK ==
    /\ logs \subseteq AuditLogEntry
    /\ \A k \in LogKeys : logsQ[k] \in Entries(AuditLogResponse)
    /\ LogKey(logsView) \in LogKeys /\ logsView.open \in BOOLEAN
    /\ logEvents \in 0..MaxLogEvents /\ purged \in BOOLEAN

Satisfies(e, filter) == \A f \in Filters : filter[f] # "" => e.of[f] = filter[f]
Matching(filter) == {e \in logs : Satisfies(e, filter)}

(* ListLogs: the newest first, as many as a page has.  The entries are     *)
(* counted by a statement before the one that selects them; here they are  *)
(* counted in the same moment, the later one.                              *)
LogsAnswer(k) ==
    LET found == Matching(k.filter)
        Newer(e) == Cardinality({n \in found : n.at > e.at})
    IN  [total |-> Cardinality(found),
         entries |-> {e \in found : Newer(e) >= k.page * LogLimit /\ Newer(e) < (k.page + 1) * LogLimit}]

LogsShown == logsQ[LogKey(logsView)]

---------------------------------------------------------------------------
ShowLogs(v) ==
    /\ logsView' = v
    /\ logsQ' = [logsQ EXCEPT ![LogKey(v)] = Observe(@)]
    /\ UNCHANGED <<logs, purged>>

(* every change of a filter goes back to the first page *)
FilterLogs(f, t) ==
    /\ logsView.open /\ logsView.filter[f] # t
    /\ ShowLogs([logsView EXCEPT !.filter[f] = t, !.page = 0])
    /\ UNCHANGED logEvents

(* The pager is there if the entries found are more than a page *)
TurnLogs(step) ==
    /\ logsView.open /\ LogsShown.data # NoData /\ LogsShown.data.total > LogLimit
    /\ IF step = -1 THEN logsView.page # 0
                    ELSE (logsView.page + 1) * LogLimit < LogsShown.data.total
    /\ logsView.page + step <= LastPage
    /\ ShowLogs([logsView EXCEPT !.page = @ + step])
    /\ UNCHANGED logEvents

(* the Refresh button, and the window that gets the focus back *)
RefreshLogs ==
    /\ logsView.open /\ LogsShown.fetch = "idle"
    /\ logsQ' = [logsQ EXCEPT ![LogKey(logsView)] = Observe(Age(@))]
    /\ UNCHANGED <<logs, logsView, logEvents, purged>>

ReadLogs(k) ==
    /\ logsQ[k].fetch = "sent"
    /\ logsQ' = [logsQ EXCEPT ![k] = Read(@, LogsAnswer(k))]
    /\ UNCHANGED <<logs, logsView, logEvents, purged>>

LogsArrive(k) ==
    /\ logsQ[k].fetch = "read"
    /\ logsQ' = [logsQ EXCEPT ![k] = Arrive(@)]
    /\ UNCHANGED <<logs, logsView, logEvents, purged>>

LogsFail(k) ==
    /\ logsQ[k].fetch # "idle"
    /\ logsQ' = [logsQ EXCEPT ![k] = FetchFails(@)]
    /\ UNCHANGED <<logs, logsView, logEvents, purged>>

---------------------------------------------------------------------------
LogEvent == logEvents < MaxLogEvents /\ logEvents' = logEvents + 1

WriteLog(e) ==
    /\ LogEvent
    /\ logs' = logs \cup {[at |-> logEvents', of |-> e]}
    /\ UNCHANGED <<logsQ, logsView, purged>>

(* the retention: some entry and everything older *)
PurgeLogs(old) ==
    /\ LogEvent
    /\ logs' = {e \in logs : e.at > old.at}
    /\ purged' = TRUE
    /\ UNCHANGED <<logsQ, logsView>>

LeaveLogs ==
    /\ logsView.open
    /\ logsView' = [open |-> FALSE, page |-> 0, filter |-> NoFilter]
    /\ UNCHANGED <<logs, logsQ, logEvents, purged>>

EnterLogs ==
    /\ ~logsView.open /\ LogEvent
    /\ ShowLogs([logsView EXCEPT !.open = TRUE])

LogsInit ==
    /\ logs = FirstLogs /\ logsQ = [k \in LogKeys |-> Unasked]
    /\ logsView = [open |-> FALSE, page |-> 0, filter |-> NoFilter]
    /\ logEvents = 0 /\ purged = FALSE

LogsNext ==
    \/ EnterLogs \/ LeaveLogs \/ RefreshLogs
    \/ \E f \in Filters, t \in FilterTexts \cup {""} : FilterLogs(f, t)
    \/ \E step \in {-1, 1} : TurnLogs(step)
    \/ \E k \in LogKeys : ReadLogs(k) \/ LogsArrive(k) \/ LogsFail(k)
    \/ \E e \in LaterLogs : WriteLog(e)
    \/ \E old \in logs : PurgeLogs(old)

LogsSpec == LogsInit /\ [][LogsNext]_logsVars

---------------------------------------------------------------------------
(* What is shown under a filter was found by that filter, whatever answer  *)
(* arrives after the filter was changed                                    *)
ShownSatisfyFilter ==
    LogsShown.data # NoData =>
        \A e \in LogsShown.data.entries : Satisfies(e, logsView.filter)

(* Unless the retention removed entries, a page that is shown has some:    *)
(* also after a filter was set on a later page                             *)
LogsPageHasEntries ==
    logsView.page # 0 /\ ~purged => logsView.page * LogLimit < Cardinality(Matching(logsView.filter))
===============================================================================
