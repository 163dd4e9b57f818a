------------------------------ MODULE SettingsPage ------------------------------
(***************************************************************************)
(* The Settings page (src/backend/ui/src/routes/Settings.tsx).  It has     *)
(* four parts, each with its own query, its own requests and its own state *)
(* of the form; a behaviour follows one of them:                           *)
(*   "access"     the switches that open databases to PgBouncer            *)
(*   "pool"       the form of the pool's configuration                     *)
(*   "retention"  the form of the days that the audit log is kept          *)
(*   "tls"        the certificates                                         *)
(* No part closes while a request is under way, and the page may be left:  *)
(* what keeps two requests of a kind apart is the mutation of one visit.   *)
(***************************************************************************)
EXTENDS Naturals, QueryCache

CONSTANTS
    PooledDbs,          \* databases PgBouncer knows
    PoolChoices,        \* configurations of the pool that can be typed
    PoolDefault,        \* what the form shows before there is one
    PoolRefused,        \* those outside of the ranges of the server
    DayChoices,         \* numbers of days
    DaysDefault,        \* what the form shows before there is one
    SettingsPlans       \* bounds: the part, the number of requests and of visits

ASSUME PoolAssumption == PoolDefault \in PoolChoices \ PoolRefused
ASSUME DaysAssumption == DaysDefault \in DayChoices
ASSUME SettingsPlansAssumption ==
    SettingsPlans \subseteq [part : {"access", "pool", "retention", "tls"},
                             ops : Nat, visits : Nat]

VARIABLES
    stPlan,         \* the plan that is followed
    stored,         \* what the server holds
    stQuery,        \* the cached answer
    stOps,          \* requests on their way
    stIssued,       \* number of them so far
    stUnsure,       \* changes the page was not told of, 0: someone else's
    overlap,        \* were two requests ever under way at the same time
    stMounted, stVisits,
    form,           \* what the form holds
    original,       \* what the retention form takes for the stored value
    edited,         \* was the form edited since it was filled
    editedLate,     \* was it edited while a request was under way
    panel           \* the form that is open in the part on certificates

stVars == <<stPlan, stored, stQuery, stOps, stIssued, stUnsure, overlap, stMounted, stVisits,
            form, original, edited, editedLate, panel>>

formVars == <<form, original, edited, editedLate, panel>>
stVisitVars == <<stPlan, stMounted, stVisits>>

part == stPlan.part

TlsStates == [certs : BOOLEAN, pref : {"none", "on", "off"}]

Stores == CASE part = "access"    -> [PooledDbs -> BOOLEAN]
            [] part = "pool"      -> PoolChoices
            [] part = "retention" -> DayChoices
            [] part = "tls"       -> TlsStates

(* The preference counts if there is one, else the files decide *)
TlsEnabled(s) == IF s.pref = "none" THEN s.certs ELSE s.pref = "on"

(* What the server answers *)
View(s) == IF part = "tls" THEN [enabled |-> TlsEnabled(s), hasCerts |-> s.certs] ELSE s
Views == {View(s) : s \in Stores}

Forms == CASE part = "pool" -> PoolChoices [] part = "retention" -> DayChoices
           [] OTHER -> {NoData}
DefaultForm == CASE part = "pool" -> PoolDefault [] part = "retention" -> DaysDefault
                 [] OTHER -> NoData

Kinds == CASE part = "access" -> {"toggle"}
           [] part \in {"pool", "retention"} -> {"save"}
           [] part = "tls" -> {"generate", "upload", "enable", "disable", "delete"}

(* "before" is what the page showed when the request was sent, "at" is how *)
(* far the server is with it                                               *)
StRequests == [kind : Kinds, db : PooledDbs \cup {NoData}, value : Stores \cup BOOLEAN \cup {NoData},
               before : Views \cup {NoData}, id : 1..stPlan.ops, own : BOOLEAN,
               live : BOOLEAN, at : {"sent", "half", "done"}]

(* The changes that were made on the server and not, or not yet, answered: *)
(* all of them, those made since the server read what the page shows, and  *)
(* those made since it read the answer that is on its way                  *)
Unanswered == [{"ever", "shown", "answer"} -> SUBSET (0..stPlan.ops)]

SettingsTypeOK ==
    /\ stPlan \in SettingsPlans
    /\ stored \in Stores
    /\ stQuery \in Entries(Views)
    /\ \A o \in stOps : /\ o.kind \in Kinds /\ o.id \in 1..stPlan.ops
                        /\ o.before \in Views \cup {NoData}
                        /\ o.at \in {"sent", "half", "done"}
                        /\ o.at = "half" => part = "tls"
    /\ stIssued \in 0..stPlan.ops
    /\ stUnsure \in Unanswered
    /\ overlap \in BOOLEAN /\ stMounted \in BOOLEAN
    /\ stVisits \in 0..stPlan.visits
    /\ form \in Forms /\ original \in Forms
    /\ edited \in BOOLEAN /\ editedLate \in BOOLEAN
    /\ panel \in {"", "generate", "upload"}

---------------------------------------------------------------------------
(* The page. *)

StPending(kind) == \E o \in stOps : o.kind = kind /\ o.live

SendSetting(kind, d, v, live) ==
    /\ stIssued < stPlan.ops
    /\ stIssued' = stIssued + 1
    /\ overlap' = (overlap \/ stOps # {})
    /\ stOps' = stOps \cup {[kind |-> kind, db |-> d, value |-> v, before |-> stQuery.data,
                             id |-> stIssued + 1, own |-> live, live |-> live,
                             at |-> "sent"]}

(* onMutate of a switch: the list that is on its way is given up, and the  *)
(* page shows the new position before the server knows it                  *)
ToggleDbAccess(d) ==
    /\ part = "access" /\ stMounted
    /\ stQuery.data # NoData /\ ~StPending("toggle")
    /\ SendSetting("toggle", d, ~stQuery.data[d], TRUE)
    /\ stQuery' = SetData(Cancel(stQuery), [stQuery.data EXCEPT ![d] = ~@])
    /\ UNCHANGED <<stored, stUnsure, formVars, stVisitVars>>

(* The forms are there unless the first answer is still awaited *)
EditForm(v) ==
    /\ part \in {"pool", "retention"} /\ stMounted /\ ~IsLoading(stQuery)
    /\ v # form
    /\ form' = v
    /\ edited' = TRUE
    /\ editedLate' = (editedLate \/ StPending("save"))
    /\ UNCHANGED <<stored, stQuery, stOps, stIssued, stUnsure, overlap, original, panel,
                   stVisitVars>>

(* The pool's form is compared with the cached answer, the days with what  *)
(* they were filled with                                                   *)
PoolChanged == stQuery.data # NoData /\ form # stQuery.data
DaysChanged == form # original
HasChanges == IF part = "pool" THEN PoolChanged ELSE DaysChanged

SaveForm ==
    /\ part \in {"pool", "retention"} /\ stMounted /\ ~IsLoading(stQuery)
    /\ HasChanges /\ ~StPending("save")
    /\ SendSetting("save", NoData, form, TRUE)
    /\ UNCHANGED <<stored, stQuery, stUnsure, formVars, stVisitVars>>

(* The buttons of the certificates follow the status that is shown *)
ShownCerts == stQuery.data # NoData /\ stQuery.data.hasCerts
ShownEnabled == stQuery.data # NoData /\ stQuery.data.enabled

OpenPanel(k) ==
    /\ part = "tls" /\ stMounted /\ ~IsLoading(stQuery) /\ ~ShownCerts
    /\ k = "generate" => ~StPending("generate")
    /\ panel' = IF panel = k THEN "" ELSE k
    /\ UNCHANGED <<stored, stQuery, stOps, stIssued, stUnsure, overlap, form, original,
                   edited, editedLate, stVisitVars>>

ClosePanel ==
    /\ part = "tls" /\ stMounted /\ ~IsLoading(stQuery) /\ panel # ""
    /\ panel' = ""
    /\ UNCHANGED <<stored, stQuery, stOps, stIssued, stUnsure, overlap, form, original,
                   edited, editedLate, stVisitVars>>

MaySend(k) ==
    CASE k \in {"generate", "upload"} -> panel = k
      [] k = "enable"  -> ShownCerts /\ ~ShownEnabled
      [] k = "disable" -> ShownCerts /\ ShownEnabled
      [] k = "delete"  -> ShownCerts

ChangeTls(k) ==
    /\ part = "tls" /\ stMounted /\ ~IsLoading(stQuery)
    /\ MaySend(k) /\ ~StPending(k)
    /\ SendSetting(k, NoData, NoData, TRUE)
    /\ UNCHANGED <<stored, stQuery, stUnsure, formVars, stVisitVars>>

---------------------------------------------------------------------------
(* The server.  A switch and a saved form are one statement; the handlers  *)
(* of the certificates write the files and the preference one after the    *)
(* other.                                                                  *)

NotTold(i) == [k \in DOMAIN stUnsure |-> stUnsure[k] \cup {i}]

Told(o) == [k \in DOMAIN stUnsure |-> stUnsure[k] \ {o.id}]

Advance(o, s, at) ==
    /\ stored' = s
    /\ stOps' = (stOps \ {o}) \cup {[o EXCEPT !.at = at]}
    /\ stUnsure' = NotTold(o.id)
    /\ UNCHANGED <<stQuery, stIssued, overlap, formVars, stVisitVars>>

HandleToggle(o) ==
    /\ o.kind = "toggle" /\ o.at = "sent"
    /\ Advance(o, [stored EXCEPT ![o.db] = o.value], "done")

HandleSave(o) ==
    /\ o.kind = "save" /\ o.at = "sent"
    /\ part = "pool" => o.value \notin PoolRefused
    /\ Advance(o, o.value, "done")

(* GenerateCerts and UploadCerts: the files, then enableSSL *)
HandleNewCerts(o) ==
    /\ o.kind \in {"generate", "upload"}
    /\ \/ o.at = "sent" /\ Advance(o, [stored EXCEPT !.certs = TRUE], "half")
       \/ o.at = "half" /\ Advance(o, [stored EXCEPT !.pref = "on"], "done")

(* EnableCerts: refused without files, nothing to do if it is enabled *)
HandleEnable(o) ==
    /\ o.kind = "enable"
    /\ \/ o.at = "sent" /\ stored.certs
          /\ Advance(o, stored, IF TlsEnabled(stored) THEN "done" ELSE "half")
       \/ o.at = "half" /\ Advance(o, [stored EXCEPT !.pref = "on"], "done")

HandleDisable(o) ==
    /\ o.kind = "disable" /\ o.at = "sent"
    /\ Advance(o, [stored EXCEPT !.pref = "off"], "done")

\* Mutant: the files go, TLS stays demanded.
DeleteFilesOnly(o) ==
    /\ o.kind = "delete"
    /\ o.at = "sent" /\ Advance(o, [stored EXCEPT !.certs = FALSE], "done")

(* DeleteCerts: disabled if enabled, then the files go *)
HandleDelete(o) ==
    /\ o.kind = "delete"
    /\ \/ o.at = "sent"
          /\ Advance(o, IF TlsEnabled(stored) THEN [stored EXCEPT !.pref = "off"] ELSE stored,
                     "half")
       \/ o.at = "half" /\ Advance(o, [stored EXCEPT !.certs = FALSE], "done")

(* Another administrator: of the certificates with a request of its own,   *)
(* else at once.  It overlaps what is under way here.                      *)
OtherSetting ==
    IF part = "tls"
    THEN /\ \E k \in Kinds : SendSetting(k, NoData, NoData, FALSE)
         /\ UNCHANGED <<stored, stQuery, stUnsure, formVars, stVisitVars>>
    ELSE /\ stIssued < stPlan.ops
         /\ stIssued' = stIssued + 1
         /\ stored' \in Stores \ (IF part = "pool" THEN PoolRefused ELSE {})
         /\ stUnsure' = NotTold(0)
         /\ overlap' = (overlap \/ stOps # {})
         /\ UNCHANGED <<stQuery, stOps, formVars, stVisitVars>>

---------------------------------------------------------------------------
(* Answers. *)

(* useEffect on the cached object: the form is filled when the data become *)
(* another object                                                          *)
Fill(q) ==
    /\ form' = q.data /\ original' = q.data
    /\ edited' = FALSE /\ editedLate' = FALSE
    /\ UNCHANGED panel

FillIfNew(q) ==
    IF stMounted /\ part \in {"pool", "retention"} /\ q.data # stQuery.data
    THEN Fill(q)
    ELSE UNCHANGED formVars

SucceedToggle(o) ==
    /\ o.kind = "toggle" /\ o.at = "done"
    /\ stOps' = stOps \ {o} /\ stUnsure' = Told(o)
    /\ stQuery' = Invalidate(stQuery, stMounted)
    /\ UNCHANGED <<stored, stIssued, overlap, formVars, stVisitVars>>

\* Mutant: what was shown is put back, and the list not asked for.
FailToggleQuietly(o) ==
    /\ o.kind = "toggle"
    /\ stOps' = stOps \ {o} /\ stUnsure' = Told(o)
    /\ stQuery' = SetData(stQuery, o.before)
    /\ UNCHANGED <<stored, stIssued, overlap, formVars, stVisitVars>>

(* onError puts back what was shown, onSettled asks for the list anew *)
FailToggle(o) ==
    /\ o.kind = "toggle"
    /\ stOps' = stOps \ {o} /\ stUnsure' = Told(o)
    /\ stQuery' = Invalidate(SetData(stQuery, o.before), stMounted)
    /\ UNCHANGED <<stored, stIssued, overlap, formVars, stVisitVars>>

(* The configuration that was sent comes back and goes into the cache *)
SucceedPool(o) ==
    /\ part = "pool" /\ o.at = "done"
    /\ stOps' = stOps \ {o} /\ stUnsure' = Told(o)
    /\ stQuery' = SetData(stQuery, o.value)
    /\ FillIfNew(stQuery')
    /\ UNCHANGED <<stored, stIssued, overlap, stVisitVars>>

(* The callback takes what the form holds by now for what was saved *)
SucceedRetention(o) ==
    /\ part = "retention" /\ o.at = "done"
    /\ stOps' = stOps \ {o} /\ stUnsure' = Told(o)
    /\ stQuery' = Invalidate(stQuery, stMounted)
    /\ original' = IF o.live THEN form ELSE original
    /\ UNCHANGED <<stored, stIssued, overlap, form, edited, editedLate, panel, stVisitVars>>

SucceedTls(o) ==
    /\ part = "tls" /\ o.at = "done" /\ o.own
    /\ stOps' = stOps \ {o} /\ stUnsure' = Told(o)
    /\ stQuery' = Invalidate(stQuery, stMounted)
    /\ panel' = IF o.live /\ panel = o.kind THEN "" ELSE panel
    /\ UNCHANGED <<stored, stIssued, overlap, form, original, edited, editedLate, stVisitVars>>

\* Mutant: the form counts as saved.
FailTakesForm(o) ==
    /\ o.kind # "toggle"
    /\ stOps' = stOps \ {o}
    /\ original' = IF o.live THEN form ELSE original
    /\ UNCHANGED <<stored, stQuery, stIssued, stUnsure, overlap, form, edited, editedLate, panel,
                   stVisitVars>>

(* Refused, broken off on the way, or done with the answer lost or given   *)
(* to someone else.  What was begun on the server stays begun.             *)
FailSetting(o) ==
    /\ o.kind # "toggle"
    /\ stOps' = stOps \ {o}
    /\ UNCHANGED <<stored, stQuery, stIssued, stUnsure, overlap, formVars, stVisitVars>>

ReadSettings ==
    /\ stQuery.fetch = "sent"
    /\ stQuery' = Read(stQuery, View(stored))
    /\ stUnsure' = [stUnsure EXCEPT !.answer = {}]
    /\ UNCHANGED <<stored, stOps, stIssued, overlap, formVars, stVisitVars>>

(* GET /settings answers every setting: the object is another one as well  *)
(* if only others changed                                                  *)
SettingsArrive ==
    /\ stQuery.fetch = "read"
    /\ stQuery' = Arrive(stQuery)
    /\ stUnsure' = [stUnsure EXCEPT !.shown = stUnsure.answer]
    /\ \/ FillIfNew(stQuery')
       \/ part = "retention" /\ stMounted /\ Fill(stQuery')
    /\ UNCHANGED <<stored, stOps, stIssued, overlap, stVisitVars>>

SettingsFail ==
    /\ stQuery.fetch # "idle"
    /\ stQuery' = FetchFails(stQuery)
    /\ UNCHANGED <<stored, stOps, stIssued, stUnsure, overlap, formVars, stVisitVars>>

FocusSettings ==
    /\ stMounted /\ stQuery.fetch = "idle"
    /\ stQuery' = Observe(Age(stQuery))
    /\ UNCHANGED <<stored, stOps, stIssued, stUnsure, overlap, formVars, stVisitVars>>

LeaveSettings ==
    /\ stMounted
    /\ stMounted' = FALSE
    /\ stOps' = {[o EXCEPT !.live = FALSE] : o \in stOps}
    /\ form' = DefaultForm /\ original' = DefaultForm
    /\ edited' = FALSE /\ editedLate' = FALSE /\ panel' = ""
    /\ UNCHANGED <<stPlan, stored, stQuery, stIssued, stUnsure, overlap, stVisits>>

(* The forms take the cached answer if there is one *)
EnterSettings ==
    /\ ~stMounted /\ stVisits < stPlan.visits
    /\ stMounted' = TRUE
    /\ stVisits' = stVisits + 1
    /\ stQuery' = Observe(stQuery)
    /\ IF part \in {"pool", "retention"} /\ stQuery.data # NoData
       THEN Fill(stQuery)
       ELSE UNCHANGED formVars
    /\ UNCHANGED <<stPlan, stored, stOps, stIssued, stUnsure, overlap>>

SettingsInit ==
    /\ stPlan \in SettingsPlans
    /\ stored \in CASE part = "access"    -> {[d \in PooledDbs |-> TRUE]}
                    [] part = "pool"      -> PoolChoices \ PoolRefused
                    [] part = "retention" -> DayChoices
                    [] part = "tls"       -> {s \in TlsStates : s.pref = "on" => s.certs}
    /\ stQuery = Unasked
    /\ stOps = {} /\ stIssued = 0 /\ overlap = FALSE
    /\ stUnsure = [k \in {"ever", "shown", "answer"} |-> {}]
    /\ stMounted = FALSE /\ stVisits = 0
    /\ form = DefaultForm /\ original = DefaultForm
    /\ edited = FALSE /\ editedLate = FALSE /\ panel = ""

SettingsNext ==
    \/ EnterSettings \/ LeaveSettings \/ FocusSettings
    \/ \E d \in PooledDbs : ToggleDbAccess(d)
    \/ \E v \in Forms : EditForm(v)
    \/ SaveForm
    \/ \E k \in {"generate", "upload"} : OpenPanel(k)
    \/ ClosePanel
    \/ \E k \in Kinds : ChangeTls(k)
    \/ OtherSetting
    \/ \E o \in stOps : \/ HandleToggle(o) \/ HandleSave(o)
                        \/ HandleNewCerts(o) \/ HandleEnable(o) \/ HandleDisable(o)
                        \/ HandleDelete(o)
                        \/ SucceedToggle(o) \/ FailToggle(o) \/ SucceedPool(o)
                        \/ SucceedRetention(o) \/ SucceedTls(o) \/ FailSetting(o)
    \/ ReadSettings \/ SettingsArrive \/ SettingsFail

SettingsSpec == SettingsInit /\ [][SettingsNext]_stVars

---------------------------------------------------------------------------
(* With no request on its way, what the page takes for up to date is what  *)
(* the server holds: after a switch that was moved at once, also if its    *)
(* request failed, with or without effect, and was put back while another  *)
(* switch of a later visit was on its way; after a saved form whose answer *)
(* went into the cache.  Excepted are a change nobody told the page of,    *)
(* someone else's or one whose answer was lost (a switch is not, it always *)
(* asks anew), until the page has read anew after it; a list that was on   *)
(* its way when the cache was written or the change answered, and not      *)
(* asked for anew (overtaken); and for the pool's form, which does not ask *)
(* anew, saves that overlapped.                                            *)
SettingsInSync ==
    Fresh(stQuery) /\ ~stQuery.overtaken /\ stOps = {} /\ stUnsure.shown = {}
    /\ (part = "pool" => ~overlap) => stQuery.data = View(stored)

(* Save is offered for what the admin typed, not for what an answer left   *)
(* behind in the form                                                      *)
SaveOffersEdits ==
    stMounted /\ part = "pool" /\ HasChanges => edited

(* With Save greyed out the form shows the days the server was last known  *)
(* to hold, if it was not edited during a save, saves did not overlap, no  *)
(* answer of an applied one was lost and nobody else ever changed it       *)
RetentionShown ==
    /\ stMounted /\ part = "retention" /\ ~HasChanges
    /\ Fresh(stQuery) /\ ~stQuery.overtaken /\ stOps = {} /\ stUnsure.ever = {}
    /\ ~editedLate /\ ~overlap
    => form = stQuery.data

(* TLS is never demanded without certificates, wherever a handler stopped, *)
(* as long as the requests come one after the other                        *)
ActiveHasCerts ==
    part = "tls" /\ ~overlap => (stored.pref = "on" => stored.certs)
=============================================================================
