--------------------------- MODULE ClientAdminProofs ---------------------------
(***************************************************************************)
(* Theorems about SettingsPage, for any pooled databases, configurations,  *)
(* numbers of days, requests and visits, and about ClientAdmin, which is   *)
(* made of the session and the three pages that administer.                *)
(***************************************************************************)
EXTENDS ClientAdmin, ClientSessionProofs, UsersPageProofs, DatabasesPageProofs,
        QueryCacheProofs

\* What the four parts store, answer and are asked for.
LEMMA PartFacts ==
    ASSUME stPlan \in SettingsPlans
    PROVE  /\ part \in {"access", "pool", "retention", "tls"}
           /\ stPlan.ops \in Nat /\ stPlan.visits \in Nat
           /\ part = "access" => Stores = [PooledDbs -> BOOLEAN] /\ Kinds = {"toggle"}
           /\ part = "pool" => Stores = PoolChoices /\ Kinds = {"save"} /\ Forms = PoolChoices
           /\ part = "retention" => Stores = DayChoices /\ Kinds = {"save"} /\ Forms = DayChoices
           /\ part = "tls" => /\ Stores = TlsStates
                              /\ Kinds = {"generate", "upload", "enable", "disable", "delete"}
  <1>1. /\ part \in {"access", "pool", "retention", "tls"}
        /\ stPlan.ops \in Nat /\ stPlan.visits \in Nat
    BY SettingsPlansAssumption DEF part
  <1> QED  BY <1>1 DEF Stores, Kinds, Forms

LEMMA ViewFacts ==
    /\ \A s \in Stores : View(s) \in Views
    /\ part # "tls" => Views = Stores /\ \A s \in Stores : View(s) = s
  BY DEF Views, View

\* What the plan decides stays.
LEMMA PlanKept ==
    ASSUME [SettingsNext]_stVars
    PROVE  stPlan' = stPlan
  BY DEF SettingsNext, stVars, stVisitVars, EnterSettings, LeaveSettings, FocusSettings,
         ToggleDbAccess, EditForm, SaveForm, OpenPanel, ClosePanel, ChangeTls, OtherSetting,
         HandleToggle, HandleSave, HandleNewCerts, HandleEnable, HandleDisable, HandleDelete,
         Advance, SucceedToggle, FailToggle, SucceedPool, SucceedRetention, SucceedTls,
         FailSetting, ReadSettings, SettingsArrive, SettingsFail

LEMMA SetsKept ==
    ASSUME stPlan' = stPlan
    PROVE  /\ part' = part /\ Stores' = Stores /\ Kinds' = Kinds /\ Forms' = Forms
           /\ Views' = Views /\ StRequests' = StRequests /\ Unanswered' = Unanswered
           /\ \A s \in Stores : View(s)' = View(s)
  BY DEF part, Stores, Kinds, Forms, Views, View, StRequests, Unanswered

\* What is noted of a change, and forgotten once it was answered.
LEMMA UnansweredFacts ==
    ASSUME stUnsure \in Unanswered
    PROVE  /\ \A i \in 0..stPlan.ops :
                 /\ NotTold(i) \in Unanswered
                 /\ NotTold(i).ever # {} /\ NotTold(i).shown # {} /\ NotTold(i).answer # {}
           /\ \A o : Told(o) \in Unanswered /\ Told(o).ever = stUnsure.ever \ {o.id}
           /\ [stUnsure EXCEPT !.answer = {}] \in Unanswered
           /\ [stUnsure EXCEPT !.shown = stUnsure.answer] \in Unanswered
  <1>1. DOMAIN stUnsure = {"ever", "shown", "answer"}
    BY DEF Unanswered
  <1> QED  BY <1>1 DEF Unanswered, NotTold, Told

-----------------------------------------------------------------------------
(* Types.  A request carries what the part it came from stores, and an     *)
(* answer that is on its way was read from the server.                     *)

QueryTypes ==
    /\ stQuery \in Entries(Views)
    /\ stQuery.fetch = "read" => stQuery.answer \in Views

ServerTypes ==
    /\ stored \in Stores
    /\ stOps \subseteq StRequests
    /\ \A o \in stOps : /\ o.kind = "save" => o.value \in Stores
                        /\ o.kind = "toggle" => o.value \in BOOLEAN /\ o.db \in PooledDbs
                        /\ o.at = "half" => part = "tls"
    /\ stIssued \in 0..stPlan.ops
    /\ stUnsure \in Unanswered
    /\ overlap \in BOOLEAN

FormTypes ==
    /\ stMounted \in BOOLEAN
    /\ stVisits \in 0..stPlan.visits
    /\ form \in Forms /\ original \in Forms
    /\ edited \in BOOLEAN /\ editedLate \in BOOLEAN
    /\ panel \in {"", "generate", "upload"}

SettingsTypes == stPlan \in SettingsPlans /\ QueryTypes /\ ServerTypes /\ FormTypes

LEMMA TypesSuffice == SettingsTypes => SettingsTypeOK
  BY DEF SettingsTypes, QueryTypes, ServerTypes, FormTypes, SettingsTypeOK, StRequests

\* The operations of the cache keep the types of the entry.
LEMMA CacheTyped ==
    ASSUME NEW D, NEW q \in Entries(D), q.fetch = "read" => q.answer \in D,
           NEW r, \/ r = Send(q) \/ r = Observe(q) \/ r = Observe(Age(q))
                  \/ \E shown \in BOOLEAN : r = Invalidate(q, shown)
                  \/ \E d \in D : r = Read(q, d)
                  \/ q.fetch = "read" /\ r = Arrive(q)
                  \/ r = FetchFails(q) \/ r = Cancel(q)
                  \/ \E d \in D \cup {NoData} : r = SetData(q, d)
    PROVE  r \in Entries(D) /\ (r.fetch = "read" => r.answer \in D)
  <1>1. CASE r = Send(q) \/ r = Observe(q) \/ r = Observe(Age(q))
    BY <1>1, ZenonT(60) DEF Send, Observe, Age, Entries
  <1>2. CASE \E shown \in BOOLEAN : r = Invalidate(q, shown)
    <2>1. PICK shown \in BOOLEAN : r = Invalidate(q, shown)
      BY <1>2
    <2>2. r \in Entries(D)
      BY <2>1, InvalidateVouched DEF Vouched
    <2> DEFINE s == [q EXCEPT !.stale = TRUE]
    <2>3. s \in Entries(D) /\ s.fetch = q.fetch /\ s.answer = q.answer
      BY DEF Entries
    <2>4. r = Send(s) \/ r = [s EXCEPT !.overtaken = q.fetch # "idle"]
      BY <2>1 DEF Invalidate
    <2> HIDE DEF s
    <2>5. r.fetch = "sent" \/ (r.fetch = q.fetch /\ r.answer = q.answer)
      BY <2>3, <2>4 DEF Send, Entries
    <2> QED  BY <2>2, <2>5
  <1>3. CASE \E d \in D : r = Read(q, d)
    BY <1>3 DEF Read, Entries
  <1>4. CASE q.fetch = "read" /\ r = Arrive(q)
    BY <1>4 DEF Arrive, Entries
  <1>5. CASE r = FetchFails(q) \/ r = Cancel(q)
    BY <1>5 DEF FetchFails, Cancel, Entries
  <1>6. CASE \E d \in D \cup {NoData} : r = SetData(q, d)
    BY <1>6 DEF SetData, Entries
  <1> QED  BY <1>1, <1>2, <1>3, <1>4, <1>5, <1>6

LEMMA QueryTypesStep ==
    ASSUME SettingsTypes, [SettingsNext]_stVars
    PROVE  QueryTypes'
  <1>0. /\ stQuery \in Entries(Views) /\ (stQuery.fetch = "read" => stQuery.answer \in Views)
        /\ stMounted \in BOOLEAN /\ stPlan \in SettingsPlans
    BY DEF SettingsTypes, QueryTypes, FormTypes
  <1>s. Views' = Views
    BY PlanKept, SetsKept
  <1>1. CASE UNCHANGED stQuery
    BY <1>0, <1>1, <1>s DEF QueryTypes
  <1>2. CASE EnterSettings \/ FocusSettings \/ ReadSettings \/ SettingsArrive \/ SettingsFail
    <2>1. View(stored) \in Views
      BY ViewFacts DEF SettingsTypes, ServerTypes
    <2>2. \/ stQuery' = Observe(stQuery) \/ stQuery' = Observe(Age(stQuery))
          \/ stQuery' = Read(stQuery, View(stored))
          \/ stQuery.fetch = "read" /\ stQuery' = Arrive(stQuery)
          \/ stQuery' = FetchFails(stQuery)
      BY <1>2 DEF EnterSettings, FocusSettings, ReadSettings, SettingsArrive, SettingsFail
    <2> QED  BY <1>0, <1>s, <2>1, <2>2, CacheTyped DEF QueryTypes
  <1>3. ASSUME NEW o \in stOps, SucceedToggle(o) \/ SucceedRetention(o) \/ SucceedTls(o)
        PROVE  QueryTypes'
    <2>1. stQuery' = Invalidate(stQuery, stMounted)
      BY <1>3 DEF SucceedToggle, SucceedRetention, SucceedTls
    <2> QED  BY <1>0, <1>s, <2>1, CacheTyped DEF QueryTypes
  <1>4. ASSUME NEW o \in stOps, FailToggle(o)
        PROVE  QueryTypes'
    <2>1. o.before \in Views \cup {NoData}
      BY DEF SettingsTypes, ServerTypes, StRequests
    <2> DEFINE q == SetData(stQuery, o.before)
    <2>2. q \in Entries(Views) /\ (q.fetch = "read" => q.answer \in Views)
      BY <1>0, <2>1, CacheTyped
    <2>3. stQuery' = Invalidate(q, stMounted)
      BY <1>4 DEF FailToggle
    <2> HIDE DEF q
    <2> QED  BY <1>0, <1>s, <2>2, <2>3, CacheTyped DEF QueryTypes
  <1>5. ASSUME NEW o \in stOps, SucceedPool(o)
        PROVE  QueryTypes'
    <2>1. o.kind \in Kinds
      BY DEF SettingsTypes, ServerTypes, StRequests
    <2>2. part = "pool" /\ o.value \in Stores
      BY <1>0, <1>5, <2>1, PartFacts DEF SucceedPool, SettingsTypes, ServerTypes
    <2>3. o.value \in Views
      BY <2>2, ViewFacts
    <2> QED  BY <1>0, <1>5, <1>s, <2>3, CacheTyped DEF SucceedPool, QueryTypes
  <1>6. ASSUME NEW d \in PooledDbs, ToggleDbAccess(d)
        PROVE  QueryTypes'
    <2>1. Views = [PooledDbs -> BOOLEAN]
      BY <1>0, <1>6, PartFacts, ViewFacts DEF ToggleDbAccess
    <2>2. stQuery.data \in [PooledDbs -> BOOLEAN]
      BY <1>0, <1>6, <2>1 DEF ToggleDbAccess, Entries
    <2>3. [stQuery.data EXCEPT ![d] = ~@] \in Views
      BY <2>1, <2>2
    <2> DEFINE q == Cancel(stQuery)
    <2>4. q \in Entries(Views) /\ (q.fetch = "read" => q.answer \in Views)
      BY <1>0, CacheTyped
    <2>5. stQuery' = SetData(q, [stQuery.data EXCEPT ![d] = ~@])
      BY <1>6 DEF ToggleDbAccess
    <2> HIDE DEF q
    <2> QED  BY <1>s, <2>3, <2>4, <2>5, CacheTyped DEF QueryTypes
  <1>7. \/ UNCHANGED stQuery
        \/ EnterSettings \/ FocusSettings \/ ReadSettings \/ SettingsArrive \/ SettingsFail
        \/ \E d \in PooledDbs : ToggleDbAccess(d)
        \/ \E o \in stOps : \/ SucceedToggle(o) \/ SucceedRetention(o) \/ SucceedTls(o)
                            \/ FailToggle(o) \/ SucceedPool(o)
    BY DEF SettingsNext, stVars, LeaveSettings, EditForm, SaveForm, OpenPanel, ClosePanel,
           ChangeTls, OtherSetting, HandleToggle, HandleSave, HandleNewCerts, HandleEnable,
           HandleDisable, HandleDelete, Advance, FailSetting
  <1> QED  BY <1>1, <1>2, <1>3, <1>4, <1>5, <1>6, <1>7

LEMMA SendTypedSetting ==
    ASSUME SettingsTypes, NEW k \in Kinds, NEW d \in PooledDbs \cup {NoData},
           NEW v \in Stores \cup BOOLEAN \cup {NoData}, NEW isLive \in BOOLEAN,
           SendSetting(k, d, v, isLive),
           k = "save" => v \in Stores, k = "toggle" => v \in BOOLEAN /\ d \in PooledDbs,
           UNCHANGED <<stPlan, stored, stUnsure>>
    PROVE  ServerTypes'
  <1> DEFINE n == [kind |-> k, db |-> d, value |-> v, before |-> stQuery.data,
                   id |-> stIssued + 1, own |-> isLive, live |-> isLive, at |-> "sent"]
  <1>1. stPlan.ops \in Nat
    BY PartFacts DEF SettingsTypes
  <1>2. stIssued + 1 \in 1..stPlan.ops /\ stIssued' \in 0..stPlan.ops
    BY <1>1 DEF SettingsTypes, ServerTypes, SendSetting
  <1>3. stQuery.data \in Views \cup {NoData}
    BY DEF SettingsTypes, QueryTypes, Entries
  <1>4. n \in StRequests
    BY <1>2, <1>3 DEF StRequests
  <1>5. n.kind = k /\ n.value = v /\ n.db = d /\ n.at = "sent" /\ stOps' = stOps \cup {n}
    BY DEF SendSetting
  <1>6. (overlap \/ stOps # {}) \in BOOLEAN
    BY DEF SettingsTypes, ServerTypes
  <1>7. overlap' \in BOOLEAN
    BY <1>6 DEF SendSetting
  <1> HIDE DEF n
  <1>8. stOps' \subseteq StRequests
    BY <1>4, <1>5 DEF SettingsTypes, ServerTypes
  <1>9. \A o \in stOps' : /\ o.kind = "save" => o.value \in Stores
                          /\ o.kind = "toggle" => o.value \in BOOLEAN /\ o.db \in PooledDbs
                          /\ o.at = "half" => part = "tls"
    BY <1>5 DEF SettingsTypes, ServerTypes
  <1> QED  BY <1>2, <1>7, <1>8, <1>9, SetsKept DEF SettingsTypes, ServerTypes

\* A handler moves its request on and may change what is stored.
LEMMA AdvanceTyped ==
    ASSUME SettingsTypes, NEW o \in stOps, NEW s \in Stores, NEW at \in {"half", "done"},
           at = "half" => part = "tls", Advance(o, s, at)
    PROVE  ServerTypes'
  <1> DEFINE n == [o EXCEPT !.at = at]
  <1>1. o \in StRequests /\ o.id \in 0..stPlan.ops
    <2>1. stPlan.ops \in Nat /\ o \in StRequests
      BY PartFacts DEF SettingsTypes, ServerTypes
    <2> QED  BY <2>1 DEF StRequests
  <1>2. n \in StRequests /\ n.kind = o.kind /\ n.value = o.value /\ n.db = o.db /\ n.at = at
    BY <1>1 DEF StRequests
  <1>3. /\ stOps' = (stOps \ {o}) \cup {n} /\ stored' = s /\ stUnsure' = NotTold(o.id)
        /\ UNCHANGED <<stIssued, overlap, stPlan>>
    BY DEF Advance, stVisitVars
  <1>6. stUnsure' \in Unanswered
    BY <1>1, <1>3, UnansweredFacts DEF SettingsTypes, ServerTypes
  <1> HIDE DEF n
  <1>4. stOps' \subseteq StRequests
    BY <1>2, <1>3 DEF SettingsTypes, ServerTypes
  <1>5. \A p \in stOps' : /\ p.kind = "save" => p.value \in Stores
                          /\ p.kind = "toggle" => p.value \in BOOLEAN /\ p.db \in PooledDbs
                          /\ p.at = "half" => part = "tls"
    BY <1>2, <1>3 DEF SettingsTypes, ServerTypes
  <1> QED  BY <1>3, <1>4, <1>5, <1>6, SetsKept DEF SettingsTypes, ServerTypes

\* What the handlers make of the store.
LEMMA HandledStores ==
    ASSUME SettingsTypes, NEW o \in stOps,
           \/ HandleToggle(o) \/ HandleSave(o) \/ HandleNewCerts(o) \/ HandleEnable(o)
           \/ HandleDisable(o) \/ HandleDelete(o)
    PROVE  \E s \in Stores, at \in {"half", "done"} :
              (at = "half" => part = "tls") /\ Advance(o, s, at)
  <1>0. /\ o.kind \in Kinds /\ stored \in Stores /\ stPlan \in SettingsPlans
        /\ o.kind = "save" => o.value \in Stores
        /\ o.kind = "toggle" => o.value \in BOOLEAN /\ o.db \in PooledDbs
    BY DEF SettingsTypes, ServerTypes, StRequests
  <1>1. CASE HandleToggle(o)
    <2>1. part = "access" /\ Stores = [PooledDbs -> BOOLEAN]
      BY <1>0, <1>1, PartFacts DEF HandleToggle
    <2>2. [stored EXCEPT ![o.db] = o.value] \in Stores
      BY <1>0, <1>1, <2>1 DEF HandleToggle
    <2> QED  BY <1>1, <2>2 DEF HandleToggle
  <1>2. CASE HandleSave(o)
    BY <1>0, <1>2 DEF HandleSave
  <1>3. CASE HandleNewCerts(o) \/ HandleEnable(o) \/ HandleDisable(o) \/ HandleDelete(o)
    <2>1. o.kind \in {"generate", "upload", "enable", "disable", "delete"}
      BY <1>3 DEF HandleNewCerts, HandleEnable, HandleDisable, HandleDelete
    <2>2. part = "tls" /\ Stores = TlsStates
      BY <1>0, <2>1, PartFacts
    <2>3. /\ [stored EXCEPT !.certs = TRUE] \in Stores /\ [stored EXCEPT !.certs = FALSE] \in Stores
          /\ [stored EXCEPT !.pref = "on"] \in Stores /\ [stored EXCEPT !.pref = "off"] \in Stores
      BY <1>0, <2>2 DEF TlsStates
    <2>4. CASE HandleNewCerts(o)
      BY <2>2, <2>3, <2>4 DEF HandleNewCerts
    <2>5. CASE HandleEnable(o)
      BY <1>0, <2>2, <2>3, <2>5 DEF HandleEnable
    <2>6. CASE HandleDisable(o)
      BY <2>2, <2>3, <2>6 DEF HandleDisable
    <2>7. CASE HandleDelete(o)
      BY <1>0, <2>2, <2>3, <2>7 DEF HandleDelete
    <2> QED  BY <1>3, <2>4, <2>5, <2>6, <2>7
  <1> QED
    BY <1>1, <1>2, <1>3

LEMMA ServerTypesStep ==
    ASSUME SettingsTypes, [SettingsNext]_stVars
    PROVE  ServerTypes'
  <1>0. /\ ServerTypes /\ FormTypes /\ stPlan \in SettingsPlans /\ stPlan' = stPlan
        /\ stPlan.ops \in Nat
    BY PlanKept, PartFacts DEF SettingsTypes
  <1>s. /\ part' = part /\ Stores' = Stores /\ StRequests' = StRequests
        /\ Unanswered' = Unanswered
    BY <1>0, SetsKept
  <1>u. /\ stUnsure \in Unanswered /\ \A o : Told(o) \in Unanswered
        /\ [stUnsure EXCEPT !.answer = {}] \in Unanswered
        /\ [stUnsure EXCEPT !.shown = stUnsure.answer] \in Unanswered
    BY <1>0, UnansweredFacts DEF ServerTypes
  <1>1. ASSUME stOps' \subseteq stOps, stUnsure' \in Unanswered,
               UNCHANGED <<stored, stIssued, overlap>>
        PROVE  ServerTypes'
    BY <1>0, <1>1, <1>s DEF ServerTypes
  <1>2. CASE LeaveSettings
    <2>1. \A o \in stOps : /\ [o EXCEPT !.live = FALSE] \in StRequests
                           /\ [o EXCEPT !.live = FALSE].kind = o.kind
                           /\ [o EXCEPT !.live = FALSE].value = o.value
                           /\ [o EXCEPT !.live = FALSE].db = o.db
                           /\ [o EXCEPT !.live = FALSE].at = o.at
      BY <1>0 DEF ServerTypes, StRequests
    <2>2. /\ stOps' = {[o EXCEPT !.live = FALSE] : o \in stOps}
          /\ UNCHANGED <<stored, stIssued, stUnsure, overlap>>
      BY <1>2 DEF LeaveSettings
    <2>3. stOps' \subseteq StRequests
      BY <2>1, <2>2
    <2>4. \A p \in stOps' : /\ p.kind = "save" => p.value \in Stores
                            /\ p.kind = "toggle" => p.value \in BOOLEAN /\ p.db \in PooledDbs
                            /\ p.at = "half" => part = "tls"
      <3>1. TAKE p \in stOps'
      <3>2. PICK o \in stOps : p = [o EXCEPT !.live = FALSE]
        BY <2>2
      <3> QED  BY <1>0, <2>1, <3>2 DEF ServerTypes
    <2> QED  BY <1>0, <1>s, <2>2, <2>3, <2>4 DEF ServerTypes
  <1>3. ASSUME NEW d \in PooledDbs, ToggleDbAccess(d)
        PROVE  ServerTypes'
    <2>1. part = "access" /\ stQuery.data # NoData /\ Kinds = {"toggle"}
      BY <1>0, <1>3, PartFacts DEF ToggleDbAccess
    <2>2. stQuery.data \in [PooledDbs -> BOOLEAN]
      <3>1. stQuery.data \in Views
        BY <2>1 DEF SettingsTypes, QueryTypes, Entries
      <3> QED  BY <1>0, <2>1, <3>1, PartFacts, ViewFacts
    <2>3. (~stQuery.data[d]) \in BOOLEAN
      BY <2>2
    <2> QED
      BY <1>0, <1>3, <2>1, <2>3, SendTypedSetting DEF ToggleDbAccess, stVisitVars
  <1>4. CASE SaveForm
    <2>1. Kinds = {"save"} /\ form \in Stores
      BY <1>0, <1>4, PartFacts DEF SaveForm, FormTypes
    <2> QED  BY <1>0, <1>4, <2>1, SendTypedSetting DEF SaveForm, stVisitVars
  <1>5. ASSUME NEW k \in Kinds, part = "tls", NEW isLive \in BOOLEAN,
               SendSetting(k, NoData, NoData, isLive), UNCHANGED <<stored, stUnsure>>
        PROVE  ServerTypes'
    <2>1. k # "save" /\ k # "toggle"
      BY <1>0, <1>5, PartFacts
    <2> QED  BY <1>0, <1>5, <2>1, SendTypedSetting
  <1>6. CASE OtherSetting /\ part # "tls"
    <2>1. /\ stored' \in Stores /\ UNCHANGED stOps
          /\ stIssued < stPlan.ops /\ stIssued' = stIssued + 1
          /\ stUnsure' = NotTold(0) /\ overlap' = (overlap \/ stOps # {})
      BY <1>6 DEF OtherSetting
    <2>2. stIssued' \in 0..stPlan.ops
      BY <1>0, <2>1 DEF ServerTypes
    <2>3. stUnsure' \in Unanswered
      BY <1>0, <1>u, <2>1, UnansweredFacts
    <2>4. overlap' \in BOOLEAN
      BY <1>0, <2>1 DEF ServerTypes
    <2> QED  BY <1>0, <1>s, <2>1, <2>2, <2>3, <2>4 DEF ServerTypes
  <1>7. ASSUME NEW o \in stOps,
               \/ HandleToggle(o) \/ HandleSave(o) \/ HandleNewCerts(o) \/ HandleEnable(o)
               \/ HandleDisable(o) \/ HandleDelete(o)
        PROVE  ServerTypes'
    BY <1>7, HandledStores, AdvanceTyped
  <1>8. ASSUME NEW o \in stOps,
               \/ SucceedToggle(o) \/ FailToggle(o) \/ SucceedPool(o) \/ SucceedRetention(o)
               \/ SucceedTls(o) \/ FailSetting(o)
        PROVE  ServerTypes'
    BY <1>1, <1>8, <1>u
    DEF SucceedToggle, FailToggle, SucceedPool, SucceedRetention, SucceedTls, FailSetting
  <1>9. CASE \/ EnterSettings \/ FocusSettings \/ (\E v \in Forms : EditForm(v))
             \/ (\E k \in {"generate", "upload"} : OpenPanel(k)) \/ ClosePanel
             \/ ReadSettings \/ SettingsArrive \/ SettingsFail \/ UNCHANGED stVars
    BY <1>1, <1>9, <1>u
    DEF EnterSettings, FocusSettings, EditForm, OpenPanel, ClosePanel, ReadSettings,
        SettingsArrive, SettingsFail, stVars
  <1>10. ASSUME NEW k \in Kinds, ChangeTls(k)
         PROVE  ServerTypes'
    BY <1>5, <1>10 DEF ChangeTls
  <1>11. CASE OtherSetting /\ part = "tls"
    BY <1>5, <1>11 DEF OtherSetting
  <1> QED
    BY <1>2, <1>3, <1>4, <1>6, <1>7, <1>8, <1>9, <1>10, <1>11 DEF SettingsNext

LEMMA FormTypesStep ==
    ASSUME SettingsTypes, [SettingsNext]_stVars
    PROVE  FormTypes'
  <1> USE DEF stVisitVars, formVars
  <1>0. /\ FormTypes /\ stPlan \in SettingsPlans /\ stPlan' = stPlan
        /\ stPlan.visits \in Nat /\ Forms' = Forms /\ stQuery \in Entries(Views)
    BY PlanKept, SetsKept, PartFacts DEF SettingsTypes, QueryTypes
  <1>1. CASE UNCHANGED <<stMounted, stVisits, formVars>>
    BY <1>0, <1>1 DEF FormTypes
  <1>2. ASSUME NEW q, q.data \in Forms, Fill(q), UNCHANGED <<stMounted, stVisits>>
        PROVE  FormTypes'
    BY <1>0, <1>2 DEF Fill, FormTypes
  <1>3. ASSUME part \in {"pool", "retention"}, NEW d \in Views
        PROVE  d \in Forms
    BY <1>0, <1>3, PartFacts, ViewFacts
  <1>4. CASE EnterSettings
    <2>1. stVisits' \in 0..stPlan.visits /\ stMounted' \in BOOLEAN
      <3>1. stMounted' = TRUE /\ stVisits < stPlan.visits /\ stVisits' = stVisits + 1
        BY <1>4 DEF EnterSettings
      <3>2. stVisits \in 0..stPlan.visits /\ stPlan.visits \in Nat
        BY <1>0 DEF FormTypes
      <3>3. stVisits' \in 0..stPlan.visits
        BY <3>1, <3>2
      <3> QED  BY <3>1, <3>3
    <2>2. CASE part \in {"pool", "retention"} /\ stQuery.data # NoData
      <3>1. stQuery.data \in Forms /\ Fill(stQuery)
        BY <1>0, <1>3, <1>4, <2>2 DEF EnterSettings, Entries
      <3> QED  BY <1>0, <2>1, <3>1 DEF Fill, FormTypes
    <2>3. CASE ~(part \in {"pool", "retention"} /\ stQuery.data # NoData)
      BY <1>0, <1>4, <2>1, <2>3 DEF EnterSettings, FormTypes
    <2> QED  BY <2>2, <2>3
  <1>5. CASE LeaveSettings
    <2>1. DefaultForm \in Forms
      BY <1>0, PoolAssumption, DaysAssumption DEF DefaultForm, Forms
    <2> QED  BY <1>0, <1>5, <2>1 DEF LeaveSettings, FormTypes
  <1>6. ASSUME NEW v \in Forms, EditForm(v)
        PROVE  FormTypes'
    <2>1. (editedLate \/ StPending("save")) \in BOOLEAN
      BY <1>0 DEF FormTypes, StPending
    <2> QED  BY <1>0, <1>6, <2>1 DEF EditForm, FormTypes
  <1>7. ASSUME NEW k \in {"generate", "upload"}, OpenPanel(k)
        PROVE  FormTypes'
    BY <1>0, <1>7 DEF OpenPanel, FormTypes
  <1>8. CASE ClosePanel
    BY <1>0, <1>8 DEF ClosePanel, FormTypes
  <1>9. ASSUME NEW o \in stOps, SucceedPool(o)
        PROVE  FormTypes'
    <2>1. o.kind \in Kinds
      BY DEF SettingsTypes, ServerTypes, StRequests
    <2>2. part = "pool" /\ o.value \in Stores
      BY <1>0, <1>9, <2>1, PartFacts DEF SucceedPool, SettingsTypes, ServerTypes
    <2>3. o.value \in Views
      BY <2>2, ViewFacts
    <2>4. stQuery'.data = o.value
      BY <1>0, <1>9 DEF SucceedPool, SetData, Entries
    <2>5. stQuery'.data \in Forms
      BY <1>3, <2>2, <2>3, <2>4
    <2> QED  BY <1>1, <1>2, <1>9, <2>5 DEF SucceedPool, FillIfNew
  <1>10. ASSUME NEW o \in stOps, SucceedRetention(o)
         PROVE  FormTypes'
    BY <1>0, <1>10 DEF SucceedRetention, FormTypes
  <1>11. ASSUME NEW o \in stOps, SucceedTls(o)
         PROVE  FormTypes'
    <2>1. panel' \in {"", panel}
      BY <1>11, Zenon DEF SucceedTls
    <2> QED  BY <1>0, <1>11, <2>1 DEF SucceedTls, FormTypes
  <1>12. CASE SettingsArrive
    <2>1. stQuery'.data \in Views
      BY <1>12 DEF SettingsArrive, Arrive, Entries, SettingsTypes, QueryTypes
    <2>2. part \in {"pool", "retention"} => stQuery'.data \in Forms
      BY <1>3, <2>1
    <2> QED  BY <1>1, <1>2, <1>12, <2>2 DEF SettingsArrive, FillIfNew
  <1>13. \/ UNCHANGED <<stMounted, stVisits, formVars>>
         \/ EnterSettings \/ LeaveSettings \/ ClosePanel \/ SettingsArrive
         \/ \E v \in Forms : EditForm(v)
         \/ \E k \in {"generate", "upload"} : OpenPanel(k)
         \/ \E o \in stOps : SucceedPool(o) \/ SucceedRetention(o) \/ SucceedTls(o)
    BY ZenonT(60) DEF SettingsNext, stVars, FocusSettings, ToggleDbAccess, SaveForm, ChangeTls,
           OtherSetting, HandleToggle, HandleSave, HandleNewCerts, HandleEnable,
           HandleDisable, HandleDelete, Advance, SucceedToggle, FailToggle, FailSetting,
           ReadSettings, SettingsFail
  <1> QED
    BY <1>1, <1>4, <1>5, <1>6, <1>7, <1>8, <1>9, <1>10, <1>11, <1>12, <1>13

LEMMA SettingsTypesInit == SettingsInit => SettingsTypes
  <1> SUFFICES ASSUME SettingsInit PROVE SettingsTypes
    OBVIOUS
  <1>1. stPlan \in SettingsPlans /\ stPlan.ops \in Nat /\ stPlan.visits \in Nat
    BY PartFacts DEF SettingsInit
  <1>2. stored \in Stores
    BY <1>1, PartFacts DEF SettingsInit, TlsStates
  <1>3. QueryTypes
    BY UnaskedVouched DEF SettingsInit, QueryTypes, Unasked
  <1>4. DefaultForm \in Forms
    BY <1>1, PoolAssumption, DaysAssumption DEF DefaultForm, Forms
  <1>5. FormTypes
    <2>1. /\ stMounted = FALSE /\ stVisits = 0 /\ form = DefaultForm /\ original = DefaultForm
          /\ edited = FALSE /\ editedLate = FALSE /\ panel = ""
      BY DEF SettingsInit
    <2>2. stVisits \in 0..stPlan.visits
      <3>1. stVisits = 0
        BY DEF SettingsInit
      <3> QED  BY <1>1, <3>1
    <2> QED  BY <1>4, <2>1, <2>2 DEF FormTypes
  <1>6. ServerTypes
    <2>1. stOps = {} /\ stIssued = 0 /\ overlap = FALSE
      BY DEF SettingsInit
    <2>2. stIssued \in 0..stPlan.ops /\ stUnsure \in Unanswered
      <3>1. stIssued \in 0..stPlan.ops
        BY <1>1, <2>1
      <3>2. stUnsure \in Unanswered
        BY DEF SettingsInit, Unanswered
      <3> QED  BY <3>1, <3>2
    <2> QED  BY <1>2, <2>1, <2>2 DEF ServerTypes
  <1> QED  BY <1>1, <1>3, <1>5, <1>6 DEF SettingsTypes

LEMMA SettingsTypesStep ==
    ASSUME SettingsTypes, [SettingsNext]_stVars
    PROVE  SettingsTypes'
  BY PlanKept, QueryTypesStep, ServerTypesStep, FormTypesStep DEF SettingsTypes

\* Whichever part is used, what is stored, cached, typed and asked for has
\* its type.
THEOREM SettingsTypeCorrect == SettingsSpec => []SettingsTypeOK
  BY SettingsTypesInit, SettingsTypesStep, TypesSuffice, PTL DEF SettingsSpec

-----------------------------------------------------------------------------
(* As long as the requests come one after the other, one is under way at a *)
(* time; the value of a save that was handled is the one that is stored;   *)
(* and wherever a handler of the certificates stopped, TLS is not demanded *)
(* without them.                                                           *)

OneUnderWay == \A o1, o2 \in stOps : o1 = o2

SavedIsStored ==
    part \in {"pool", "retention"} =>
        \A o \in stOps : o.at = "done" => stored = o.value

CertsHold ==
    part = "tls" =>
        /\ stored.pref = "on" => stored.certs
        /\ \A o \in stOps : o.at = "half" =>
              /\ o.kind \in {"generate", "upload", "enable"} => stored.certs
              /\ o.kind = "delete" => stored.pref # "on"

SerialInv == ~overlap => OneUnderWay /\ SavedIsStored /\ CertsHold

LEMMA SerialKept ==
    ASSUME SerialInv, stOps' \subseteq stOps, UNCHANGED <<stPlan, stored, overlap>>
    PROVE  SerialInv'
  BY DEF SerialInv, OneUnderWay, SavedIsStored, CertsHold, part

LEMMA SerialSent ==
    ASSUME SettingsTypes, SerialInv, NEW k, NEW d, NEW v, NEW isLive, SendSetting(k, d, v, isLive),
           UNCHANGED <<stPlan, stored, stUnsure>>
    PROVE  SerialInv'
  <1>1. SUFFICES ASSUME ~overlap'
                 PROVE  (OneUnderWay /\ SavedIsStored /\ CertsHold)'
    BY DEF SerialInv
  <1> DEFINE n == [kind |-> k, db |-> d, value |-> v, before |-> stQuery.data,
                   id |-> stIssued + 1, own |-> isLive, live |-> isLive, at |-> "sent"]
  <1>2. ~overlap /\ stOps' = {n} /\ n.at = "sent"
    BY <1>1 DEF SendSetting
  <1> HIDE DEF n
  <1> QED  BY <1>2 DEF SerialInv, OneUnderWay, SavedIsStored, CertsHold, part

\* The one request goes on.
LEMMA SerialAdvanced ==
    ASSUME SettingsTypes, SerialInv, NEW o \in stOps, NEW s, NEW at \in {"half", "done"},
           Advance(o, s, at), ~overlap,
           part \in {"pool", "retention"} => s = o.value,
           part = "tls" => /\ s.pref = "on" => s.certs
                           /\ at = "half" => /\ o.kind \in {"generate", "upload", "enable"}
                                                  => s.certs
                                             /\ o.kind = "delete" => s.pref # "on"
    PROVE  SerialInv'
  <1> DEFINE n == [o EXCEPT !.at = at]
  <1>1. n.kind = o.kind /\ n.value = o.value /\ n.at = at
    BY DEF SettingsTypes, ServerTypes, StRequests
  <1>2. stOps' = {n} /\ stored' = s /\ part' = part
    BY DEF Advance, SerialInv, OneUnderWay, stVisitVars, part
  <1> HIDE DEF n
  <1> QED  BY <1>1, <1>2 DEF SerialInv, OneUnderWay, SavedIsStored, CertsHold

LEMMA SerialHandled ==
    ASSUME SettingsTypes, SerialInv, NEW o \in stOps,
           \/ HandleToggle(o) \/ HandleSave(o) \/ HandleNewCerts(o) \/ HandleEnable(o)
           \/ HandleDisable(o) \/ HandleDelete(o)
    PROVE  SerialInv'
  <1>0. /\ o.kind \in Kinds /\ stored \in Stores /\ stPlan \in SettingsPlans
    BY DEF SettingsTypes, ServerTypes, StRequests
  <1>1. CASE overlap
    BY <1>1
    DEF SerialInv, HandleToggle, HandleSave, HandleNewCerts, HandleEnable, HandleDisable,
        HandleDelete, Advance
  <1>2. ASSUME ~overlap, HandleToggle(o)
        PROVE  SerialInv'
    BY <1>0, <1>2, PartFacts, SerialAdvanced DEF HandleToggle
  <1>3. ASSUME ~overlap, HandleSave(o)
        PROVE  SerialInv'
    BY <1>0, <1>3, PartFacts, SerialAdvanced DEF HandleSave
  <1>4. ASSUME ~overlap, o.kind \in {"generate", "upload", "enable", "disable", "delete"},
               HandleNewCerts(o) \/ HandleEnable(o) \/ HandleDisable(o) \/ HandleDelete(o)
        PROVE  SerialInv'
    <2>1. part = "tls" /\ stored \in TlsStates
      BY <1>0, <1>4, PartFacts
    <2>2. /\ stored.pref = "on" => stored.certs
          /\ o.at = "half" => /\ o.kind \in {"generate", "upload", "enable"} => stored.certs
                              /\ o.kind = "delete" => stored.pref # "on"
      BY <1>4, <2>1 DEF SerialInv, CertsHold
    <2>3. CASE HandleNewCerts(o)
      BY <1>4, <2>1, <2>2, <2>3, SerialAdvanced DEF HandleNewCerts, TlsStates
    <2>4. CASE HandleEnable(o)
      BY <1>4, <2>1, <2>2, <2>4, SerialAdvanced DEF HandleEnable, TlsStates
    <2>5. CASE HandleDisable(o)
      BY <1>4, <2>1, <2>2, <2>5, SerialAdvanced DEF HandleDisable, TlsStates
    <2>6. CASE HandleDelete(o)
      BY <1>4, <2>1, <2>2, <2>6, SerialAdvanced DEF HandleDelete, TlsStates, TlsEnabled
    <2> QED  BY <1>4, <2>3, <2>4, <2>5, <2>6
  <1> QED
    BY <1>1, <1>2, <1>3, <1>4 DEF HandleNewCerts, HandleEnable, HandleDisable, HandleDelete

LEMMA SerialStep ==
    ASSUME SettingsTypes, SerialInv, [SettingsNext]_stVars
    PROVE  SerialInv'
  <1>0. /\ stPlan' = stPlan /\ part' = part /\ stPlan \in SettingsPlans
        /\ stOps \subseteq StRequests
    BY PlanKept DEF SettingsTypes, ServerTypes, part
  <1>1. CASE \/ EnterSettings \/ FocusSettings \/ (\E v \in Forms : EditForm(v))
             \/ (\E k \in {"generate", "upload"} : OpenPanel(k)) \/ ClosePanel
             \/ ReadSettings \/ SettingsArrive \/ SettingsFail \/ UNCHANGED stVars
    <2>1. UNCHANGED <<stOps, stored, overlap>>
      BY <1>1
      DEF EnterSettings, FocusSettings, EditForm, OpenPanel, ClosePanel, ReadSettings,
          SettingsArrive, SettingsFail, stVars
    <2> QED  BY <1>0, <2>1, SerialKept
  <1>2. CASE LeaveSettings
    <2>1. \A o \in stOps : /\ [o EXCEPT !.live = FALSE].kind = o.kind
                           /\ [o EXCEPT !.live = FALSE].value = o.value
                           /\ [o EXCEPT !.live = FALSE].id = o.id
                           /\ [o EXCEPT !.live = FALSE].at = o.at
      BY <1>0 DEF StRequests
    <2>2. /\ stOps' = {[o EXCEPT !.live = FALSE] : o \in stOps}
          /\ UNCHANGED <<stored, stUnsure, overlap>>
      BY <1>2 DEF LeaveSettings
    <2>3. OneUnderWay => OneUnderWay'
      BY <2>2 DEF OneUnderWay
    <2>4. \A p \in stOps' : \E o \in stOps : /\ p.kind = o.kind /\ p.value = o.value
                                               /\ p.id = o.id /\ p.at = o.at
      BY <2>1, <2>2, ZenonT(60)
    <2>5. SavedIsStored => SavedIsStored'
      BY <1>0, <2>2, <2>4 DEF SavedIsStored
    <2>6. CertsHold => CertsHold'
      BY <1>0, <2>2, <2>4 DEF CertsHold
    <2> QED  BY <2>2, <2>3, <2>5, <2>6 DEF SerialInv
  <1>3. ASSUME NEW d \in PooledDbs, ToggleDbAccess(d)
        PROVE  SerialInv'
    BY <1>0, <1>3, SerialSent DEF ToggleDbAccess
  <1>4. CASE SaveForm
    BY <1>0, <1>4, SerialSent DEF SaveForm
  <1>5. ASSUME NEW k \in Kinds, ChangeTls(k)
        PROVE  SerialInv'
    BY <1>0, <1>5, SerialSent DEF ChangeTls
  <1>6. CASE OtherSetting
    <2>1. CASE part = "tls"
      BY <1>0, <1>6, <2>1, SerialSent DEF OtherSetting
    <2>2. CASE part # "tls"
      <3>1. UNCHANGED stOps /\ overlap' = (overlap \/ stOps # {})
        BY <1>6, <2>2 DEF OtherSetting
      <3> QED
        BY <1>0, <2>2, <3>1 DEF SerialInv, OneUnderWay, SavedIsStored, CertsHold
    <2> QED  BY <2>1, <2>2
  <1>7. ASSUME NEW o \in stOps, FailToggle(o) \/ FailSetting(o)
        PROVE  SerialInv'
    BY <1>0, <1>7, SerialKept DEF FailToggle, FailSetting
  <1>8. ASSUME NEW o \in stOps,
               SucceedToggle(o) \/ SucceedPool(o) \/ SucceedRetention(o) \/ SucceedTls(o)
        PROVE  SerialInv'
    <2>1. stOps' = stOps \ {o} /\ UNCHANGED <<stored, overlap>>
      BY <1>8 DEF SucceedToggle, SucceedPool, SucceedRetention, SucceedTls
    <2> QED  BY <1>0, <2>1, SerialKept
  <1> QED
    BY <1>1, <1>2, <1>3, <1>4, <1>5, <1>6, <1>7, <1>8, SerialHandled DEF SettingsNext

LEMMA SerialInit == SettingsInit => SerialInv
  <1> SUFFICES ASSUME SettingsInit PROVE SerialInv
    OBVIOUS
  <1>1. stOps = {}
    BY DEF SettingsInit
  <1>2. part = "tls" => (stored.pref = "on" => stored.certs)
    BY DEF SettingsInit
  <1> QED  BY <1>1, <1>2 DEF SerialInv, OneUnderWay, SavedIsStored, CertsHold

SettingsInv == SettingsTypes /\ SerialInv

LEMMA SettingsInvInit == SettingsInit => SettingsInv
  BY SettingsTypesInit, SerialInit DEF SettingsInv

LEMMA SettingsInvStep ==
    ASSUME SettingsInv, [SettingsNext]_stVars
    PROVE  SettingsInv'
  BY SettingsTypesStep, SerialStep DEF SettingsInv

\* The server never demands TLS without a certificate, at whatever point a
\* handler was broken off, as long as no two requests are under way at once.
THEOREM CertsKept == SettingsSpec => []ActiveHasCerts
  <1>1. SettingsInv => ActiveHasCerts
    BY DEF SettingsInv, SerialInv, CertsHold, ActiveHasCerts
  <1> QED  BY <1>1, SettingsInvInit, SettingsInvStep, PTL DEF SettingsSpec

-----------------------------------------------------------------------------
(* What the page takes for up to date.  A switch shows its new position    *)
(* before the server knows it, so nothing is vouched for until its answer  *)
(* or failure made the list be asked for anew; of the pool's form the      *)
(* answer itself is written into the cache, which is right if no other     *)
(* request was under way.  What is shown may lack the changes made since   *)
(* it was read, and so may the answer that is on its way.                  *)

AnswersCount == (part = "access" => stOps = {}) /\ (part = "pool" => ~overlap)

ShownRight == Fresh(stQuery) /\ stUnsure.shown = {} => stQuery.data = View(stored)

AnswerRight ==
    stQuery.fetch = "read" /\ stUnsure.answer = {} => stQuery.answer = View(stored)

SettingsVouch == AnswersCount /\ ~stQuery.overtaken => ShownRight /\ AnswerRight

LEMMA ViewKept ==
    ASSUME UNCHANGED <<stPlan, stored>>
    PROVE  View(stored)' = View(stored)
  BY DEF View, part

LEMMA VouchKept ==
    ASSUME SettingsVouch, UNCHANGED <<stPlan, stored, stQuery, stUnsure>>,
           AnswersCount' => AnswersCount
    PROVE  SettingsVouch'
  BY ViewKept DEF SettingsVouch, ShownRight, AnswerRight, Fresh

\* A list that is asked for anew, or overtaken, needs no more.
LEMMA VouchAnew ==
    ASSUME NEW q \in Entries(Views), SettingsTypes,
           stQuery' = Invalidate(q, stMounted)
    PROVE  SettingsVouch'
  <1>1. stMounted \in BOOLEAN
    BY DEF SettingsTypes, FormTypes
  <1>2. Vouched(Invalidate(q, stMounted), {View(stored)'})
    BY <1>1, InvalidateVouched
  <1> QED  BY <1>2 DEF SettingsVouch, ShownRight, AnswerRight, Vouched, Fresh

\* Observing, aging and a failing request leave what is shown, or mark it.
LEMMA VouchObserved ==
    ASSUME SettingsTypes, SettingsVouch, UNCHANGED <<stPlan, stored, stUnsure>>,
           AnswersCount' => AnswersCount,
           stQuery' \in {Observe(stQuery), Observe(Age(stQuery)), FetchFails(stQuery)}
    PROVE  SettingsVouch'
  <1>0. stQuery \in Entries(Views)
    BY DEF SettingsTypes, QueryTypes
  <1>1. \/ stQuery' = stQuery
        \/ stQuery'.fetch = "sent"
        \/ stQuery'.stale /\ stQuery'.fetch = stQuery.fetch
           /\ stQuery'.answer = stQuery.answer /\ stQuery'.overtaken = stQuery.overtaken
        \/ stQuery'.stale /\ stQuery'.fetch = "idle"
    <2>1. CASE stQuery' = Observe(stQuery)
      BY <1>0, <2>1 DEF Observe, Send, Entries
    <2>2. CASE stQuery' = FetchFails(stQuery)
      BY <1>0, <2>2 DEF FetchFails, Entries
    <2>3. CASE stQuery' = Observe(Age(stQuery))
      <3> DEFINE q == Age(stQuery)
      <3>1. q \in Entries(Views) /\ q.stale /\ q.fetch = stQuery.fetch
            /\ q.answer = stQuery.answer /\ q.overtaken = stQuery.overtaken
        BY <1>0 DEF Age, Entries
      <3>2. stQuery' = Observe(q)
        BY <2>3
      <3> HIDE DEF q
      <3>3. stQuery' = q \/ stQuery'.fetch = "sent"
        BY <3>1, <3>2 DEF Observe, Send, Entries
      <3> QED  BY <3>1, <3>3
    <2> QED  BY <2>1, <2>2, <2>3
  <1>2. View(stored)' = View(stored)
    BY ViewKept
  <1> QED  BY <1>1, <1>2 DEF SettingsVouch, ShownRight, AnswerRight, Fresh

LEMMA SettingsVouchStep ==
    ASSUME SettingsTypes, SerialInv, SettingsVouch, [SettingsNext]_stVars
    PROVE  SettingsVouch'
  <1>0. /\ stPlan' = stPlan /\ part' = part /\ stPlan \in SettingsPlans
        /\ stOps \subseteq StRequests /\ stQuery \in Entries(Views)
        /\ stored \in Stores /\ View(stored) \in Views
        /\ stUnsure \in Unanswered /\ stPlan.ops \in Nat
    BY PlanKept, ViewFacts, PartFacts DEF SettingsTypes, ServerTypes, QueryTypes, part
  <1>1. CASE \/ (\E v \in Forms : EditForm(v)) \/ UNCHANGED stVars
             \/ (\E k \in {"generate", "upload"} : OpenPanel(k)) \/ ClosePanel
    <2>1. UNCHANGED <<stQuery, stOps, stUnsure, stored, overlap>>
      BY <1>1 DEF EditForm, OpenPanel, ClosePanel, stVars
    <2> QED  BY <1>0, <2>1, VouchKept DEF AnswersCount
  <1>2. CASE EnterSettings \/ FocusSettings \/ SettingsFail
    <2>1. /\ UNCHANGED <<stOps, stUnsure, stored, overlap>>
          /\ stQuery' \in {Observe(stQuery), Observe(Age(stQuery)), FetchFails(stQuery)}
      BY <1>2 DEF EnterSettings, FocusSettings, SettingsFail
    <2> QED  BY <1>0, <2>1, VouchObserved DEF AnswersCount
  <1>3. CASE ReadSettings
    <2>1. /\ UNCHANGED <<stOps, stored, overlap>> /\ stQuery.fetch = "sent"
          /\ stQuery'.answer = View(stored) /\ stQuery'.fetch = "read"
          /\ stQuery'.overtaken = stQuery.overtaken
      BY <1>0, <1>3 DEF ReadSettings, Read, Entries
    <2>2. View(stored)' = View(stored)
      BY <1>0, <2>1, ViewKept
    <2> QED
      BY <1>0, <2>1, <2>2 DEF SettingsVouch, ShownRight, AnswerRight, AnswersCount, Fresh
  <1>4. CASE SettingsArrive
    <2>1. /\ UNCHANGED <<stOps, stored, overlap>> /\ stQuery.fetch = "read"
          /\ stQuery'.data = stQuery.answer /\ stQuery'.fetch = "idle"
          /\ stQuery'.overtaken = stQuery.overtaken
      BY <1>0, <1>4 DEF SettingsArrive, Arrive, Entries
    <2>2. stUnsure'.shown = stUnsure.answer
      BY <1>0, <1>4 DEF SettingsArrive, Unanswered
    <2>3. View(stored)' = View(stored)
      BY <1>0, <2>1, ViewKept
    <2> QED
      BY <1>0, <2>1, <2>2, <2>3
      DEF SettingsVouch, ShownRight, AnswerRight, AnswersCount, Fresh
  <1>5. CASE LeaveSettings
    <2>1. UNCHANGED <<stQuery, stUnsure, stored, overlap>> /\ (stOps' = {} => stOps = {})
      BY <1>5 DEF LeaveSettings
    <2> QED  BY <1>0, <2>1, VouchKept DEF AnswersCount
  <1>6. ASSUME NEW d \in PooledDbs, ToggleDbAccess(d)
        PROVE  SettingsVouch'
    <2>1. part = "access" /\ stOps' # {}
      BY <1>6 DEF ToggleDbAccess, SendSetting
    <2> QED  BY <1>0, <2>1 DEF SettingsVouch, AnswersCount
  <1>7. ASSUME NEW k, NEW d, NEW v, NEW isLive, SendSetting(k, d, v, isLive), part # "access",
               UNCHANGED <<stored, stQuery, stUnsure>>
        PROVE  SettingsVouch'
    <2>1. ~overlap' => ~overlap
      BY <1>7 DEF SendSetting
    <2> QED  BY <1>0, <1>7, <2>1, VouchKept DEF AnswersCount
  <1>8. CASE SaveForm
    BY <1>7, <1>8 DEF SaveForm
  <1>9. ASSUME NEW k \in Kinds, ChangeTls(k)
        PROVE  SettingsVouch'
    BY <1>7, <1>9 DEF ChangeTls
  <1>10. ASSUME NEW i \in 0..stPlan.ops, stUnsure' = NotTold(i)
         PROVE  SettingsVouch'
    BY <1>0, <1>10, UnansweredFacts DEF SettingsVouch, ShownRight, AnswerRight
  <1>11. CASE OtherSetting
    <2>1. CASE part = "tls"
      BY <1>7, <1>11, <2>1 DEF OtherSetting
    <2>2. CASE part # "tls"
      <3>1. stUnsure' = NotTold(0) /\ 0 \in 0..stPlan.ops
        BY <1>0, <1>11, <2>2 DEF OtherSetting
      <3> QED  BY <1>10, <3>1
    <2> QED  BY <2>1, <2>2
  <1>12. ASSUME NEW o \in stOps,
                \/ HandleToggle(o) \/ HandleSave(o) \/ HandleNewCerts(o) \/ HandleEnable(o)
                \/ HandleDisable(o) \/ HandleDelete(o)
         PROVE  SettingsVouch'
    <2>1. \E s \in Stores, at \in {"half", "done"} : Advance(o, s, at)
      BY <1>12, HandledStores
    <2>2. stUnsure' = NotTold(o.id)
      BY <2>1 DEF Advance
    <2>3. o.id \in 0..stPlan.ops
      BY <1>0 DEF StRequests
    <2> QED  BY <1>10, <2>2, <2>3
  <1>13. ASSUME NEW o \in stOps, SucceedToggle(o) \/ SucceedRetention(o) \/ SucceedTls(o)
         PROVE  SettingsVouch'
    BY <1>0, <1>13, VouchAnew DEF SucceedToggle, SucceedRetention, SucceedTls
  <1>14. ASSUME NEW o \in stOps, FailToggle(o)
         PROVE  SettingsVouch'
    <2>1. o.before \in Views \cup {NoData}
      BY <1>0 DEF StRequests
    <2>2. SetData(stQuery, o.before) \in Entries(Views)
      BY <1>0, <2>1 DEF SetData, Entries
    <2> QED  BY <1>14, <2>2, VouchAnew DEF FailToggle
  <1>15. ASSUME NEW o \in stOps, SucceedPool(o)
         PROVE  SettingsVouch'
    <2>1. SUFFICES ASSUME AnswersCount', ~stQuery'.overtaken
                   PROVE  (ShownRight /\ AnswerRight)'
      BY DEF SettingsVouch
    <2>2. part = "pool" /\ ~overlap /\ o.at = "done"
      BY <1>0, <1>15, <2>1 DEF SucceedPool, AnswersCount
    <2>3. stored = o.value
      BY <2>2 DEF SerialInv, SavedIsStored
    <2>4. View(stored)' = o.value
      BY <1>0, <1>15, <2>2, <2>3 DEF SucceedPool, View
    <2>5. /\ stQuery'.data = o.value /\ stQuery'.fetch = stQuery.fetch
          /\ stQuery'.overtaken = (stQuery.fetch # "idle")
      BY <1>0, <1>15 DEF SucceedPool, SetData, Entries
    <2> QED  BY <2>1, <2>4, <2>5 DEF ShownRight, AnswerRight
  <1>16. ASSUME NEW o \in stOps, FailSetting(o)
         PROVE  SettingsVouch'
    <2>1. o.kind # "toggle" /\ o.kind \in Kinds
      BY <1>0, <1>16 DEF FailSetting, StRequests
    <2>2. part # "access"
      BY <1>0, <2>1, PartFacts
    <2> QED  BY <1>0, <1>16, <2>2, VouchKept DEF FailSetting, AnswersCount
  <1> QED
    BY <1>1, <1>2, <1>3, <1>4, <1>5, <1>6, <1>8, <1>9, <1>11, <1>12, <1>13, <1>14, <1>15,
       <1>16
    DEF SettingsNext

LEMMA SettingsVouchInit == SettingsInit => SettingsVouch
  <1> SUFFICES ASSUME SettingsInit PROVE SettingsVouch
    OBVIOUS
  <1>1. stQuery = Unasked
    BY DEF SettingsInit
  <1>2. stQuery.data = NoData /\ stQuery.fetch = "idle"
    BY <1>1 DEF Unasked
  <1>3. ~Fresh(stQuery) /\ stQuery.fetch # "read"
    BY <1>2 DEF Fresh
  <1> QED  BY <1>3 DEF SettingsVouch, ShownRight, AnswerRight

\* With no request on its way, what the page takes for up to date is what the
\* server holds, also after a switch whose request failed; except for changes
\* nobody told the page of, made since it read what it shows, for a list on
\* its way at an answer and not asked for anew and, in the pool's form, for
\* saves that overlapped.
THEOREM SettingsListed == SettingsSpec => []SettingsInSync
  <1> DEFINE IInv == SettingsInv /\ SettingsVouch
  <1>1. SettingsInit => IInv
    BY SettingsVouchInit, SettingsInvInit
  <1>2. IInv /\ [SettingsNext]_stVars => IInv'
    BY SettingsInvStep, SettingsVouchStep DEF SettingsInv
  <1>3. IInv => SettingsInSync
    BY DEF SettingsInSync, SettingsVouch, ShownRight, AnswersCount
  <1> QED  BY <1>1, <1>2, <1>3, PTL DEF SettingsSpec

-----------------------------------------------------------------------------
(* The form of the pool *)

\* Only an answer or the page itself changes the data of an entry.
LEMMA DataKept ==
    ASSUME NEW D, NEW q \in Entries(D), NEW d, NEW shown
    PROVE  /\ Observe(q).data = q.data /\ Observe(Age(q)).data = q.data
           /\ Read(q, d).data = q.data /\ FetchFails(q).data = q.data
           /\ Invalidate(q, shown).data = q.data
  <1> DEFINE s == [q EXCEPT !.stale = TRUE]
  <1>1. s \in Entries(D) /\ s.data = q.data
    BY DEF Entries
  <1>2. Invalidate(q, shown) \in {Send(s), [s EXCEPT !.overtaken = q.fetch # "idle"]}
    BY Zenon DEF Invalidate
  <1> HIDE DEF s
  <1>3. Send(s).data = s.data /\ [s EXCEPT !.overtaken = q.fetch # "idle"].data = s.data
    BY <1>1 DEF Send, Entries
  <1>4. Invalidate(q, shown).data = q.data
    BY <1>1, <1>2, <1>3
  <1> QED  BY <1>4 DEF Observe, Age, Send, Read, FetchFails, Entries

LEMMA SaveOffersEditsStep ==
    ASSUME SettingsTypes, SaveOffersEdits, [SettingsNext]_stVars
    PROVE  SaveOffersEdits'
  <1> USE DEF HasChanges, PoolChanged, formVars, stVisitVars
  <1>0. /\ part' = part /\ stQuery \in Entries(Views) /\ stPlan \in SettingsPlans
        /\ stOps \subseteq StRequests
    BY PlanKept DEF SettingsTypes, QueryTypes, ServerTypes, part
  <1>1. SUFFICES ASSUME part = "pool"
                 PROVE  SaveOffersEdits'
    BY <1>0 DEF SaveOffersEdits
  <1>2. Kinds = {"save"} /\ \A o \in stOps : o.kind = "save"
    BY <1>0, <1>1, PartFacts DEF StRequests
  <1>3. CASE UNCHANGED <<formVars, stMounted>> /\ stQuery'.data = stQuery.data
    BY <1>0, <1>3 DEF SaveOffersEdits
  <1>4. CASE EnterSettings
    <2>1. stQuery'.data = stQuery.data
      BY <1>0, <1>4, DataKept DEF EnterSettings
    <2>2. stQuery.data # NoData => form' = stQuery.data
      BY <1>1, <1>4 DEF EnterSettings, Fill
    <2> QED  BY <2>1, <2>2 DEF SaveOffersEdits
  <1>5. CASE LeaveSettings
    BY <1>5 DEF LeaveSettings, SaveOffersEdits
  <1>6. ASSUME NEW v \in Forms, EditForm(v)
        PROVE  SaveOffersEdits'
    BY <1>6 DEF EditForm, SaveOffersEdits
  <1>7. ASSUME FillIfNew(stQuery'), UNCHANGED stMounted
        PROVE  SaveOffersEdits'
    BY <1>0, <1>1, <1>7 DEF FillIfNew, Fill, SaveOffersEdits
  <1>8. CASE SettingsArrive
    BY <1>1, <1>7, <1>8 DEF SettingsArrive
  <1>9. ASSUME NEW o \in stOps, SucceedPool(o)
        PROVE  SaveOffersEdits'
    BY <1>7, <1>9 DEF SucceedPool
  <1>10. CASE FocusSettings \/ ReadSettings \/ SettingsFail
    BY <1>0, <1>3, <1>10, DataKept DEF FocusSettings, ReadSettings, SettingsFail
  <1>11. \/ UNCHANGED <<formVars, stMounted, stQuery>>
         \/ EnterSettings \/ LeaveSettings \/ SettingsArrive
         \/ FocusSettings \/ ReadSettings \/ SettingsFail
         \/ \E v \in Forms : EditForm(v)
         \/ \E o \in stOps : SucceedPool(o)
    BY <1>1, <1>2, ZenonT(60)
    DEF SettingsNext, stVars, ToggleDbAccess, SaveForm, OpenPanel, ClosePanel, ChangeTls,
        OtherSetting, HandleToggle, HandleSave, HandleNewCerts, HandleEnable, HandleDisable,
        HandleDelete, Advance, SucceedToggle, FailToggle, SucceedRetention, SucceedTls,
        FailSetting
  <1> QED
    BY <1>3, <1>4, <1>5, <1>6, <1>8, <1>9, <1>10, <1>11

\* The pool's form offers Save only for what the admin typed: no answer, in
\* whatever order it arrives, leaves the form and the cache apart.
THEOREM SaveOffered == SettingsSpec => []SaveOffersEdits
  <1> DEFINE IInv == SettingsTypes /\ SaveOffersEdits
  <1>1. SettingsInit => IInv
    BY SettingsTypesInit DEF SettingsInit, SaveOffersEdits
  <1>2. IInv /\ [SettingsNext]_stVars => IInv'
    BY SettingsTypesStep, SaveOffersEditsStep
  <1> QED  BY <1>1, <1>2, PTL DEF SettingsSpec

-----------------------------------------------------------------------------
(* The form of the days.  What it takes for the stored value is what the   *)
(* cache holds or, until the answer that was asked for anew, what a save   *)
(* just stored.  A save that this visit sent finds in the form the days it *)
(* carries or an answer that filled the form meanwhile; one of an earlier  *)
(* visit has no callback left, and the form is as it was filled.           *)

OriginalKnown == stUnsure.ever = {} => original \in {stQuery.data, stored}

SaveFindsForm ==
    \A o \in stOps : /\ o.live => form \in {o.value, stQuery.data}
                     /\ ~o.live => original = stQuery.data

RetentionInv ==
    part = "retention" /\ ~overlap /\ stMounted /\ ~editedLate /\ stQuery.data # NoData
    => OriginalKnown /\ SaveFindsForm

\* A form that was just filled is what the cache holds.
LEMMA RetentionFilled ==
    ASSUME Fill(stQuery')
    PROVE  RetentionInv'
  BY DEF Fill, RetentionInv, OriginalKnown, SaveFindsForm

LEMMA RetentionKept ==
    ASSUME RetentionInv, UNCHANGED <<stPlan, stored, overlap, formVars, stMounted>>,
           stOps' \subseteq stOps, stUnsure'.ever = stUnsure.ever,
           stQuery'.data = stQuery.data
    PROVE  RetentionInv'
  BY DEF RetentionInv, OriginalKnown, SaveFindsForm, formVars, part

\* What was changed lately was changed at some time.
RecentInEver ==
    stUnsure.shown \subseteq stUnsure.ever /\ stUnsure.answer \subseteq stUnsure.ever

LEMMA RecentInEverStep ==
    ASSUME SettingsTypes, RecentInEver, [SettingsNext]_stVars
    PROVE  RecentInEver'
  <1>1. stUnsure \in Unanswered
    BY DEF SettingsTypes, ServerTypes
  <1>2. \/ UNCHANGED stUnsure
        \/ stUnsure' = NotTold(0)
        \/ \E o \in stOps : stUnsure' = NotTold(o.id) \/ stUnsure' = Told(o)
        \/ stUnsure' = [stUnsure EXCEPT !.answer = {}]
        \/ stUnsure' = [stUnsure EXCEPT !.shown = stUnsure.answer]
    BY ZenonT(60)
    DEF SettingsNext, stVars, EnterSettings, LeaveSettings, FocusSettings, ToggleDbAccess,
        EditForm, SaveForm, OpenPanel, ClosePanel, ChangeTls, OtherSetting, HandleToggle,
        HandleSave, HandleNewCerts, HandleEnable, HandleDisable, HandleDelete, Advance,
        SucceedToggle, FailToggle, SucceedPool, SucceedRetention, SucceedTls, FailSetting,
        ReadSettings, SettingsArrive, SettingsFail
  <1> QED  BY <1>1, <1>2 DEF RecentInEver, Unanswered, NotTold, Told

LEMMA RetentionStep ==
    ASSUME SettingsTypes, SerialInv, RetentionInv, [SettingsNext]_stVars
    PROVE  RetentionInv'
  <1> USE DEF formVars, stVisitVars
  <1>0. /\ stPlan' = stPlan /\ part' = part /\ stQuery \in Entries(Views)
        /\ stPlan \in SettingsPlans /\ stOps \subseteq StRequests
        /\ overlap \in BOOLEAN /\ editedLate \in BOOLEAN
        /\ stUnsure \in Unanswered /\ stPlan.ops \in Nat
    BY PlanKept, PartFacts DEF SettingsTypes, QueryTypes, ServerTypes, FormTypes, part
  <1>1. SUFFICES ASSUME part = "retention"
                 PROVE  RetentionInv'
    BY <1>0 DEF RetentionInv
  <1>2. Kinds = {"save"} /\ \A o \in stOps : o.kind = "save"
    BY <1>0, <1>1, PartFacts DEF StRequests
  <1>3. CASE EnterSettings
    <2>1. stQuery'.data = stQuery.data
      BY <1>0, <1>3, DataKept DEF EnterSettings
    <2>2. CASE stQuery.data # NoData
      <3>1. form' = stQuery.data /\ original' = stQuery.data
        BY <1>1, <1>3, <2>2 DEF EnterSettings, Fill
      <3> QED  BY <2>1, <3>1 DEF RetentionInv, OriginalKnown, SaveFindsForm
    <2>3. CASE stQuery.data = NoData
      BY <2>1, <2>3 DEF RetentionInv
    <2> QED  BY <2>2, <2>3
  <1>4. CASE LeaveSettings
    BY <1>4 DEF LeaveSettings, RetentionInv
  <1>5. ASSUME NEW v \in Forms, EditForm(v)
        PROVE  RetentionInv'
    <2>1. SUFFICES ASSUME ~editedLate'
                   PROVE  RetentionInv'
      BY DEF RetentionInv
    <2>2. ~editedLate /\ \A o \in stOps : ~o.live
      BY <1>2, <1>5, <2>1 DEF EditForm, StPending
    <2>3. UNCHANGED <<stored, stQuery, stOps, stUnsure, overlap, stMounted, original>>
      BY <1>5 DEF EditForm
    <2> QED  BY <1>0, <2>2, <2>3 DEF RetentionInv, OriginalKnown, SaveFindsForm
  <1>6. CASE SaveForm
    <2>1. SUFFICES ASSUME ~overlap'
                   PROVE  RetentionInv'
      BY DEF RetentionInv
    <2> DEFINE n == [kind |-> "save", db |-> NoData, value |-> form, before |-> stQuery.data,
                     id |-> stIssued + 1, own |-> TRUE, live |-> TRUE, at |-> "sent"]
    <2>2. ~overlap /\ stOps' = {n} /\ n.live /\ n.value = form
      BY <1>6, <2>1 DEF SaveForm, SendSetting
    <2>3. UNCHANGED <<stored, stQuery, stUnsure, stMounted, form, original, editedLate>>
      BY <1>6 DEF SaveForm
    <2> HIDE DEF n
    <2> QED  BY <1>0, <2>2, <2>3 DEF RetentionInv, OriginalKnown, SaveFindsForm
  <1>7. CASE OtherSetting
    <2>1. /\ stUnsure' = NotTold(0) /\ overlap' = (overlap \/ stOps # {})
          /\ UNCHANGED <<stQuery, stOps, stMounted, formVars>>
      BY <1>1, <1>7 DEF OtherSetting
    <2>2. stUnsure'.ever # {}
      BY <1>0, <2>1, UnansweredFacts
    <2> QED  BY <1>0, <2>1, <2>2 DEF RetentionInv, OriginalKnown, SaveFindsForm
  <1>8. ASSUME NEW o \in stOps, HandleSave(o)
        PROVE  RetentionInv'
    <2> DEFINE n == [o EXCEPT !.at = "done"]
    <2>1. n.live = o.live /\ n.value = o.value
      BY <1>0 DEF StRequests
    <2>2. /\ stOps' = (stOps \ {o}) \cup {n} /\ stUnsure' = NotTold(o.id)
          /\ UNCHANGED <<stQuery, overlap, stMounted, formVars>>
      BY <1>8 DEF HandleSave, Advance
    <2>3. stUnsure'.ever # {}
      <3>1. o.id \in 0..stPlan.ops
        BY <1>0 DEF StRequests
      <3> QED  BY <1>0, <2>2, <3>1, UnansweredFacts
    <2> HIDE DEF n
    <2> QED  BY <1>0, <2>1, <2>2, <2>3 DEF RetentionInv, OriginalKnown, SaveFindsForm
  <1>9. ASSUME NEW o \in stOps, SucceedRetention(o)
        PROVE  RetentionInv'
    <2>1. SUFFICES ASSUME ~overlap, stMounted, ~editedLate, stQuery.data # NoData
                   PROVE  (OriginalKnown /\ SaveFindsForm)'
      <3>1. UNCHANGED <<overlap, stMounted, editedLate>> /\ stQuery'.data = stQuery.data
        BY <1>0, <1>9, DataKept DEF SucceedRetention
      <3> QED  BY <3>1 DEF RetentionInv
    <2>2. stQuery'.data = stQuery.data /\ stOps' = {} /\ UNCHANGED stored
      BY <1>0, <1>9, <2>1, DataKept DEF SucceedRetention, SerialInv, OneUnderWay
    <2>3. stored = o.value
      BY <1>1, <1>9, <2>1, <2>2 DEF SucceedRetention, SerialInv, SavedIsStored
    <2>4. /\ o.live => form \in {o.value, stQuery.data}
          /\ ~o.live => original = stQuery.data
      BY <1>1, <2>1 DEF RetentionInv, SaveFindsForm
    <2>5. original' = IF o.live THEN form ELSE original
      BY <1>9 DEF SucceedRetention
    <2> QED  BY <2>2, <2>3, <2>4, <2>5 DEF OriginalKnown, SaveFindsForm
  <1>10. CASE SettingsArrive
    <2>1. CASE Fill(stQuery')
      BY <2>1, RetentionFilled
    <2>2. CASE ~Fill(stQuery')
      <3>1. /\ UNCHANGED <<formVars, stored, stOps, overlap, stMounted>>
            /\ stUnsure'.ever = stUnsure.ever
        BY <1>0, <1>10, <2>2 DEF SettingsArrive, FillIfNew, Unanswered
      <3>2. stMounted => stQuery'.data = stQuery.data
        BY <1>1, <1>10, <2>2 DEF SettingsArrive, FillIfNew
      <3>3. CASE stMounted
        BY <1>0, <3>1, <3>2, <3>3, RetentionKept
      <3>4. CASE ~stMounted
        BY <3>1, <3>4 DEF RetentionInv
      <3> QED  BY <3>3, <3>4
    <2> QED  BY <2>1, <2>2
  <1>11. CASE FocusSettings \/ ReadSettings \/ SettingsFail
    <2>1. /\ UNCHANGED <<stored, overlap, formVars, stMounted, stOps>>
          /\ stUnsure'.ever = stUnsure.ever
      BY <1>0, <1>11 DEF FocusSettings, ReadSettings, SettingsFail, Unanswered
    <2>2. stQuery'.data = stQuery.data
      BY <1>0, <1>11, DataKept DEF FocusSettings, ReadSettings, SettingsFail
    <2> QED  BY <1>0, <2>1, <2>2, RetentionKept
  <1>12. ASSUME NEW o \in stOps, FailSetting(o)
         PROVE  RetentionInv'
    BY <1>0, <1>12, RetentionKept DEF FailSetting
  <1>13. CASE UNCHANGED stVars
    BY <1>13, RetentionKept DEF stVars
  <1>14. \/ EnterSettings \/ LeaveSettings \/ SaveForm \/ OtherSetting \/ SettingsArrive
         \/ FocusSettings \/ ReadSettings \/ SettingsFail \/ UNCHANGED stVars
         \/ \E v \in Forms : EditForm(v)
         \/ \E o \in stOps : HandleSave(o) \/ SucceedRetention(o) \/ FailSetting(o)
    BY <1>1, <1>2
    DEF SettingsNext, ToggleDbAccess, OpenPanel, ClosePanel, ChangeTls, HandleToggle,
        HandleNewCerts, HandleEnable, HandleDisable, HandleDelete, SucceedToggle, FailToggle,
        SucceedPool, SucceedTls
  <1> QED
    BY <1>3, <1>4, <1>5, <1>6, <1>7, <1>8, <1>9, <1>10, <1>11, <1>12, <1>13, <1>14

\* With Save greyed out the form of the days shows what the server holds,
\* though the callback of a save takes whatever the form holds by then for
\* saved: as long as it was not edited during a save, saves did not overlap,
\* no answer of an applied one was lost and nobody else ever changed it.
THEOREM RetentionSaved == SettingsSpec => []RetentionShown
  <1> DEFINE IInv == SettingsInv /\ SettingsVouch /\ RetentionInv /\ RecentInEver
  <1>1. SettingsInit => IInv
    <2>1. SettingsInit => RetentionInv
      BY DEF SettingsInit, RetentionInv
    <2>2. SettingsInit => RecentInEver
      BY DEF SettingsInit, RecentInEver
    <2> QED  BY <2>1, <2>2, SettingsVouchInit, SettingsInvInit
  <1>2. IInv /\ [SettingsNext]_stVars => IInv'
    BY SettingsInvStep, SettingsVouchStep, RetentionStep, RecentInEverStep DEF SettingsInv
  <1>3. IInv => RetentionShown
    <2>1. SUFFICES ASSUME IInv, part = "retention", ~overlap, stMounted, ~editedLate,
                          Fresh(stQuery), ~stQuery.overtaken, stOps = {}, stUnsure.ever = {},
                          form = original
                   PROVE  form = stQuery.data
      BY DEF RetentionShown, HasChanges, DaysChanged
    <2>2. stQuery.data = stored
      BY <2>1 DEF SettingsVouch, ShownRight, AnswersCount, View, RecentInEver
    <2> QED  BY <2>1, <2>2 DEF RetentionInv, OriginalKnown, Fresh
  <1> QED  BY <1>1, <1>2, <1>3, PTL DEF SettingsSpec

-----------------------------------------------------------------------------
(* The session and the pages together *)

LEMMA AdminSteps ==
    ASSUME [AdminNext]_adminVars
    PROVE  /\ [ClientNext]_clientVars /\ [UsersNext]_userVars
           /\ [DatabasesNext]_dbVars /\ [SettingsNext]_stVars
  <1>1. CASE UNCHANGED adminVars
    BY <1>1, Zenon DEF adminVars
  <1>2. CASE ClientNext /\ UNCHANGED <<followed, userVars, dbVars, stVars>>
    BY <1>2, Zenon
  <1>3. CASE UsersNext /\ UNCHANGED <<followed, clientVars, dbVars, stVars>>
    BY <1>3, Zenon
  <1>4. CASE DatabasesNext /\ UNCHANGED <<followed, clientVars, userVars, stVars>>
    BY <1>4, Zenon
  <1>5. CASE SettingsNext /\ UNCHANGED <<followed, clientVars, userVars, dbVars>>
    BY <1>5, Zenon
  <1> QED  BY <1>1, <1>2, <1>3, <1>4, <1>5, Zenon DEF AdminNext

\* The composition takes no step that is not one of a page or of the session, so that what
\* is proved of each alone holds in it.
THEOREM AdminIsItsPages ==
    AdminSpec => ClientSpec /\ UsersSpec /\ DatabasesSpec /\ SettingsSpec
  <1>1. AdminInit => ClientInit /\ UsersInit /\ DatabasesInit /\ SettingsInit
    BY Zenon DEF AdminInit
  <1>2. [AdminNext]_adminVars => /\ [ClientNext]_clientVars /\ [UsersNext]_userVars
                                 /\ [DatabasesNext]_dbVars /\ [SettingsNext]_stVars
    BY AdminSteps, Zenon
  <1> QED
    BY <1>1, <1>2, PTL DEF AdminSpec, ClientSpec, UsersSpec, DatabasesSpec, SettingsSpec

\* Whatever page is followed, every variable of the session and of the three
\* pages has its type.
THEOREM AdminTypeCorrect == AdminSpec => []ClientAdminTypeOK
  <1>1. /\ ClientTypeOK /\ UsersTypeOK /\ DatabasesTypeOK /\ SettingsTypeOK
        => ClientAdminTypeOK
    BY Zenon DEF ClientAdminTypeOK
  <1> QED
    BY <1>1, AdminIsItsPages, ClientTypeCorrect, UsersTypeCorrect, DatabasesTypeCorrect,
       SettingsTypeCorrect, PTL
=============================================================================
