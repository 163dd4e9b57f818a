-------------------------- MODULE ClientSessionProofs --------------------------
(***************************************************************************)
(* Theorems about ClientSession, for every number of tabs and every value  *)
(* of its bounds.                                                          *)
(***************************************************************************)
EXTENDS ClientSession, TLAPS

-----------------------------------------------------------------------------
(* What holds of the requests of a tab *)

\* A request belongs to a loaded tab.  While the first one of a load is under
\* way nothing else of the tab is, and nothing is known of the setup.
RequestsOfTabs ==
    \A r \in sent :
        /\ tab[r.tab].loaded
        /\ r.op = "start" =>
             /\ tab[r.tab].loading /\ ~tab[r.tab].needsSetup
             /\ \A q \in sent : q.tab = r.tab => q = r

\* Who has signed in is not led to the setup.
NoSetupInside == ~crossed => \A t \in Tabs : tab[t].entered => ~tab[t].needsSetup

\* Sessions that were handed out come before the next one.
SessionsNumbered ==
    /\ cookie < nextId
    /\ \A r \in sent : r.cookie < nextId /\ r.id < nextId

\* Only the tab t of the browser has been loaded.
Alone(t) == \A s \in Tabs \ {t} : ~tab[s].loaded

\* Checks apart, requests come one after the other.
OneAtATime == \A r, q \in sent : r.op # "check" /\ q.op # "check" => r = q

\* A request that signs in finds nobody there, and its answer names the owner
\* of the cookie.
SigningIn(t, r) ==
    /\ r.op \in {"start", "setup", "login", "me"} => tab[t].user = NobodySignedIn
    /\ r.op \in {"start", "me"} =>
         /\ r.cookie = cookie
         /\ r.answer = "ok" => r.name = Owner(cookie)
    /\ ~(r.op = "password" /\ r.answer = "ok")

ShownHasSession(t) ==
    tab[t].user = NobodySignedIn \/ Owner(cookie) = tab[t].user
    \/ \E r \in sent : r.op = "logout" /\ r.answer = "ok"

OneTab(t) ==
    OneAtATime /\ ShownHasSession(t) /\ \A r \in sent : SigningIn(t, r)

AloneInv == ~crossed /\ ~ended => \A t \in Tabs : Alone(t) => OneTab(t)

-----------------------------------------------------------------------------
(* Types *)

LEMMA RequestTyped ==
    ASSUME cookie \in Ids, NEW t \in Tabs, NEW n \in Logins \cup {NobodySignedIn},
           NEW op \in {"start", "check", "setup", "login", "me", "logout", "password"}
    PROVE  Request(op, t, n) \in ClientRequests
  BY ClientBoundsAssumption DEF Request, ClientRequests, Ids

\* The redirects of the routes change the path and close the menu.
LEMMA BecomesTyped ==
    ASSUME tab \in [Tabs -> TabStates], NEW t \in Tabs, NEW s \in TabStates, Becomes(t, s)
    PROVE  /\ tab' \in [Tabs -> TabStates]
           /\ tab'[t].loaded = s.loaded /\ tab'[t].user = s.user /\ tab'[t].loading = s.loading
           /\ tab'[t].needsSetup = s.needsSetup /\ tab'[t].entered = s.entered
           /\ \A u \in Tabs \ {t} : tab'[u] = tab[u]
  <1> DEFINE p == Landing(s)
             b == s.menu /\ p = tab[t].path
  <1>1. p \in Paths
    BY DEF Landing, TabStates, Paths, AppPaths
  <1>2. Settle(t, s) = [s EXCEPT !.path = p, !.menu = b]
    BY DEF Settle
  <1>3. [s EXCEPT !.path = p, !.menu = b] \in TabStates
    <2>1. b \in BOOLEAN
      OBVIOUS
    <2> HIDE DEF p, b
    <2> QED  BY <1>1, <2>1 DEF TabStates
  <1>4. tab'[t] = Settle(t, s)
    BY DEF Becomes
  <1> HIDE DEF p, b
  <1>5. /\ tab'[t].loaded = s.loaded /\ tab'[t].user = s.user /\ tab'[t].loading = s.loading
        /\ tab'[t].needsSetup = s.needsSetup /\ tab'[t].entered = s.entered
    BY <1>2, <1>4 DEF TabStates
  <1> QED  BY <1>2, <1>3, <1>5 DEF Becomes

\* The fields of a tab that an answer changes.
LEMMA TabFields ==
    ASSUME NEW s \in TabStates
    PROVE  /\ \A n \in Logins \cup {NobodySignedIn} :
                /\ [s EXCEPT !.user = n, !.loading = FALSE, !.entered = TRUE] \in TabStates
                /\ [s EXCEPT !.user = n, !.needsSetup = FALSE, !.path = "/", !.entered = TRUE]
                     \in TabStates
                /\ [s EXCEPT !.user = n, !.menu = FALSE] \in TabStates
           /\ [s EXCEPT !.loading = FALSE] \in TabStates
           /\ \A b \in BOOLEAN : [s EXCEPT !.needsSetup = b] \in TabStates
           /\ \A p \in Paths : [s EXCEPT !.path = p] \in TabStates
           /\ [s EXCEPT !.menu = TRUE] \in TabStates
  <1>1. "/" \in Paths
    BY DEF Paths, AppPaths
  <1> QED  BY <1>1 DEF TabStates

LEMMA AnswersTyped ==
    ASSUME NEW r \in ClientRequests
    PROVE  /\ [r EXCEPT !.answer = "refused"] \in ClientRequests
           /\ [r EXCEPT !.answer = "ok"] \in ClientRequests
           /\ \A n \in Logins \cup {NobodySignedIn} :
                [r EXCEPT !.answer = "ok", !.name = n] \in ClientRequests
           /\ \A b \in BOOLEAN : [r EXCEPT !.answer = "ok", !.yes = b] \in ClientRequests
           /\ \A i \in Ids : [r EXCEPT !.answer = "ok", !.id = i] \in ClientRequests
           /\ \A b \in BOOLEAN : [r EXCEPT !.live = b] \in ClientRequests
           /\ \A i \in Ids, b \in BOOLEAN : [r EXCEPT !.cookie = i, !.live = b] \in ClientRequests
  BY DEF ClientRequests

LEMMA TypesInit == ClientInit => ClientTypeOK
  <1>1. "/" \in Paths /\ 0 \in Ids /\ 1 \in 1..MaxClientRequests + 1
        /\ 0 \in 0..MaxClientRequests /\ 0 \in 0..MaxLoads
    BY ClientBoundsAssumption DEF Paths, AppPaths, Ids
  <1>2. [loaded |-> FALSE, user |-> NobodySignedIn, loading |-> FALSE, needsSetup |-> FALSE,
         path |-> "/", menu |-> FALSE, entered |-> FALSE] \in TabStates
    BY <1>1 DEF TabStates
  <1> QED  BY <1>1, <1>2 DEF ClientInit, ClientTypeOK

\* Within the bounds there is room for another load or request.
LEMMA BoundsKept ==
    ASSUME NEW l \in Nat, NEW r \in Nat, WithinBounds(l, r)
    PROVE  l \in 0..MaxLoads /\ r \in 0..MaxClientRequests
  <1>1. PICK b \in ClientBounds : l <= b[1] /\ r <= b[2]
    BY DEF WithinBounds
  <1>2. b[1] \in 0..MaxLoads /\ b[2] \in 0..MaxClientRequests
    BY ClientBoundsAssumption
  <1> QED  BY <1>1, <1>2, ClientBoundsAssumption

LEMMA PressTyped ==
    ASSUME ClientTypeOK, NEW t \in Tabs, NEW n \in Logins \cup {NobodySignedIn},
           NEW op \in {"setup", "login", "logout", "password"}, Press(op, t, n), UNCHANGED tab
    PROVE  ClientTypeOK'
  <1>1. asked + 1 \in 0..MaxClientRequests
    BY BoundsKept DEF Press, ClientTypeOK
  <1>2. Request(op, t, n) \in ClientRequests
    BY RequestTyped DEF ClientTypeOK
  <1> QED  BY <1>1, <1>2 DEF Press, SendNextTo, ClientTypeOK

LEMMA TabActionsTyped ==
    ASSUME ClientTypeOK, NEW t \in Tabs,
           \/ \E p \in {"/", "/users", tab[t].path} : LoadTab(t, p)
           \/ \E n \in Logins : SubmitLogin(t, n)
           \/ SubmitSetup(t) \/ PressLogout(t) \/ SubmitPassword(t)
           \/ \E p \in Links : FollowLink(t, p)
           \/ OpenMenu(t)
    PROVE  ClientTypeOK'
  <1>0. tab[t] \in TabStates /\ tab[t].path \in Paths
    BY DEF ClientTypeOK, TabStates
  <1>1. ASSUME NEW p \in {"/", "/users", tab[t].path}, LoadTab(t, p)
        PROVE  ClientTypeOK'
    <2>1. p \in Paths
      BY <1>0 DEF Paths, AppPaths, AdminPaths
    <2>2. [loaded |-> TRUE, user |-> NobodySignedIn, loading |-> TRUE, needsSetup |-> FALSE,
           path |-> p, menu |-> FALSE, entered |-> FALSE] \in TabStates
      BY <2>1 DEF TabStates
    <2>3. loads + 1 \in 0..MaxLoads
      BY <1>1, BoundsKept DEF LoadTab, ClientTypeOK
    <2>4. Request("start", t, NobodySignedIn) \in ClientRequests
      BY RequestTyped DEF ClientTypeOK
    <2> QED  BY <1>1, <2>2, <2>3, <2>4 DEF LoadTab, SendNextTo, ClientTypeOK
  <1>2. ASSUME NEW n \in Logins, SubmitLogin(t, n)
        PROVE  ClientTypeOK'
    BY <1>2, PressTyped DEF SubmitLogin
  <1>3. CASE SubmitSetup(t)
    BY <1>3, PressTyped, FirstAdminAssumption DEF SubmitSetup
  <1>4. CASE PressLogout(t)
    BY <1>4, PressTyped DEF PressLogout
  <1>5. CASE SubmitPassword(t)
    BY <1>5, PressTyped DEF SubmitPassword
  <1>6. ASSUME NEW p \in Links, FollowLink(t, p)
        PROVE  ClientTypeOK'
    <2>1. p \in Paths
      BY <1>6 DEF FollowLink, Menu, Paths, AppPaths
    <2>2. tab' \in [Tabs -> TabStates]
      BY <1>0, <1>6, <2>1, TabFields, BecomesTyped DEF FollowLink, ClientTypeOK
    <2>3. sent' \subseteq ClientRequests
      <3>1. \A r \in sent : (r.live /\ ~(r.tab = t /\ r.op = "password")) \in BOOLEAN
        OBVIOUS
      <3>2. \A r \in sent, b \in BOOLEAN : [r EXCEPT !.live = b] \in ClientRequests
        BY DEF ClientTypeOK, ClientRequests
      <3> QED  BY <1>6, <3>1, <3>2 DEF FollowLink
    <2> QED  BY <1>6, <2>2, <2>3 DEF FollowLink, ClientTypeOK
  <1>7. CASE OpenMenu(t)
    BY <1>0, <1>7, TabFields DEF OpenMenu, ClientTypeOK
  <1> QED  BY <1>1, <1>2, <1>3, <1>4, <1>5, <1>6, <1>7

LEMMA ServerTyped ==
    ASSUME ClientTypeOK, NEW r \in sent,
           \/ ServeMe(r) \/ ServeCheck(r) \/ ServeSetup(r) \/ ServeLogin(r)
           \/ ServeLogout(r) \/ ServePassword(r)
    PROVE  ClientTypeOK'
  <1>0. r \in ClientRequests /\ r.cookie \in Ids /\ r.name \in Logins \cup {NobodySignedIn}
        /\ Owner(r.cookie) \in Logins \cup {NobodySignedIn}
        /\ (~hasAccounts) \in BOOLEAN
    BY DEF ClientTypeOK, ClientRequests, Owner
  <1>1. Refusal(r) => sent' \subseteq ClientRequests
    BY <1>0, AnswersTyped DEF Refusal, Answered, ClientTypeOK
  <1>2. CASE ServeMe(r)
    <2>1. sent' \subseteq ClientRequests
      <3>1. [r EXCEPT !.answer = "ok", !.name = Owner(r.cookie)] \in ClientRequests
        BY <1>0, AnswersTyped
      <3> QED  BY <1>1, <1>2, <3>1 DEF ServeMe, Answered, ClientTypeOK
    <2> QED  BY <1>2, <2>1 DEF ServeMe, ClientTypeOK
  <1>3. CASE ServeCheck(r)
    BY <1>0, <1>3, AnswersTyped DEF ServeCheck, Answered, ClientTypeOK
  <1>4. CASE ServeSetup(r)
    BY <1>0, <1>1, <1>4, AnswersTyped DEF ServeSetup, Answered, ClientTypeOK
  <1>5. CASE ServeLogin(r)
    <2>1. CASE Refusal(r) /\ UNCHANGED <<live, nextId>>
      BY <1>1, <1>5, <2>1 DEF ServeLogin, ClientTypeOK
    <2>2. CASE /\ nextId \in Ids /\ live' = [live EXCEPT ![nextId] = r.name]
               /\ nextId' = nextId + 1
               /\ Answered(r, [r EXCEPT !.answer = "ok", !.id = nextId])
      <3>1. nextId + 1 \in 1..MaxClientRequests + 1
        BY <2>2, ClientBoundsAssumption DEF Ids
      <3>2. sent' \subseteq ClientRequests
        BY <1>0, <2>2, AnswersTyped DEF Answered, ClientTypeOK
      <3> QED  BY <1>0, <1>5, <2>2, <3>1, <3>2 DEF ServeLogin, ClientTypeOK
    <2> QED  BY <1>5, <2>1, <2>2 DEF ServeLogin
  <1>6. CASE ServeLogout(r)
    BY <1>0, <1>1, <1>6, AnswersTyped, ZenonT(60) DEF ServeLogout, Answered, ClientTypeOK
  <1>7. CASE ServePassword(r)
    BY <1>0, <1>1, <1>7, AnswersTyped DEF ServePassword, Answered, ClientTypeOK
  <1> QED  BY <1>2, <1>3, <1>4, <1>5, <1>6, <1>7

LEMMA AnswerTyped ==
    ASSUME ClientTypeOK, NEW r \in sent, Answer(r) \/ Lose(r)
    PROVE  ClientTypeOK'
  <1>0. /\ r \in ClientRequests /\ r.tab \in Tabs /\ tab[r.tab] \in TabStates
        /\ r.name \in Logins \cup {NobodySignedIn} /\ r.id \in Ids
        /\ r.yes \in BOOLEAN /\ r.live \in BOOLEAN /\ r.cookie \in Ids
    BY DEF ClientTypeOK, ClientRequests
  <1>1. Request("check", r.tab, NobodySignedIn) \in ClientRequests
    BY <1>0, RequestTyped DEF ClientTypeOK
  <1> USE DEF SendNextTo
  <1>2. CASE Answer(r) /\ StartAnswered(r)
    <2>1. tab' \in [Tabs -> TabStates]
      BY <1>0, <1>2, TabFields, BecomesTyped DEF StartAnswered, ClientTypeOK
    <2>2. CASE r.answer = "ok"
      BY <1>2, <2>1, <2>2 DEF StartAnswered, Answer, ClientTypeOK
    <2>3. CASE r.answer # "ok"
      BY <1>1, <1>2, <2>1, <2>3 DEF StartAnswered, Answer, ClientTypeOK
    <2> QED  BY <2>2, <2>3
  <1>3. CASE Answer(r) /\ CheckAnswered(r)
    <2>1. tab' \in [Tabs -> TabStates]
      BY <1>0, <1>3, TabFields, BecomesTyped DEF CheckAnswered, ClientTypeOK
    <2>2. sent' \subseteq ClientRequests
      <3>1. \A q \in sent, b \in BOOLEAN : [q EXCEPT !.live = b] \in ClientRequests
        BY ZenonT(60) DEF ClientTypeOK, ClientRequests
      <3> QED  BY <1>3, <3>1 DEF CheckAnswered
    <2> QED  BY <1>3, <2>1, <2>2 DEF CheckAnswered, Answer, ClientTypeOK
  <1>4. CASE Answer(r) /\ SetupAnswered(r)
    <2>1. [Request("login", r.tab, r.name) EXCEPT !.live = r.live] \in ClientRequests
      <3>1. Request("login", r.tab, r.name) \in ClientRequests
        BY <1>0, RequestTyped DEF ClientTypeOK
      <3> QED  BY <1>0, <3>1, AnswersTyped DEF ClientTypeOK
    <2> QED  BY <1>4, <2>1 DEF SetupAnswered, Answer, ClientTypeOK
  <1>5. CASE Answer(r) /\ LoginAnswered(r)
    <2>1. [Request("me", r.tab, NobodySignedIn) EXCEPT !.cookie = r.id, !.live = r.live]
            \in ClientRequests
      <3>1. Request("me", r.tab, NobodySignedIn) \in ClientRequests
        BY <1>0, RequestTyped DEF ClientTypeOK
      <3> QED  BY <1>0, <3>1, AnswersTyped DEF ClientTypeOK
    <2> QED  BY <1>0, <1>5, <2>1 DEF LoginAnswered, Answer, ClientTypeOK
  <1>6. CASE Answer(r) /\ MeAnswered(r)
    <2>1. tab' \in [Tabs -> TabStates]
      BY <1>0, <1>6, TabFields, BecomesTyped DEF MeAnswered, ClientTypeOK
    <2> QED  BY <1>6, <2>1 DEF MeAnswered, Answer, ClientTypeOK
  <1>7. CASE Answer(r) /\ LogoutAnswered(r)
    <2>1. tab' \in [Tabs -> TabStates]
      BY <1>0, <1>7, TabFields, BecomesTyped DEF LogoutAnswered, ClientTypeOK
    <2>2. cookie' \in Ids
      BY <1>7, ClientBoundsAssumption DEF LogoutAnswered, ClientTypeOK, Ids
    <2> QED  BY <1>7, <2>1, <2>2 DEF LogoutAnswered, Answer, ClientTypeOK
  <1>8. CASE Answer(r) /\ PasswordAnswered(r)
    <2>1. cookie' \in Ids
      BY <1>8, ClientBoundsAssumption DEF PasswordAnswered, ClientTypeOK, Ids
    <2> QED  BY <1>8, <2>1 DEF PasswordAnswered, Answer, ClientTypeOK
  <1>9. CASE Lose(r)
    <2>1. tab' \in [Tabs -> TabStates]
      <3>1. CASE UNCHANGED tab
        BY <3>1 DEF ClientTypeOK
      <3>2. CASE Becomes(r.tab, [tab[r.tab] EXCEPT !.loading = FALSE])
        BY <1>0, <3>2, TabFields, BecomesTyped DEF ClientTypeOK
      <3> QED  BY <1>9, <3>1, <3>2 DEF Lose, Becomes, ClientTypeOK
    <2>2. sent' \subseteq ClientRequests
      BY <1>1, <1>9 DEF Lose, ClientTypeOK
    <2> QED  BY <1>9, <2>1, <2>2 DEF Lose, ClientTypeOK
  <1> QED  BY <1>2, <1>3, <1>4, <1>5, <1>6, <1>7, <1>8, <1>9 DEF Answer, Continue

LEMMA TypesStep ==
    ASSUME ClientTypeOK, [ClientNext]_clientVars
    PROVE  ClientTypeOK'
  <1>1. CASE UNCHANGED clientVars
    BY <1>1 DEF clientVars, ClientTypeOK
  <1>2. ASSUME NEW i \in Ids \ {0}, SessionEnds(i)
        PROVE  ClientTypeOK'
    BY <1>2 DEF SessionEnds, ClientTypeOK
  <1> QED  BY <1>1, <1>2, TabActionsTyped, ServerTyped, AnswerTyped DEF ClientNext

\* Every tab, request and session has its type: the redirects of the routes
\* never lead to a path that is no route's.
THEOREM ClientTypeCorrect == ClientSpec => []ClientTypeOK
  BY TypesInit, TypesStep, PTL DEF ClientSpec

-----------------------------------------------------------------------------
(* The setup is not offered again *)

\* A step of the tab t: what has to be shown of it, the other tabs and their
\* requests being as they were.
LEMMA TabStep ==
    ASSUME ClientTypeOK, ClientTypeOK', RequestsOfTabs, NoSetupInside, NEW t \in Tabs,
           \A u \in Tabs \ {t} : tab'[u] = tab[u],
           \A x \in sent' : x.tab # t => x \in sent,
           tab'[t].loaded,
           \A x \in sent' : x.tab = t /\ x.op = "start" =>
             /\ tab'[t].loading /\ ~tab'[t].needsSetup
             /\ \A q \in sent' : q.tab = t => q = x,
           crossed => crossed',
           ~crossed' => (tab'[t].entered => ~tab'[t].needsSetup)
    PROVE  RequestsOfTabs' /\ NoSetupInside'
  <1>1. ASSUME NEW x \in sent'
        PROVE  /\ tab'[x.tab].loaded
               /\ x.op = "start" =>
                    /\ tab'[x.tab].loading /\ ~tab'[x.tab].needsSetup
                    /\ \A q \in sent' : q.tab = x.tab => q = x
    <2>1. x.tab \in Tabs
      BY DEF ClientTypeOK, ClientRequests
    <2>2. CASE x.tab = t
      BY <2>2
    <2>3. CASE x.tab # t
      <3>1. tab'[x.tab] = tab[x.tab] /\ x \in sent
        BY <2>1, <2>3
      <3> QED  BY <2>3, <3>1 DEF RequestsOfTabs
    <2> QED  BY <2>2, <2>3
  <1>2. RequestsOfTabs'
    BY <1>1 DEF RequestsOfTabs
  <1>3. NoSetupInside'
    BY DEF NoSetupInside
  <1> QED  BY <1>2, <1>3

\* A form or a button adds a request of a page that is on the screen.
LEMMA PressStep ==
    ASSUME ClientTypeOK, ClientTypeOK', RequestsOfTabs, NoSetupInside, NEW t \in Tabs,
           NEW n \in Logins \cup {NobodySignedIn},
           NEW op \in {"setup", "login", "logout", "password"},
           Press(op, t, n), UNCHANGED tab, Page(t) # "none"
    PROVE  RequestsOfTabs' /\ NoSetupInside'
  <1>1. tab[t].loaded /\ ~tab[t].loading
    BY DEF Page
  <1>2. Request(op, t, n).op # "start" /\ Request(op, t, n).tab = t
    BY DEF Request
  <1>3. sent' = sent \cup {Request(op, t, n)} /\ (crossed => crossed')
    BY DEF Press, SendNextTo
  <1>4. \A x \in sent' : x.tab = t => x.op # "start"
    BY <1>1, <1>2, <1>3 DEF RequestsOfTabs
  <1> QED  BY <1>1, <1>2, <1>3, <1>4, TabStep DEF NoSetupInside

\* A page that is taken down forgets a request; it changes nothing else.
LEMMA Marked ==
    ASSUME NEW y \in ClientRequests, NEW b
    PROVE  LET x == [y EXCEPT !.live = @ /\ ~b]
           IN  /\ x.op = y.op /\ x.tab = y.tab /\ x.name = y.name /\ x.cookie = y.cookie
               /\ x.answer = y.answer /\ x.id = y.id
               /\ ~b => x = y
  BY DEF ClientRequests

LEMMA SetupOfTabs ==
    ASSUME ClientTypeOK, ClientTypeOK', RequestsOfTabs, NoSetupInside, NEW t \in Tabs,
           \/ \E p \in {"/", "/users", tab[t].path} : LoadTab(t, p)
           \/ \E n \in Logins : SubmitLogin(t, n)
           \/ SubmitSetup(t) \/ PressLogout(t) \/ SubmitPassword(t)
           \/ \E p \in Links : FollowLink(t, p)
           \/ OpenMenu(t)
    PROVE  RequestsOfTabs' /\ NoSetupInside'
  <1>0. tab[t] \in TabStates /\ tab \in [Tabs -> TabStates]
        /\ \A x \in sent : x \in ClientRequests
    BY DEF ClientTypeOK
  <1>1. ASSUME NEW p \in {"/", "/users", tab[t].path}, LoadTab(t, p)
        PROVE  RequestsOfTabs' /\ NoSetupInside'
    <2>1. /\ tab'[t].loaded /\ tab'[t].loading /\ ~tab'[t].needsSetup /\ ~tab'[t].entered
          /\ \A u \in Tabs \ {t} : tab'[u] = tab[u]
      BY <1>0, <1>1 DEF LoadTab
    <2>2. Request("start", t, NobodySignedIn).tab = t
      BY DEF Request
    <2>3. \A x \in sent' : x.tab = t => x = Request("start", t, NobodySignedIn)
      BY <1>1 DEF LoadTab, SendNextTo
    <2>4. \A x \in sent' : x.tab # t => x \in sent
      BY <1>1, <2>2 DEF LoadTab, SendNextTo
    <2>5. crossed => crossed'
      BY <1>1 DEF LoadTab, SendNextTo
    <2> QED  BY <2>1, <2>3, <2>4, <2>5, TabStep
  <1>2. ASSUME NEW n \in Logins, SubmitLogin(t, n)
        PROVE  RequestsOfTabs' /\ NoSetupInside'
    BY <1>2, PressStep DEF SubmitLogin
  <1>3. CASE SubmitSetup(t)
    BY <1>3, PressStep, FirstAdminAssumption DEF SubmitSetup
  <1>4. CASE PressLogout(t)
    BY <1>4, PressStep DEF PressLogout
  <1>5. CASE SubmitPassword(t)
    BY <1>5, PressStep DEF SubmitPassword
  <1>6. ASSUME NEW p \in Links, FollowLink(t, p)
        PROVE  RequestsOfTabs' /\ NoSetupInside'
    <2>0. tab[t].loaded /\ ~tab[t].loading /\ p \in Paths
      BY <1>6 DEF FollowLink, Page, Menu, Paths, AppPaths
    <2> DEFINE s == [tab[t] EXCEPT !.path = p]
    <2>1. s \in TabStates
      BY <1>0, <2>0, TabFields
    <2>1a. s.loaded = tab[t].loaded /\ s.needsSetup = tab[t].needsSetup /\ s.entered = tab[t].entered
      <3>1. tab[t] \in TabStates
        BY <1>0, <2>0
      <3> QED  BY <3>1 DEF TabStates
    <2>2. Becomes(t, s)
      BY <1>6 DEF FollowLink
    <2> HIDE DEF s
    <2>3. /\ tab'[t].loaded /\ tab'[t].needsSetup = tab[t].needsSetup
          /\ tab'[t].entered = tab[t].entered
          /\ \A u \in Tabs \ {t} : tab'[u] = tab[u]
      BY <1>0, <2>0, <2>1, <2>1a, <2>2, BecomesTyped
    <2>4. \A x \in sent' : \E y \in sent : x.tab = y.tab /\ x.op = y.op /\ (y.tab # t => x = y)
      <3> TAKE x \in sent'
      <3>1. PICK y \in sent : x = [y EXCEPT !.live = @ /\ ~(y.tab = t /\ y.op = "password")]
        BY <1>6 DEF FollowLink
      <3>2. y \in ClientRequests
        BY <1>0
      <3>3. x.tab = y.tab /\ x.op = y.op /\ (y.tab # t => x = y)
        BY <3>1, <3>2, Marked
      <3> QED  BY <3>3
    <2>5. \A x \in sent' : x.tab = t => x.op # "start"
      BY <2>0, <2>4 DEF RequestsOfTabs
    <2>6. crossed' = crossed
      BY <1>6 DEF FollowLink
    <2> QED  BY <2>3, <2>4, <2>5, <2>6, TabStep DEF NoSetupInside
  <1>7. CASE OpenMenu(t)
    <2>1. tab[t].loaded /\ ~tab[t].loading
      BY <1>7 DEF OpenMenu, Page
    <2>2. /\ tab'[t].loaded /\ tab'[t].needsSetup = tab[t].needsSetup
          /\ tab'[t].entered = tab[t].entered
          /\ \A u \in Tabs \ {t} : tab'[u] = tab[u]
      <3>1. tab'[t] = [tab[t] EXCEPT !.menu = TRUE] /\ \A u \in Tabs \ {t} : tab'[u] = tab[u]
        BY <1>0, <1>7 DEF OpenMenu
      <3> QED  BY <1>0, <2>1, <3>1 DEF TabStates
    <2>3. sent' = sent /\ crossed' = crossed
      BY <1>7 DEF OpenMenu
    <2> QED  BY <2>1, <2>2, <2>3, TabStep DEF NoSetupInside, RequestsOfTabs
  <1> QED  BY <1>1, <1>2, <1>3, <1>4, <1>5, <1>6, <1>7

\* What the server makes of a request.
ServedAs(r, a) ==
    /\ sent' = (sent \ {r}) \cup {a} /\ r.answer = ""
    /\ a.op = r.op /\ a.tab = r.tab /\ a.cookie = r.cookie
    /\ a.answer = "ok" /\ r.op \in {"start", "me"} => a.name = Owner(r.cookie)
    /\ a.answer = "ok" /\ r.op = "password" => ended'
    /\ a.id = r.id \/ (a.id = nextId /\ nextId' = nextId + 1)
    /\ nextId' = nextId \/ nextId' = nextId + 1
    /\ ended => ended'
    /\ \/ UNCHANGED live \/ ended'
       \/ r.op = "login" /\ \E n : live' = [live EXCEPT ![nextId] = n]
       \/ r.op = "logout" /\ a.answer = "ok"
    /\ UNCHANGED <<cookie, tab, crossed>>

LEMMA Served ==
    ASSUME ClientTypeOK, NEW r \in sent,
           \/ ServeMe(r) \/ ServeCheck(r) \/ ServeSetup(r) \/ ServeLogin(r)
           \/ ServeLogout(r) \/ ServePassword(r)
    PROVE  \E a : ServedAs(r, a)
  <1> DEFINE no == [r EXCEPT !.answer = "refused"]
             ok == [r EXCEPT !.answer = "ok"]
  <1>0. r \in ClientRequests
    BY DEF ClientTypeOK
  <1>1. /\ no.op = r.op /\ no.tab = r.tab /\ no.cookie = r.cookie /\ no.id = r.id
        /\ no.answer = "refused"
        /\ ok.op = r.op /\ ok.tab = r.tab /\ ok.cookie = r.cookie /\ ok.id = r.id
        /\ ok.answer = "ok"
    BY <1>0 DEF ClientRequests
  <1>2. ASSUME Refusal(r), r.answer = "", UNCHANGED <<cookie, tab, crossed, nextId, live>>,
               ended => ended'
        PROVE  ServedAs(r, no)
    BY <1>1, <1>2 DEF Refusal, Answered, ServedAs
  <1>3. CASE ServeMe(r)
    <2> DEFINE a == [r EXCEPT !.answer = "ok", !.name = Owner(r.cookie)]
    <2>1. a.op = r.op /\ a.tab = r.tab /\ a.cookie = r.cookie /\ a.id = r.id
          /\ a.name = Owner(r.cookie)
      BY <1>0 DEF ClientRequests
    <2>2. CASE Answered(r, a)
      <3> HIDE DEF a
      <3>1. ServedAs(r, a)
        BY <1>3, <2>1, <2>2 DEF ServeMe, Answered, ServedAs
      <3> QED  BY <3>1
    <2> QED  BY <1>2, <1>3, <2>2 DEF ServeMe
  <1>4. CASE ServeCheck(r)
    <2> DEFINE a == [r EXCEPT !.answer = "ok", !.yes = ~hasAccounts]
    <2>1. a.op = r.op /\ a.tab = r.tab /\ a.cookie = r.cookie /\ a.id = r.id
      BY <1>0 DEF ClientRequests
    <2>2. Answered(r, a)
      BY <1>4 DEF ServeCheck
    <2> HIDE DEF a
    <2>3. ServedAs(r, a)
      BY <1>4, <2>1, <2>2 DEF ServeCheck, Answered, ServedAs
    <2> QED  BY <2>3
  <1>5. CASE ServeSetup(r)
    <2>1. CASE Answered(r, ok)
      <3> HIDE DEF ok
      <3>1. ServedAs(r, ok)
        BY <1>1, <1>5, <2>1 DEF ServeSetup, Answered, ServedAs
      <3> QED  BY <3>1
    <2> QED  BY <1>2, <1>5, <2>1 DEF ServeSetup
  <1>6. CASE ServeLogin(r)
    <2> DEFINE a == [r EXCEPT !.answer = "ok", !.id = nextId]
    <2>1. a.op = r.op /\ a.tab = r.tab /\ a.cookie = r.cookie /\ a.id = nextId
      BY <1>0 DEF ClientRequests
    <2>2. CASE live' = [live EXCEPT ![nextId] = r.name] /\ nextId' = nextId + 1 /\ Answered(r, a)
      <3> HIDE DEF a
      <3>1. ServedAs(r, a)
        BY <1>6, <2>1, <2>2 DEF ServeLogin, Answered, ServedAs
      <3> QED  BY <3>1
    <2> QED  BY <1>2, <1>6, <2>2 DEF ServeLogin
  <1>7. CASE ServeLogout(r)
    <2>1. CASE Answered(r, ok)
      <3> HIDE DEF ok
      <3>1. ServedAs(r, ok)
        BY <1>1, <1>7, <2>1 DEF ServeLogout, Answered, ServedAs
      <3> QED  BY <3>1
    <2> QED  BY <1>2, <1>7, <2>1 DEF ServeLogout
  <1>8. CASE ServePassword(r)
    <2>1. CASE Answered(r, ok) /\ ended'
      <3> HIDE DEF ok
      <3>1. ServedAs(r, ok)
        BY <1>1, <1>8, <2>1 DEF ServePassword, Answered, ServedAs
      <3> QED  BY <3>1
    <2> QED  BY <1>2, <1>8, <2>1 DEF ServePassword
  <1> QED  BY <1>3, <1>4, <1>5, <1>6, <1>7, <1>8

LEMMA SetupOfServer ==
    ASSUME ClientTypeOK, ClientTypeOK', RequestsOfTabs, NoSetupInside, NEW r \in sent,
           NEW a, ServedAs(r, a)
    PROVE  RequestsOfTabs' /\ NoSetupInside'
  <1>1. r.tab \in Tabs
    BY DEF ClientTypeOK, ClientRequests
  <1>2. \A x \in sent' : x.tab # r.tab => x \in sent
    BY DEF ServedAs
  <1>3. ASSUME NEW x \in sent', x.tab = r.tab, x.op = "start"
        PROVE  /\ tab'[r.tab].loading /\ ~tab'[r.tab].needsSetup
               /\ \A q \in sent' : q.tab = r.tab => q = x
    <2>1. r.op = "start" /\ \A q \in sent : q.tab = r.tab => q = r
      BY <1>3 DEF ServedAs, RequestsOfTabs
    <2> QED  BY <1>3, <2>1 DEF ServedAs, RequestsOfTabs
  <1>4. tab' = tab /\ crossed' = crossed /\ tab[r.tab].loaded
    BY DEF ServedAs, RequestsOfTabs
  <1>5. ~crossed' => (tab'[r.tab].entered => ~tab'[r.tab].needsSetup)
    BY <1>1, <1>4 DEF NoSetupInside
  <1> QED  BY <1>1, <1>2, <1>3, <1>4, <1>5, TabStep

\* An answer does not load a page.
LEMMA SetupOfAnswer ==
    ASSUME ClientTypeOK, ClientTypeOK', RequestsOfTabs, NoSetupInside, NEW r \in sent,
           Answer(r) \/ Lose(r)
    PROVE  RequestsOfTabs' /\ NoSetupInside'
  <1>0. /\ r \in ClientRequests /\ r.tab \in Tabs /\ tab[r.tab] \in TabStates
        /\ tab \in [Tabs -> TabStates] /\ r.name \in Logins \cup {NobodySignedIn}
        /\ r.yes \in BOOLEAN /\ tab[r.tab].loaded
    BY DEF ClientTypeOK, ClientRequests, RequestsOfTabs
  \* No load of the tab is under way unless r is its first request.
  <1>1. r.op # "start" => \A x \in sent : x.tab = r.tab => x.op # "start"
    BY DEF RequestsOfTabs
  \* The step of an answer that sends nothing or the request q instead.
  <1>2. ASSUME NEW q, \A x \in sent' : x \in sent \ {r} \/ x = q,
               q.tab = r.tab, q.op # "start", crossed => crossed',
               NEW s \in TabStates, Becomes(r.tab, s) \/ (UNCHANGED tab /\ s = tab[r.tab]),
               s.loaded, ~crossed' => (s.entered => ~s.needsSetup)
        PROVE  RequestsOfTabs' /\ NoSetupInside'
    <2>1. /\ tab'[r.tab].loaded
          /\ ~crossed' => (tab'[r.tab].entered => ~tab'[r.tab].needsSetup)
          /\ \A u \in Tabs \ {r.tab} : tab'[u] = tab[u]
      BY <1>0, <1>2, BecomesTyped
    <2>2. \A x \in sent' : x.tab = r.tab => x.op # "start"
      BY <1>1, <1>2 DEF RequestsOfTabs
    <2>3. \A x \in sent' : x.tab # r.tab => x \in sent
      BY <1>2
    <2> QED  BY <1>0, <1>2, <2>1, <2>2, <2>3, TabStep
  <1>3. ASSUME \A x \in sent' : x \in sent \ {r}, crossed => crossed', UNCHANGED tab
        PROVE  RequestsOfTabs' /\ NoSetupInside'
    <2>1. ~crossed' => (tab[r.tab].entered => ~tab[r.tab].needsSetup)
      BY <1>0, <1>3 DEF NoSetupInside
    <2>2. \A x \in sent' : x.tab = r.tab => x.op # "start"
      BY <1>1, <1>3 DEF RequestsOfTabs
    <2> QED  BY <1>0, <1>3, <2>1, <2>2, TabStep
  <1> DEFINE check == Request("check", r.tab, NobodySignedIn)
  <1>4. check.tab = r.tab /\ check.op # "start"
    BY DEF Request
  <1>5. ASSUME r.op = "start", Becomes(r.tab, [tab[r.tab] EXCEPT !.loading = FALSE]),
               \A x \in sent' : x \in sent \ {r} \/ x = check, crossed => crossed'
        PROVE  RequestsOfTabs' /\ NoSetupInside'
    <2> DEFINE s == [tab[r.tab] EXCEPT !.loading = FALSE]
    <2>1. s \in TabStates
      BY <1>0, <1>5, TabFields
    <2>1a. s.loaded /\ ~s.needsSetup
      <3>1. tab[r.tab] \in TabStates /\ tab[r.tab].loaded /\ ~tab[r.tab].needsSetup
        BY <1>0, <1>5 DEF RequestsOfTabs
      <3> QED  BY <3>1 DEF TabStates
    <2>2. Becomes(r.tab, s)
      BY <1>5
    <2> HIDE DEF s, check
    <2> QED  BY <1>2, <1>4, <1>5, <2>1, <2>1a, <2>2
  <1>6. CASE Answer(r) /\ StartAnswered(r)
    <2> HIDE DEF check
    <2>1. CASE r.answer = "ok"
      <3> DEFINE s == [tab[r.tab] EXCEPT !.user = r.name, !.loading = FALSE, !.entered = TRUE]
      <3>1. s \in TabStates
        BY <1>0, <1>6, TabFields
      <3>1a. s.loaded /\ ~s.needsSetup
        <4>1. tab[r.tab] \in TabStates /\ tab[r.tab].loaded /\ ~tab[r.tab].needsSetup
          BY <1>0, <1>6 DEF RequestsOfTabs, StartAnswered
        <4> QED  BY <4>1 DEF TabStates
      <3>2. Becomes(r.tab, s) /\ sent' = sent \ {r} /\ crossed' = crossed
        BY <1>6, <2>1 DEF StartAnswered
      <3> HIDE DEF s
      <3> QED  BY <1>2, <1>4, <3>1, <3>1a, <3>2
    <2>2. CASE r.answer # "ok"
      <3>1. /\ Becomes(r.tab, [tab[r.tab] EXCEPT !.loading = FALSE])
            /\ SendNextTo(sent \ {r}, check)
        BY <1>6, <2>2 DEF StartAnswered, check
      <3> QED  BY <1>5, <1>6, <3>1 DEF StartAnswered, SendNextTo
    <2> QED  BY <2>1, <2>2
  <1>7. CASE Answer(r) /\ CheckAnswered(r)
    <2> DEFINE s == [tab[r.tab] EXCEPT !.needsSetup = r.yes]
    <2>1. s \in TabStates
      BY <1>0, TabFields
    <2>1a. s.loaded /\ s.entered = tab[r.tab].entered
      <3>1. tab[r.tab] \in TabStates /\ tab[r.tab].loaded
        BY <1>0
      <3> QED  BY <3>1 DEF TabStates
    <2>2. /\ Becomes(r.tab, s) /\ (crossed => crossed') /\ (~crossed' => ~tab[r.tab].entered)
      BY <1>7 DEF CheckAnswered
    <2> HIDE DEF s
    <2>3. \A x \in sent' : \E y \in sent :
             x.op = y.op /\ x.tab = y.tab /\ (y.tab # r.tab => x = y)
      <3> TAKE x \in sent'
      <3>1. PICK y \in sent : x = [y EXCEPT !.live = @ /\ ~(y.tab = r.tab /\ r.yes)]
        BY <1>7 DEF CheckAnswered
      <3>2. x.tab = y.tab /\ x.op = y.op /\ (y.tab # r.tab => x = y)
        BY <3>1, Marked, ZenonT(60) DEF ClientTypeOK
      <3> QED  BY <3>2
    <2>4. /\ tab'[r.tab].loaded /\ (~crossed' => ~tab'[r.tab].entered)
          /\ \A u \in Tabs \ {r.tab} : tab'[u] = tab[u]
      BY <1>0, <2>1, <2>1a, <2>2, BecomesTyped
    <2>5. \A x \in sent' : x.tab = r.tab => x.op # "start"
      BY <1>1, <1>7, <2>3 DEF CheckAnswered
    <2> QED  BY <1>0, <2>2, <2>3, <2>4, <2>5, TabStep
  <1>8. CASE Answer(r) /\ (SetupAnswered(r) \/ LoginAnswered(r))
    <2>1. PICK q : /\ q.tab = r.tab /\ q.op # "start"
                   /\ \A x \in sent' : x \in sent \ {r} \/ x = q
      <3>1. CASE SetupAnswered(r)
        <4> DEFINE q == [Request("login", r.tab, r.name) EXCEPT !.live = r.live]
        <4>1. q.tab = r.tab /\ q.op # "start"
          BY DEF Request
        <4>2. \A x \in sent' : x \in sent \ {r} \/ x = q
          BY <3>1 DEF SetupAnswered, SendNextTo
        <4> QED  BY <4>1, <4>2
      <3>2. CASE LoginAnswered(r)
        <4> DEFINE q == [Request("me", r.tab, NobodySignedIn) EXCEPT !.cookie = r.id,
                                                                     !.live = r.live]
        <4>1. q.tab = r.tab /\ q.op # "start"
          BY DEF Request
        <4>2. \A x \in sent' : x \in sent \ {r} \/ x = q
          BY <3>2 DEF LoginAnswered, SendNextTo
        <4> QED  BY <4>1, <4>2
      <3> QED  BY <1>8, <3>1, <3>2
    <2>2. UNCHANGED tab /\ (crossed => crossed')
      BY <1>8 DEF SetupAnswered, LoginAnswered, SendNextTo
    <2>3. ~crossed' => (tab[r.tab].entered => ~tab[r.tab].needsSetup)
      BY <1>0, <2>2 DEF NoSetupInside
    <2> QED  BY <1>0, <1>2, <2>1, <2>2, <2>3
  <1>9. CASE Answer(r) /\ MeAnswered(r)
    <2>1. sent' = sent \ {r} /\ crossed' = crossed
      BY <1>9 DEF MeAnswered
    <2>2. CASE r.answer = "ok"
      <3> DEFINE s == [tab[r.tab] EXCEPT !.user = r.name, !.needsSetup = FALSE, !.path = "/",
                                         !.entered = TRUE]
      <3>1. s \in TabStates
        BY <1>0, TabFields
      <3>1a. s.loaded /\ ~s.needsSetup
        <4>1. tab[r.tab] \in TabStates /\ tab[r.tab].loaded
          BY <1>0
        <4> QED  BY <4>1 DEF TabStates
      <3>2. Becomes(r.tab, s)
        BY <1>9, <2>2 DEF MeAnswered
      <3> HIDE DEF s, check
      <3> QED  BY <1>2, <1>4, <2>1, <3>1, <3>1a, <3>2
    <2>3. CASE r.answer # "ok"
      BY <1>3, <1>9, <2>1, <2>3 DEF MeAnswered
    <2> QED  BY <2>2, <2>3
  <1>10. CASE Answer(r) /\ LogoutAnswered(r)
    <2>1. sent' = sent \ {r} /\ crossed' = crossed
      BY <1>10 DEF LogoutAnswered
    <2>2. CASE r.answer = "ok"
      <3> DEFINE s == [tab[r.tab] EXCEPT !.user = NobodySignedIn, !.menu = FALSE]
      <3>1. s \in TabStates
        BY <1>0, TabFields
      <3>1a. s.loaded /\ s.needsSetup = tab[r.tab].needsSetup /\ s.entered = tab[r.tab].entered
        <4>1. tab[r.tab] \in TabStates /\ tab[r.tab].loaded
          BY <1>0
        <4> QED  BY <4>1 DEF TabStates
      <3>2. Becomes(r.tab, s)
        BY <1>10, <2>2 DEF LogoutAnswered
      <3>3. ~crossed' => (tab[r.tab].entered => ~tab[r.tab].needsSetup)
        BY <1>0, <2>1 DEF NoSetupInside
      <3> HIDE DEF s, check
      <3> QED  BY <1>2, <1>4, <2>1, <3>1, <3>1a, <3>2, <3>3
    <2>3. CASE r.answer # "ok"
      BY <1>3, <1>10, <2>1, <2>3 DEF LogoutAnswered
    <2> QED  BY <2>2, <2>3
  <1>11. CASE Answer(r) /\ PasswordAnswered(r)
    BY <1>3, <1>11 DEF PasswordAnswered
  <1>12. CASE Lose(r)
    <2>1. crossed' = crossed
      BY <1>12 DEF Lose
    <2>2. CASE UNCHANGED tab /\ sent' = sent \ {r}
      BY <1>3, <2>1, <2>2
    <2>3. CASE r.op = "start" /\ Becomes(r.tab, [tab[r.tab] EXCEPT !.loading = FALSE])
               /\ sent' = (sent \ {r}) \cup {check}
      BY <1>5, <2>1, <2>3
    <2>4. [r EXCEPT !.answer = "refused"].op = r.op
      BY <1>0 DEF ClientRequests
    <2> QED  BY <1>12, <2>2, <2>3, <2>4 DEF Lose, Becomes
  <1> QED  BY <1>6, <1>7, <1>8, <1>9, <1>10, <1>11, <1>12 DEF Answer, Continue

LEMMA SetupStep ==
    ASSUME ClientTypeOK, RequestsOfTabs, NoSetupInside, [ClientNext]_clientVars
    PROVE  RequestsOfTabs' /\ NoSetupInside'
  <1>0. ClientTypeOK'
    BY TypesStep
  <1>1. CASE UNCHANGED clientVars
    BY <1>1 DEF clientVars, RequestsOfTabs, NoSetupInside
  <1>2. ASSUME NEW i \in Ids \ {0}, SessionEnds(i)
        PROVE  RequestsOfTabs' /\ NoSetupInside'
    BY <1>2 DEF SessionEnds, RequestsOfTabs, NoSetupInside
  <1> QED
    BY <1>0, <1>1, <1>2, SetupOfTabs, Served, SetupOfServer, SetupOfAnswer DEF ClientNext

\* Once someone has signed in, logging out leads to the login form and not to
\* the setup: needsSetup can only be stale where the question was on its way
\* when the form was submitted.
THEOREM SetupDoneForTabs == ClientSpec => []SetupNotOfferedAgain
  <1> DEFINE IInv == ClientTypeOK /\ RequestsOfTabs /\ NoSetupInside
  <1>1. ClientInit => IInv
    BY TypesInit DEF ClientInit, RequestsOfTabs, NoSetupInside
  <1>2. IInv /\ [ClientNext]_clientVars => IInv'
    BY TypesStep, SetupStep
  <1>3. IInv => SetupNotOfferedAgain
    BY DEF NoSetupInside, SetupNotOfferedAgain, Page
  <1> QED  BY <1>1, <1>2, <1>3, PTL DEF ClientSpec

-----------------------------------------------------------------------------
(* A user who is shown has a session *)

LEMMA NumbersStep ==
    ASSUME ClientTypeOK, SessionsNumbered, [ClientNext]_clientVars
    PROVE  SessionsNumbered'
  <1>0. /\ nextId \in Nat /\ nextId > 0 /\ cookie \in Nat
        /\ \A r \in sent : r \in ClientRequests /\ r.cookie \in Nat /\ r.id \in Nat
    <2>1. Ids \subseteq Nat
      BY ClientBoundsAssumption DEF Ids
    <2>2. nextId \in Nat /\ nextId > 0
      BY ClientBoundsAssumption DEF ClientTypeOK
    <2>3. cookie \in Ids /\ \A r \in sent : r \in ClientRequests /\ r.cookie \in Ids /\ r.id \in Ids
      BY DEF ClientTypeOK, ClientRequests
    <2> QED  BY <2>1, <2>2, <2>3
  <1>1. CASE UNCHANGED clientVars
    BY <1>0, <1>1 DEF clientVars, SessionsNumbered
  <1>2. ASSUME NEW i \in Ids \ {0}, SessionEnds(i)
        PROVE  SessionsNumbered'
    BY <1>0, <1>2 DEF SessionEnds, SessionsNumbered
  \* Every new request carries the cookie of the moment.
  <1>3. ASSUME NEW op, NEW t, NEW n
        PROVE  Request(op, t, n).cookie = cookie /\ Request(op, t, n).id = 0
    BY DEF Request
  <1>4. ASSUME UNCHANGED <<nextId, cookie>>,
               \A x \in sent' : x \in sent \/ (x.cookie = cookie /\ x.id = 0)
        PROVE  SessionsNumbered'
    BY <1>0, <1>4 DEF SessionsNumbered
  <1>5. ASSUME NEW t \in Tabs, NEW p, LoadTab(t, p)
        PROVE  SessionsNumbered'
    BY <1>3, <1>4, <1>5 DEF LoadTab, SendNextTo
  <1>6. ASSUME NEW t \in Tabs, NEW n, NEW op, Press(op, t, n)
        PROVE  SessionsNumbered'
    BY <1>3, <1>4, <1>6 DEF Press, SendNextTo
  <1>7. ASSUME NEW t \in Tabs,
               \/ \E n \in Logins : SubmitLogin(t, n)
               \/ SubmitSetup(t) \/ PressLogout(t) \/ SubmitPassword(t)
        PROVE  SessionsNumbered'
    BY <1>6, <1>7 DEF SubmitLogin, SubmitSetup, PressLogout, SubmitPassword
  <1>8. ASSUME UNCHANGED <<nextId, cookie>>,
               \A x \in sent' : \E y \in sent : x.cookie = y.cookie /\ x.id = y.id
        PROVE  SessionsNumbered'
    BY <1>0, <1>8 DEF SessionsNumbered
  <1>9. ASSUME NEW t \in Tabs, NEW p, FollowLink(t, p)
        PROVE  SessionsNumbered'
    <2>1. \A x \in sent' : \E y \in sent : x.cookie = y.cookie /\ x.id = y.id
      <3> TAKE x \in sent'
      <3>1. PICK y \in sent : x = [y EXCEPT !.live = @ /\ ~(y.tab = t /\ y.op = "password")]
        BY <1>9 DEF FollowLink
      <3>2. x.cookie = y.cookie /\ x.id = y.id
        BY <1>0, <3>1, Marked
      <3> QED  BY <3>2
    <2>2. UNCHANGED <<nextId, cookie>>
      BY <1>9 DEF FollowLink
    <2> QED  BY <1>8, <2>1, <2>2
  <1>10. ASSUME NEW t \in Tabs, OpenMenu(t)
         PROVE  SessionsNumbered'
    BY <1>4, <1>10 DEF OpenMenu
  <1>11. ASSUME NEW r \in sent, NEW a, ServedAs(r, a)
         PROVE  SessionsNumbered'
    <2>1. /\ sent' = (sent \ {r}) \cup {a} /\ cookie' = cookie /\ a.cookie = r.cookie
          /\ a.id = r.id \/ (a.id = nextId /\ nextId' = nextId + 1)
          /\ nextId' \in {nextId, nextId + 1}
      BY <1>11 DEF ServedAs
    <2>2. a.id < nextId' /\ a.cookie < nextId' /\ cookie' < nextId'
      BY <1>0, <2>1 DEF SessionsNumbered
    <2>3. \A x \in sent : x.cookie < nextId' /\ x.id < nextId'
      BY <1>0, <2>1 DEF SessionsNumbered
    <2> QED  BY <1>0, <2>1, <2>2, <2>3 DEF SessionsNumbered
  <1>12. ASSUME NEW r \in sent, StartAnswered(r) \/ SetupAnswered(r) \/ MeAnswered(r) \/ Lose(r)
         PROVE  SessionsNumbered'
    <2> DEFINE q == [Request("login", r.tab, r.name) EXCEPT !.live = r.live]
               c == Request("check", r.tab, NobodySignedIn)
    <2>1. q.cookie = cookie /\ q.id = 0 /\ c.cookie = cookie /\ c.id = 0
      BY DEF Request
    <2>2. UNCHANGED <<nextId, cookie>>
      BY <1>12 DEF StartAnswered, SetupAnswered, MeAnswered, Lose
    <2>3. \/ \A x \in sent' : x \in sent
          \/ sent' = (sent \ {r}) \cup {c} \/ sent' = (sent \ {r}) \cup {q}
      <3>1. CASE StartAnswered(r) \/ MeAnswered(r)
        BY <3>1 DEF StartAnswered, MeAnswered, SendNextTo
      <3>2. CASE SetupAnswered(r)
        BY <3>2 DEF SetupAnswered, SendNextTo
      <3>3. CASE Lose(r)
        BY <3>3 DEF Lose
      <3> QED  BY <1>12, <3>1, <3>2, <3>3
    <2> HIDE DEF q, c
    <2>4. \A x \in sent' : x \in sent \/ (x.cookie = cookie /\ x.id = 0)
      BY <2>1, <2>3
    <2> QED  BY <1>4, <2>2, <2>4
  <1>13. ASSUME NEW r \in sent, CheckAnswered(r)
         PROVE  SessionsNumbered'
    <2>1. \A x \in sent' : \E y \in sent : x.cookie = y.cookie /\ x.id = y.id
      <3> TAKE x \in sent'
      <3>1. PICK y \in sent : x = [y EXCEPT !.live = @ /\ ~(y.tab = r.tab /\ r.yes)]
        BY <1>13 DEF CheckAnswered
      <3>2. x.cookie = y.cookie /\ x.id = y.id
        BY <1>0, <3>1, Marked
      <3> QED  BY <3>2
    <2>2. UNCHANGED <<nextId, cookie>>
      BY <1>13 DEF CheckAnswered
    <2> QED  BY <1>8, <2>1, <2>2
  <1>14. ASSUME NEW r \in sent, LoginAnswered(r)
         PROVE  SessionsNumbered'
    <2> DEFINE q == [Request("me", r.tab, NobodySignedIn) EXCEPT !.cookie = r.id, !.live = r.live]
    <2>1. q.cookie = r.id /\ q.id = 0
      BY DEF Request
    <2>2. /\ cookie' = cookie \/ cookie' = r.id
          /\ \A x \in sent' : x \in sent \/ x = q
          /\ nextId' = nextId
      BY <1>14 DEF LoginAnswered, SendNextTo
    <2> HIDE DEF q
    <2> QED  BY <1>0, <2>1, <2>2 DEF SessionsNumbered
  <1>15. ASSUME NEW r \in sent, LogoutAnswered(r) \/ PasswordAnswered(r)
         PROVE  SessionsNumbered'
    <2>1. cookie' \in {cookie, 0} /\ sent' = sent \ {r} /\ nextId' = nextId
      BY <1>15 DEF LogoutAnswered, PasswordAnswered
    <2> QED  BY <1>0, <2>1 DEF SessionsNumbered
  <1>16. ASSUME NEW r \in sent, Answer(r)
         PROVE  SessionsNumbered'
    BY <1>12, <1>13, <1>14, <1>15, <1>16 DEF Answer, Continue
  <1>17. ASSUME NEW r \in sent,
                \/ ServeMe(r) \/ ServeCheck(r) \/ ServeSetup(r) \/ ServeLogin(r)
                \/ ServeLogout(r) \/ ServePassword(r)
         PROVE  SessionsNumbered'
    BY <1>11, <1>17, Served
  <1> QED
    BY <1>1, <1>2, <1>5, <1>7, <1>9, <1>10, <1>12, <1>16, <1>17 DEF ClientNext

LEMMA AlonePress ==
    ASSUME ClientTypeOK, NEW t \in Tabs, OneTab(t), NEW op, NEW n, Press(op, t, n), ~crossed',
           op \in {"setup", "login"} => tab[t].user = NobodySignedIn,
           op \in {"setup", "login", "logout", "password"}, UNCHANGED tab
    PROVE  OneTab(t)'
  <1> DEFINE q == Request(op, t, n)
  <1>1. q.op = op /\ q.answer = ""
    BY DEF Request
  <1>2. sent' = sent \cup {q} /\ \A x \in sent : x.op = "check"
    BY DEF Press, SendNextTo
  <1>3. UNCHANGED <<live, cookie>> /\ Owner(cookie)' = Owner(cookie)
    BY DEF Press, Owner
  <1> HIDE DEF q
  <1>4. OneAtATime'
    BY <1>2 DEF OneAtATime
  <1>5. ShownHasSession(t)'
    BY <1>2, <1>3 DEF ShownHasSession, OneTab
  <1>6. \A r \in sent' : SigningIn(t, r)'
    BY <1>1, <1>2, <1>3 DEF SigningIn, OneTab
  <1> QED  BY <1>4, <1>5, <1>6 DEF OneTab

LEMMA AloneServed ==
    ASSUME ClientTypeOK, SessionsNumbered, NEW t \in Tabs, OneTab(t),
           NEW r \in sent, NEW a, ServedAs(r, a), ~ended'
    PROVE  OneTab(t)'
  <1>0. /\ sent' = (sent \ {r}) \cup {a} /\ r.answer = "" /\ a.op = r.op
        /\ a.cookie = r.cookie /\ UNCHANGED <<cookie, tab>>
        /\ cookie # nextId /\ cookie \in Ids
        /\ live \in [Ids -> Logins \cup {NobodySignedIn}]
    <2>1. cookie \in Nat /\ nextId \in Nat /\ cookie < nextId
      BY ClientBoundsAssumption DEF ClientTypeOK, SessionsNumbered, Ids
    <2>2. cookie # nextId
      BY <2>1
    <2>3. cookie \in Ids /\ live \in [Ids -> Logins \cup {NobodySignedIn}]
      BY DEF ClientTypeOK
    <2> QED  BY <2>2, <2>3 DEF ServedAs
  <1>1. OneAtATime'
    BY <1>0 DEF OneAtATime, OneTab
  <1>2. CASE Owner(cookie)' = Owner(cookie)
    <2>1. ShownHasSession(t)'
      BY <1>0, <1>2 DEF ShownHasSession, OneTab
    <2>2. ASSUME NEW x \in sent', x # a PROVE SigningIn(t, x)'
      BY <1>0, <1>2, <2>2 DEF SigningIn, OneTab
    <2>3. SigningIn(t, a)'
      <3>1. SigningIn(t, r)
        BY DEF OneTab
      <3> QED  BY <1>0, <1>2, <3>1 DEF SigningIn, ServedAs
    <2> QED  BY <1>1, <2>1, <2>2, <2>3 DEF OneTab
  <1>3. CASE Owner(cookie)' # Owner(cookie)
    <2>1. ASSUME r.op = "login", NEW n, live' = [live EXCEPT ![nextId] = n]
          PROVE  FALSE
      <3>1. live'[cookie] = live[cookie]
        BY <1>0, <2>1
      <3> QED  BY <1>0, <1>3, <3>1 DEF Owner
    <2>2. r.op = "logout" /\ a.answer = "ok"
      BY <1>0, <1>3, <2>1 DEF ServedAs, Owner
    <2>3. \A x \in sent : x # r => x.op = "check"
      BY <2>2 DEF OneTab, OneAtATime
    <2>4. ShownHasSession(t)'
      BY <1>0, <2>2 DEF ShownHasSession
    <2>5. \A x \in sent' : SigningIn(t, x)'
      BY <1>0, <2>2, <2>3 DEF SigningIn
    <2> QED  BY <1>1, <2>4, <2>5 DEF OneTab
  <1> QED  BY <1>2, <1>3

LEMMA AloneAnswered ==
    ASSUME ClientTypeOK, NEW t \in Tabs, OneTab(t), NEW r \in sent, r.tab = t, Answer(r),
           ~crossed'
    PROVE  OneTab(t)'
  <1>0. /\ r \in ClientRequests /\ tab[t] \in TabStates /\ tab \in [Tabs -> TabStates]
        /\ r.name \in Logins \cup {NobodySignedIn} /\ r.yes \in BOOLEAN
        /\ SigningIn(t, r) /\ OneAtATime /\ live' = live
        /\ \A x \in sent : SigningIn(t, x)
    BY DEF ClientTypeOK, ClientRequests, OneTab, Answer, Continue, StartAnswered, CheckAnswered,
       SetupAnswered, LoginAnswered, MeAnswered, LogoutAnswered, PasswordAnswered
  <1>1. r.op # "check" => \A x \in sent \ {r} : x.op = "check"
    BY <1>0 DEF OneAtATime
  <1>2. \A s \in TabStates : Becomes(t, s) => tab'[t].user = s.user
    BY <1>0, BecomesTyped
  \* The answer ends r, or one request q takes its place.
  <1>3. ASSUME NEW q, sent' = sent \ {r} \/ sent' = (sent \ {r}) \cup {q}, r.op # "check",
               q \in sent' => SigningIn(t, q)',
               tab'[t].user = NobodySignedIn \/ Owner(cookie)' = tab'[t].user
        PROVE  OneTab(t)'
    <2>1. OneAtATime'
      BY <1>1, <1>3 DEF OneAtATime
    <2>2. ASSUME NEW x \in sent', x.op = "check" PROVE SigningIn(t, x)'
      BY <2>2 DEF SigningIn
    <2>3. \A x \in sent' : SigningIn(t, x)'
      BY <1>1, <1>3, <2>2
    <2>4. ShownHasSession(t)'
      BY <1>3 DEF ShownHasSession
    <2> QED  BY <2>1, <2>3, <2>4 DEF OneTab
  <1>4. CASE StartAnswered(r)
    <2>0. PICK q : q = Request("check", r.tab, NobodySignedIn)
      OBVIOUS
    <2>1. q.op = "check" /\ cookie' = cookie /\ Owner(cookie)' = Owner(cookie)
          /\ tab[t].user = NobodySignedIn
      BY <1>0, <1>4, <2>0 DEF Request, StartAnswered, Owner, SigningIn
    <2>2. SigningIn(t, q)'
      BY <2>1 DEF SigningIn
    <2>3. CASE r.answer = "ok"
      <3> DEFINE s == [tab[t] EXCEPT !.user = r.name, !.loading = FALSE, !.entered = TRUE]
      <3>1. s \in TabStates
        BY <1>0, TabFields
      <3>2. s.user = r.name
        BY <1>0 DEF TabStates
      <3>3. Becomes(t, s) /\ sent' = sent \ {r}
        BY <1>4, <2>3 DEF StartAnswered
      <3>4. r.name = Owner(cookie)
        BY <1>0, <1>4, <2>3 DEF StartAnswered, SigningIn
      <3> HIDE DEF s
      <3>5. tab'[t].user = Owner(cookie)'
        BY <1>2, <2>1, <3>1, <3>2, <3>3, <3>4
      <3> QED  BY <1>3, <1>4, <2>2, <3>3, <3>5 DEF StartAnswered
    <2>4. CASE r.answer # "ok"
      <3> DEFINE s == [tab[t] EXCEPT !.loading = FALSE]
      <3>1. s \in TabStates
        BY <1>0, TabFields
      <3>2. s.user = NobodySignedIn
        BY <1>0, <2>1 DEF TabStates
      <3>3. Becomes(t, s) /\ sent' = (sent \ {r}) \cup {q}
        BY <1>4, <2>0, <2>4 DEF StartAnswered, SendNextTo
      <3> HIDE DEF s
      <3>4. tab'[t].user = NobodySignedIn
        BY <1>2, <3>1, <3>2, <3>3
      <3> QED  BY <1>3, <1>4, <2>2, <3>3, <3>4 DEF StartAnswered
    <2> QED  BY <2>3, <2>4
  <1>5. CASE CheckAnswered(r)
    <2> DEFINE s == [tab[t] EXCEPT !.needsSetup = r.yes]
    <2>1. s \in TabStates
      BY <1>0, TabFields
    <2>2. s.user = tab[t].user
      BY <1>0 DEF TabStates
    <2>3. Becomes(t, s)
      BY <1>5 DEF CheckAnswered
    <2>4. cookie' = cookie /\ Owner(cookie)' = Owner(cookie)
      BY <1>0, <1>5 DEF CheckAnswered, Owner
    <2> HIDE DEF s
    <2>5. tab'[t].user = tab[t].user
      BY <1>2, <2>1, <2>2, <2>3
    <2>6. UNCHANGED crossed /\ \A x \in sent \ {r} : x.tab # t
      BY <1>5 DEF CheckAnswered, ClientTypeOK
    <2>7. \A x \in sent' : x \in sent \ {r}
      <3> TAKE x \in sent'
      <3>1. PICK y \in sent \ {r} : x = [y EXCEPT !.live = @ /\ ~(y.tab = r.tab /\ r.yes)]
        BY <1>5 DEF CheckAnswered
      <3>2. y \in ClientRequests /\ y.tab # r.tab
        BY <2>6 DEF ClientTypeOK
      <3> QED  BY <3>1, <3>2, Marked
    <2>8. \A y \in sent \ {r} : y \in sent'
      <3> TAKE y \in sent \ {r}
      <3>1. y \in ClientRequests /\ y.tab # r.tab
        BY <2>6 DEF ClientTypeOK
      <3>2. [y EXCEPT !.live = @ /\ ~(y.tab = r.tab /\ r.yes)] = y
        BY <3>1, Marked
      <3> QED  BY <1>5, <3>2 DEF CheckAnswered
    <2>9. OneAtATime'
      BY <1>0, <2>7 DEF OneAtATime
    <2>10. ShownHasSession(t)'
      BY <1>5, <2>4, <2>5, <2>8 DEF ShownHasSession, OneTab, CheckAnswered
    <2>11. \A x \in sent' : SigningIn(t, x)'
      BY <1>0, <2>4, <2>5, <2>7 DEF SigningIn
    <2> QED  BY <2>9, <2>10, <2>11 DEF OneTab
  <1>6. CASE SetupAnswered(r)
    <2>0. PICK q : q = [Request("login", r.tab, r.name) EXCEPT !.live = r.live]
      OBVIOUS
    <2>1. q.op = "login" /\ q.answer = ""
      BY <2>0 DEF Request
    <2>2. /\ UNCHANGED tab /\ tab[t].user = NobodySignedIn
          /\ sent' = sent \ {r} \/ sent' = (sent \ {r}) \cup {q}
      BY <1>0, <1>6, <2>0 DEF SetupAnswered, SendNextTo, SigningIn
    <2>3. SigningIn(t, q)'
      BY <2>1, <2>2 DEF SigningIn
    <2> QED  BY <1>3, <1>6, <2>2, <2>3 DEF SetupAnswered
  <1>7. CASE LoginAnswered(r)
    <2>0. PICK q : q = [Request("me", r.tab, NobodySignedIn) EXCEPT !.cookie = r.id,
                                                                    !.live = r.live]
      OBVIOUS
    <2>1. q.op = "me" /\ q.answer = "" /\ q.cookie = r.id
      BY <2>0 DEF Request
    <2>2. /\ UNCHANGED tab /\ tab[t].user = NobodySignedIn
          /\ sent' = sent \ {r} \/ (sent' = (sent \ {r}) \cup {q} /\ cookie' = r.id)
      BY <1>0, <1>7, <2>0 DEF LoginAnswered, SendNextTo, SigningIn
    <2>3. CASE sent' = sent \ {r}
      <3>1. \E z : z \notin sent'
        BY <2>3
      <3> QED  BY <1>3, <1>7, <2>2, <2>3, <3>1 DEF LoginAnswered
    <2>4. CASE sent' = (sent \ {r}) \cup {q} /\ cookie' = r.id
      <3>1. SigningIn(t, q)'
        BY <2>1, <2>2, <2>4 DEF SigningIn
      <3> QED  BY <1>3, <1>7, <2>2, <2>4, <3>1 DEF LoginAnswered
    <2> QED  BY <2>2, <2>3, <2>4
  <1>8. ASSUME sent' = sent \ {r}, r.op # "check",
               tab'[t].user = NobodySignedIn \/ Owner(cookie)' = tab'[t].user
        PROVE  OneTab(t)'
    <2>1. r \notin sent'
      BY <1>8
    <2> QED  BY <1>3, <1>8, <2>1
  <1>9. CASE MeAnswered(r)
    <2>1. /\ cookie' = cookie /\ Owner(cookie)' = Owner(cookie) /\ sent' = sent \ {r}
          /\ tab[t].user = NobodySignedIn
      BY <1>0, <1>9 DEF MeAnswered, Owner, SigningIn
    <2>2. CASE r.answer = "ok"
      <3> DEFINE s == [tab[t] EXCEPT !.user = r.name, !.needsSetup = FALSE, !.path = "/",
                                     !.entered = TRUE]
      <3>1. s \in TabStates
        BY <1>0, TabFields
      <3>2. s.user = r.name
        BY <1>0 DEF TabStates
      <3>3. Becomes(t, s)
        BY <1>9, <2>2 DEF MeAnswered
      <3>4. r.name = Owner(cookie)
        BY <1>0, <1>9, <2>2 DEF MeAnswered, SigningIn
      <3> HIDE DEF s
      <3>5. tab'[t].user = Owner(cookie)'
        BY <1>2, <2>1, <3>1, <3>2, <3>3, <3>4
      <3> QED  BY <1>8, <1>9, <2>1, <3>5 DEF MeAnswered
    <2>3. CASE r.answer # "ok"
      BY <1>8, <1>9, <2>1, <2>3 DEF MeAnswered
    <2> QED  BY <2>2, <2>3
  <1>10. CASE LogoutAnswered(r)
    <2>1. sent' = sent \ {r}
      BY <1>10 DEF LogoutAnswered
    <2>2. CASE r.answer = "ok"
      <3> DEFINE s == [tab[t] EXCEPT !.user = NobodySignedIn, !.menu = FALSE]
      <3>1. s \in TabStates
        BY <1>0, TabFields
      <3>2. s.user = NobodySignedIn
        BY <1>0 DEF TabStates
      <3>3. Becomes(t, s)
        BY <1>10, <2>2 DEF LogoutAnswered
      <3> HIDE DEF s
      <3>4. tab'[t].user = NobodySignedIn
        BY <1>2, <3>1, <3>2, <3>3
      <3> QED  BY <1>8, <1>10, <2>1, <3>4 DEF LogoutAnswered
    <2>3. CASE r.answer # "ok"
      <3>1. UNCHANGED tab /\ Owner(cookie)' = Owner(cookie)
        BY <1>0, <1>10, <2>3 DEF LogoutAnswered, Owner
      <3>2. tab[t].user = NobodySignedIn \/ Owner(cookie) = tab[t].user
        BY <1>1, <1>10, <2>3 DEF LogoutAnswered, OneTab, ShownHasSession
      <3> QED  BY <1>8, <1>10, <2>1, <3>1, <3>2 DEF LogoutAnswered
    <2> QED  BY <2>2, <2>3
  <1>11. CASE PasswordAnswered(r)
    <2>1. r.answer # "ok"
      BY <1>0, <1>11 DEF PasswordAnswered, SigningIn
    <2>2. UNCHANGED tab /\ Owner(cookie)' = Owner(cookie) /\ sent' = sent \ {r}
      BY <1>0, <1>11, <2>1 DEF PasswordAnswered, Owner
    <2>3. tab[t].user = NobodySignedIn \/ Owner(cookie) = tab[t].user
      BY <1>1, <1>11 DEF PasswordAnswered, OneTab, ShownHasSession
    <2> QED  BY <1>8, <1>11, <2>2, <2>3 DEF PasswordAnswered
  <1> QED  BY <1>4, <1>5, <1>6, <1>7, <1>9, <1>10, <1>11 DEF Answer, Continue

LEMMA AloneTabs ==
    ASSUME ClientTypeOK, NEW t \in Tabs, OneTab(t), ~crossed', ~ended',
           \A r \in sent : r.tab = t,
           \/ \E p \in {"/", "/users", tab[t].path} : LoadTab(t, p)
           \/ \E n \in Logins : SubmitLogin(t, n)
           \/ SubmitSetup(t) \/ PressLogout(t) \/ SubmitPassword(t)
           \/ \E p \in Links : FollowLink(t, p)
           \/ OpenMenu(t)
    PROVE  OneTab(t)'
  <1>0. tab[t] \in TabStates /\ tab \in [Tabs -> TabStates]
        /\ \A x \in sent : x \in ClientRequests
    BY DEF ClientTypeOK
  <1>1. ASSUME NEW p \in {"/", "/users", tab[t].path}, LoadTab(t, p)
        PROVE  OneTab(t)'
    <2>0. PICK q : q = Request("start", t, NobodySignedIn)
      OBVIOUS
    <2>1. q.answer = "" /\ q.op = "start" /\ q.cookie = cookie
      BY <2>0 DEF Request
    <2>2. sent' = {q} /\ cookie' = cookie
      <3>1. sent = {}
        BY <1>1 DEF LoadTab
      <3> QED  BY <1>1, <2>0, <3>1 DEF LoadTab, SendNextTo
    <2>3. tab'[t].user = NobodySignedIn
      BY <1>0, <1>1 DEF LoadTab
    <2> QED  BY <2>1, <2>2, <2>3 DEF OneTab, OneAtATime, ShownHasSession, SigningIn
  <1>2. ASSUME NEW n \in Logins, SubmitLogin(t, n)
        PROVE  OneTab(t)'
    <2>1. tab[t].user = NobodySignedIn
      BY <1>2 DEF SubmitLogin, Page
    <2> QED  BY <1>2, <2>1, AlonePress DEF SubmitLogin
  <1>3. CASE SubmitSetup(t)
    <2>1. tab[t].user = NobodySignedIn
      BY <1>3 DEF SubmitSetup, Page
    <2> QED  BY <1>3, <2>1, AlonePress DEF SubmitSetup
  <1>4. CASE PressLogout(t)
    BY <1>4, AlonePress DEF PressLogout
  <1>5. CASE SubmitPassword(t)
    BY <1>5, AlonePress DEF SubmitPassword
  \* A step of the page that sends nothing and leaves the user.
  <1>6. ASSUME UNCHANGED <<live, cookie>>, tab'[t].user = tab[t].user,
               \A x \in sent' : \E y \in sent :
                 /\ x.op = y.op /\ x.cookie = y.cookie /\ x.answer = y.answer /\ x.name = y.name
                 /\ \A z \in sent' : z.op # "check" /\ x.op # "check" => z = x,
               \A y \in sent : \E x \in sent' : x.op = y.op /\ x.answer = y.answer
        PROVE  OneTab(t)'
    <2>1. Owner(cookie)' = Owner(cookie)
      BY <1>6 DEF Owner
    <2>2. OneAtATime'
      BY <1>6 DEF OneAtATime
    <2>3. ShownHasSession(t)'
      BY <1>6, <2>1 DEF ShownHasSession, OneTab
    <2>4. \A x \in sent' : SigningIn(t, x)'
      BY <1>6, <2>1 DEF SigningIn, OneTab
    <2> QED  BY <2>2, <2>3, <2>4 DEF OneTab
  <1>7. ASSUME NEW p \in Links, FollowLink(t, p)
        PROVE  OneTab(t)'
    <2>0. p \in Paths
      BY <1>7 DEF FollowLink, Menu, Paths, AppPaths
    <2>1. tab'[t].user = tab[t].user
      <3> DEFINE s == [tab[t] EXCEPT !.path = p]
      <3>1. s \in TabStates
        BY <1>0, <2>0, TabFields
      <3>2. s.user = tab[t].user
        BY <1>0 DEF TabStates
      <3>3. Becomes(t, s)
        BY <1>7 DEF FollowLink
      <3> HIDE DEF s
      <3> QED  BY <1>0, <3>1, <3>2, <3>3, BecomesTyped
    <2> DEFINE F(y) == [y EXCEPT !.live = @ /\ ~(y.tab = t /\ y.op = "password")]
    <2>2. sent' = {F(y) : y \in sent}
      BY <1>7 DEF FollowLink
    <2>3. \A y \in sent : /\ F(y).op = y.op /\ F(y).cookie = y.cookie
                          /\ F(y).answer = y.answer /\ F(y).name = y.name
      BY <1>0, Marked
    <2> HIDE DEF F
    <2>4. \A y, z \in sent : F(z).op # "check" /\ F(y).op # "check" => F(z) = F(y)
      BY <2>3 DEF OneTab, OneAtATime
    <2>5. UNCHANGED <<live, cookie>>
      BY <1>7 DEF FollowLink
    <2> QED  BY <1>6, <2>1, <2>2, <2>3, <2>4, <2>5
  <1>8. CASE OpenMenu(t)
    <2>1. tab'[t].user = tab[t].user
      <3>1. tab'[t] = [tab[t] EXCEPT !.menu = TRUE]
        BY <1>0, <1>8 DEF OpenMenu
      <3> QED  BY <1>0, <3>1 DEF TabStates
    <2> QED  BY <1>6, <1>8, <2>1 DEF OpenMenu, OneTab, OneAtATime
  <1> QED  BY <1>1, <1>2, <1>3, <1>4, <1>5, <1>7, <1>8

\* A tab that is loaded stays loaded, and no other tab acts unloaded.
LEMMA LoadedStays ==
    ASSUME ClientTypeOK, RequestsOfTabs, [ClientNext]_clientVars,
           NEW s \in Tabs, tab[s].loaded
    PROVE  tab'[s].loaded
  <1>0. ClientTypeOK' /\ tab[s] \in TabStates /\ tab \in [Tabs -> TabStates]
    BY TypesStep DEF ClientTypeOK
  <1>1. CASE UNCHANGED tab
    BY <1>1
  <1>2. ASSUME NEW t \in Tabs, NEW x \in TabStates, Becomes(t, x), x.loaded = tab[t].loaded
        PROVE  tab'[s].loaded
    BY <1>0, <1>2, BecomesTyped
  <1>3. ASSUME NEW t \in Tabs, tab[t] \in TabStates, NEW n \in Logins \cup {NobodySignedIn},
               NEW b \in BOOLEAN, NEW p \in Paths,
               \/ Becomes(t, [tab[t] EXCEPT !.user = n, !.loading = FALSE, !.entered = TRUE])
               \/ Becomes(t, [tab[t] EXCEPT !.loading = FALSE])
               \/ Becomes(t, [tab[t] EXCEPT !.needsSetup = b])
               \/ Becomes(t, [tab[t] EXCEPT !.user = n, !.needsSetup = FALSE, !.path = "/",
                                            !.entered = TRUE])
               \/ Becomes(t, [tab[t] EXCEPT !.user = n, !.menu = FALSE])
               \/ Becomes(t, [tab[t] EXCEPT !.path = p])
        PROVE  tab'[s].loaded
    <2>1. \A x \in {[tab[t] EXCEPT !.user = n, !.loading = FALSE, !.entered = TRUE],
                    [tab[t] EXCEPT !.loading = FALSE], [tab[t] EXCEPT !.needsSetup = b],
                    [tab[t] EXCEPT !.user = n, !.needsSetup = FALSE, !.path = "/",
                                   !.entered = TRUE],
                    [tab[t] EXCEPT !.user = n, !.menu = FALSE], [tab[t] EXCEPT !.path = p]} :
             x \in TabStates
      BY <1>3, TabFields, ZenonT(60)
    <2>2. \A x \in {[tab[t] EXCEPT !.user = n, !.loading = FALSE, !.entered = TRUE],
                    [tab[t] EXCEPT !.loading = FALSE], [tab[t] EXCEPT !.needsSetup = b],
                    [tab[t] EXCEPT !.user = n, !.needsSetup = FALSE, !.path = "/",
                                   !.entered = TRUE],
                    [tab[t] EXCEPT !.user = n, !.menu = FALSE], [tab[t] EXCEPT !.path = p]} :
             x.loaded = tab[t].loaded
      BY <1>3 DEF TabStates
    <2> QED  BY <1>2, <1>3, <2>1, <2>2
  <1>4. "/" \in Paths
    BY DEF Paths, AppPaths
  <1>5. ASSUME NEW t \in Tabs, NEW p, LoadTab(t, p)
        PROVE  tab'[s].loaded
    BY <1>0, <1>5 DEF LoadTab
  <1>6. ASSUME NEW t \in Tabs, OpenMenu(t)
        PROVE  tab'[s].loaded
    <2>1. tab'[s] = tab[s] \/ tab'[s] = [tab[s] EXCEPT !.menu = TRUE]
      BY <1>0, <1>6 DEF OpenMenu
    <2> QED  BY <1>0, <2>1 DEF TabStates
  <1>7. ASSUME NEW t \in Tabs, NEW p, FollowLink(t, p)
        PROVE  tab'[s].loaded
    <2>1. p \in Paths /\ Becomes(t, [tab[t] EXCEPT !.path = p])
      BY <1>7 DEF FollowLink, Menu, Paths, AppPaths
    <2> QED  BY <1>0, <1>3, <2>1
  <1>8. ASSUME NEW r \in sent, Answer(r) \/ Lose(r)
        PROVE  tab'[s].loaded
    <2>1. r.tab \in Tabs /\ r.name \in Logins \cup {NobodySignedIn} /\ r.yes \in BOOLEAN
          /\ tab[r.tab] \in TabStates
      BY DEF ClientTypeOK, ClientRequests
    <2>2. CASE StartAnswered(r)
      BY <1>3, <1>4, <2>1, <2>2 DEF StartAnswered
    <2>3. CASE CheckAnswered(r)
      BY <1>3, <1>4, <2>1, <2>3 DEF CheckAnswered
    <2>4. CASE MeAnswered(r)
      BY <1>1, <1>3, <1>4, <2>1, <2>4 DEF MeAnswered
    <2>5. CASE LogoutAnswered(r)
      BY <1>1, <1>3, <1>4, <2>1, <2>5 DEF LogoutAnswered
    <2>6. CASE SetupAnswered(r) \/ LoginAnswered(r) \/ PasswordAnswered(r)
      BY <1>1, <2>6 DEF SetupAnswered, LoginAnswered, PasswordAnswered
    <2>7. CASE Lose(r)
      <3>1. UNCHANGED tab \/ Becomes(r.tab, [tab[r.tab] EXCEPT !.loading = FALSE])
        BY <1>0, <2>1, <2>7 DEF Lose, Becomes
      <3> QED  BY <1>1, <1>3, <1>4, <2>1, <3>1
    <2> QED  BY <1>8, <2>2, <2>3, <2>4, <2>5, <2>6, <2>7 DEF Answer, Continue
  <1>9. ASSUME NEW r \in sent,
               \/ ServeMe(r) \/ ServeCheck(r) \/ ServeSetup(r) \/ ServeLogin(r)
               \/ ServeLogout(r) \/ ServePassword(r)
        PROVE  UNCHANGED tab
    BY <1>9, Served DEF ServedAs
  <1> QED
    BY <1>1, <1>5, <1>6, <1>7, <1>8, <1>9 DEF ClientNext, clientVars, SubmitLogin, SubmitSetup,
       PressLogout, SubmitPassword, SessionEnds

LEMMA AloneStep ==
    ASSUME ClientTypeOK, RequestsOfTabs, NoSetupInside, SessionsNumbered, AloneInv,
           [ClientNext]_clientVars
    PROVE  AloneInv'
  <1> SUFFICES ASSUME ~crossed', ~ended', NEW t \in Tabs, Alone(t)'
               PROVE  OneTab(t)'
    BY DEF AloneInv
  <1>1. Alone(t) /\ \A s \in Tabs \ {t} : ~tab'[s].loaded
    BY LoadedStays DEF Alone
  \* All requests are of t, before the step and after it.
  <1>2. \A r \in sent : r.tab = t
    BY <1>1 DEF RequestsOfTabs, Alone, ClientTypeOK, ClientRequests
  <1>3. CASE UNCHANGED clientVars
    <2>1. OneTab(t)
      BY <1>1, <1>3 DEF AloneInv, clientVars
    <2> QED
      BY <1>3, <2>1 DEF clientVars, OneTab, OneAtATime, ShownHasSession, SigningIn, Owner
  <1>4. ASSUME NEW s \in Tabs,
               \/ \E p \in {"/", "/users", tab[s].path} : LoadTab(s, p)
               \/ \E n \in Logins : SubmitLogin(s, n)
               \/ SubmitSetup(s) \/ PressLogout(s) \/ SubmitPassword(s)
               \/ \E p \in Links : FollowLink(s, p)
               \/ OpenMenu(s)
        PROVE  OneTab(t)'
    <2>1. s = t
      <3>1. ASSUME NEW p, LoadTab(s, p) PROVE tab'[s].loaded
        BY <3>1 DEF LoadTab, ClientTypeOK
      <3>2. tab[s].loaded \/ tab'[s].loaded
        BY <1>4, <3>1 DEF SubmitLogin, SubmitSetup, PressLogout, SubmitPassword, FollowLink,
           OpenMenu, Page
      <3> QED  BY <1>1, <3>2 DEF Alone
    <2>2. ~crossed /\ ~ended
      <3>1. ASSUME NEW p, LoadTab(s, p) PROVE ~crossed /\ ~ended
        BY <3>1 DEF LoadTab, SendNextTo
      <3>2. ASSUME NEW op, NEW n, Press(op, s, n) PROVE ~crossed /\ ~ended
        BY <3>2 DEF Press, SendNextTo
      <3>3. ASSUME NEW p, FollowLink(s, p) PROVE ~crossed /\ ~ended
        BY <3>3 DEF FollowLink
      <3>4. OpenMenu(s) => ~crossed /\ ~ended
        BY DEF OpenMenu
      <3> QED
        BY <1>4, <3>1, <3>2, <3>3, <3>4 DEF SubmitLogin, SubmitSetup, PressLogout, SubmitPassword
    <2> QED  BY <1>1, <1>2, <1>4, <2>1, <2>2, AloneTabs DEF AloneInv
  <1>5. ASSUME NEW r \in sent,
               \/ ServeMe(r) \/ ServeCheck(r) \/ ServeSetup(r) \/ ServeLogin(r)
               \/ ServeLogout(r) \/ ServePassword(r)
        PROVE  OneTab(t)'
    <2>1. PICK a : ServedAs(r, a)
      BY <1>5, Served
    <2>2. ~crossed /\ ~ended
      BY <2>1 DEF ServedAs
    <2> QED  BY <1>1, <2>1, <2>2, AloneServed DEF AloneInv
  <1>6. ASSUME NEW r \in sent, Answer(r)
        PROVE  OneTab(t)'
    <2>1. ~crossed /\ ~ended
      <3>1. StartAnswered(r) \/ CheckAnswered(r) => ~crossed
        BY DEF StartAnswered, CheckAnswered, SendNextTo
      <3>2. SetupAnswered(r) \/ LoginAnswered(r) => ~crossed
        BY DEF SetupAnswered, LoginAnswered, SendNextTo
      <3>3. MeAnswered(r) \/ LogoutAnswered(r) \/ PasswordAnswered(r) => ~crossed
        BY DEF MeAnswered, LogoutAnswered, PasswordAnswered
      <3> QED  BY <1>6, <3>1, <3>2, <3>3 DEF Answer, Continue
    <2> QED  BY <1>1, <1>2, <1>6, <2>1, AloneAnswered DEF AloneInv
  <1>7. (\A r \in sent : ~Lose(r)) /\ \A i \in Ids \ {0} : ~SessionEnds(i)
    BY DEF Lose, SessionEnds
  <1> QED  BY <1>3, <1>4, <1>5, <1>6, <1>7 DEF ClientNext

\* With nothing under way, the only tab of a browser that shows a user has the
\* cookie of a session of that user, however its loads, logins, logouts and
\* changes of the password followed each other: no request that signs in is
\* sent while a user is shown, and its answer names the cookie's owner.
THEOREM ShownIsSignedIn == ClientSpec => []ShownUserHasSession
  <1> DEFINE IInv == /\ ClientTypeOK /\ RequestsOfTabs /\ NoSetupInside
                     /\ SessionsNumbered /\ AloneInv
  <1>1. ClientInit => IInv
    BY TypesInit DEF ClientInit, RequestsOfTabs, NoSetupInside, SessionsNumbered, AloneInv,
       OneTab, OneAtATime, ShownHasSession
  <1>2. IInv /\ [ClientNext]_clientVars => IInv'
    BY TypesStep, SetupStep, NumbersStep, AloneStep
  <1>3. IInv => ShownUserHasSession
    BY DEF AloneInv, Alone, OneTab, ShownHasSession, ShownUserHasSession
  <1> QED  BY <1>1, <1>2, <1>3, PTL DEF ClientSpec
=============================================================================
