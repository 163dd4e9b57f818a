------------------------------ MODULE ClientSession ------------------------------
(***************************************************************************)
(* Who is signed in, as a tab of the browser sees it: AuthContext, the     *)
(* pages Login, Setup and Profile, the routes of AuthenticatedLayout and   *)
(* AppLayout and the two sidebars.  The tabs of a browser share the cookie *)
(* and nothing else.                                                       *)
(*                                                                         *)
(* A request carries the cookie of the moment it is sent; the cookie an    *)
(* answer sets or clears counts from the moment the answer arrives.  What  *)
(* the server does is reduced to what the client can tell: WebAccounts has *)
(* the handlers.                                                           *)
(***************************************************************************)
EXTENDS Naturals

CONSTANTS
    Tabs,               \* the open tabs
    Logins,             \* names that can be signed in with
    FirstAdmin,         \* the name that the setup registers
    NobodySignedIn,     \* no user
    Links,              \* bound: the paths of the links that are followed
    MaxClientRequests,  \* bound: forms sent and buttons pressed
    MaxLoads,           \* bound: loads of the application
    ClientBounds        \* bound: pairs of loads and requests that may come together

ASSUME FirstAdminAssumption == FirstAdmin \in Logins
ASSUME NobodyAssumption == NobodySignedIn \notin Logins
ASSUME ClientBoundsAssumption ==
    /\ MaxLoads \in Nat /\ MaxClientRequests \in Nat
    /\ ClientBounds \subseteq (0..MaxLoads) \X (0..MaxClientRequests)

VARIABLES
    hasAccounts,    \* has the setup been made
    live,           \* the sessions of the server: id -> name
    nextId,         \* the id of the next session
    cookie,         \* the session the cookie names, 0: no cookie
    tab,            \* the state of each tab
    sent,           \* requests on their way
    asked,          \* number of forms and buttons so far
    loads,          \* number of loads so far
    crossed,        \* was a request sent while another one was under way
    ended           \* did a session end, or an answer get lost, unseen by the tabs

clientVars == <<hasAccounts, live, nextId, cookie, tab, sent, asked, loads, crossed, ended>>

(* The first name is an admin's, the others are a developer's *)
RoleOf(n) == IF n = FirstAdmin THEN "admin" ELSE "dev"

AdminPaths == {"/users", "/logs", "/settings"}
AppPaths == {"/", "/backups", "/profile"} \cup AdminPaths
Paths == AppPaths \cup {"/login", "/setup"}

Ids == 0..MaxClientRequests

(* "entered": someone signed in since the load; "menu": the small screen's *)
(* sidebar is open                                                         *)
TabStates == [loaded : BOOLEAN, user : Logins \cup {NobodySignedIn}, loading : BOOLEAN,
              needsSetup : BOOLEAN, path : Paths, menu : BOOLEAN, entered : BOOLEAN]

(* A form's request is "live" as long as the page that sent it is there.   *)
ClientRequests ==
    [op : {"start", "check", "setup", "login", "me", "logout", "password"}, tab : Tabs,
     name : Logins \cup {NobodySignedIn}, cookie : Ids, live : BOOLEAN,
     answer : {"", "ok", "refused"}, id : Ids, yes : BOOLEAN]

ClientTypeOK ==
    /\ hasAccounts \in BOOLEAN
    /\ live \in [Ids -> Logins \cup {NobodySignedIn}]
    /\ nextId \in 1..MaxClientRequests + 1
    /\ cookie \in Ids
    /\ tab \in [Tabs -> TabStates]
    /\ sent \subseteq ClientRequests
    /\ asked \in 0..MaxClientRequests
    /\ loads \in 0..MaxLoads
    /\ crossed \in BOOLEAN /\ ended \in BOOLEAN

---------------------------------------------------------------------------
(* Routes. *)

(* Where a tab ends up that is at p: the redirects of the two layouts.     *)
(* Without a user every path shows the login form or leads to the setup;   *)
(* with one, a path that no route of AppLayout has shows nothing.          *)
Landing(s) ==
    IF s.loading THEN s.path
    ELSE IF s.user = NobodySignedIn
    THEN IF s.needsSetup THEN "/setup"
         ELSE IF s.path = "/setup" THEN "/login" ELSE s.path
    ELSE IF s.path \in AdminPaths /\ RoleOf(s.user) # "admin" THEN "/"
    ELSE s.path

(* A step of a tab: the redirects follow, the menu closes when the path    *)
(* changes                                                                 *)
Settle(t, s) ==
    LET p == Landing(s)
    IN  [s EXCEPT !.path = p, !.menu = @ /\ p = tab[t].path]

Becomes(t, s) == tab' = [tab EXCEPT ![t] = Settle(t, s)]

Page(t) == IF ~tab[t].loaded \/ tab[t].loading THEN "none"
           ELSE IF tab[t].user # NobodySignedIn THEN "app"
           ELSE IF tab[t].needsSetup THEN "setup" ELSE "login"

(* The sidebars: what they offer to a role.  The small one lists the       *)
(* backups twice for an admin.                                             *)
Menu(role) == {"/", "/profile"} \cup (IF role = "admin" THEN AdminPaths ELSE {})
                   \cup (IF role \in {"admin", "dev"} THEN {"/backups"} ELSE {})

---------------------------------------------------------------------------
(* Requests. *)

Request(op, t, n) == [op |-> op, tab |-> t, name |-> n, cookie |-> cookie, live |-> TRUE,
                      answer |-> "", id |-> 0, yes |-> FALSE]

(* sends the request q next to the requests R that stay under way *)
SendNextTo(R, q) ==
    /\ sent' = R \cup {q}
    /\ crossed' = (crossed \/ \E r \in R : r.op # "check")

FormPending(t) == \E r \in sent : r.tab = t /\ r.live /\ r.op \in {"setup", "login", "me"}

WithinBounds(l, r) == \E b \in ClientBounds : l <= b[1] /\ r <= b[2]

(* A load drops what the tab was waiting for and asks who is signed in *)
LoadTab(t, p) ==
    /\ WithinBounds(loads + 1, asked)
    /\ loads' = loads + 1
    /\ tab[t].loaded => p = tab[t].path
    /\ tab' = [tab EXCEPT ![t] =
                 [loaded |-> TRUE, user |-> NobodySignedIn, loading |-> TRUE,
                  needsSetup |-> FALSE, path |-> p, menu |-> FALSE, entered |-> FALSE]]
    /\ SendNextTo({r \in sent : r.tab # t}, Request("start", t, NobodySignedIn))
    /\ ended' = (ended \/ \E r \in sent : r.tab = t)
    /\ UNCHANGED <<hasAccounts, live, nextId, cookie, asked>>

Press(op, t, n) ==
    /\ WithinBounds(loads, asked + 1)
    /\ asked' = asked + 1
    /\ SendNextTo(sent, Request(op, t, n))
    /\ UNCHANGED <<hasAccounts, live, nextId, cookie, loads, ended>>

SubmitLogin(t, n) ==
    /\ Page(t) = "login" /\ ~FormPending(t)
    /\ Press("login", t, n) /\ UNCHANGED tab

SubmitSetup(t) ==
    /\ Page(t) = "setup" /\ ~FormPending(t)
    /\ Press("setup", t, FirstAdmin) /\ UNCHANGED tab

(* the button of both sidebars; it is never disabled *)
PressLogout(t) ==
    /\ Page(t) = "app"
    /\ Press("logout", t, NobodySignedIn) /\ UNCHANGED tab

(* a form that passes the checks of Profile.handleSubmit *)
SubmitPassword(t) ==
    /\ Page(t) = "app" /\ tab[t].path = "/profile"
    /\ ~\E r \in sent : r.tab = t /\ r.live /\ r.op = "password"
    /\ Press("password", t, NobodySignedIn) /\ UNCHANGED tab

(* a link of a sidebar; the form of Profile is gone with the page *)
FollowLink(t, p) ==
    /\ Page(t) = "app"
    /\ p \in Menu(RoleOf(tab[t].user)) \ {tab[t].path}
    /\ Becomes(t, [tab[t] EXCEPT !.path = p])
    /\ sent' = {[r EXCEPT !.live = @ /\ ~(r.tab = t /\ r.op = "password")] : r \in sent}
    /\ UNCHANGED <<hasAccounts, live, nextId, cookie, asked, loads, crossed, ended>>

OpenMenu(t) ==
    /\ Page(t) = "app" /\ ~tab[t].menu
    /\ tab' = [tab EXCEPT ![t].menu = TRUE]
    /\ UNCHANGED <<hasAccounts, live, nextId, cookie, sent, asked, loads, crossed, ended>>

---------------------------------------------------------------------------
(* The server. *)

Owner(c) == IF c = 0 THEN NobodySignedIn ELSE live[c]

Answered(r, a) == sent' = (sent \ {r}) \cup {a}

Refusal(r) == Answered(r, [r EXCEPT !.answer = "refused"])

(* GET /auth/me *)
ServeMe(r) ==
    /\ r.op \in {"start", "me"} /\ r.answer = ""
    /\ IF Owner(r.cookie) = NobodySignedIn
       THEN Refusal(r)
       ELSE Answered(r, [r EXCEPT !.answer = "ok", !.name = Owner(r.cookie)])
    /\ UNCHANGED <<hasAccounts, live, nextId, cookie, tab, asked, loads, crossed, ended>>

ServeCheck(r) ==
    /\ r.op = "check" /\ r.answer = ""
    /\ Answered(r, [r EXCEPT !.answer = "ok", !.yes = ~hasAccounts])
    /\ UNCHANGED <<hasAccounts, live, nextId, cookie, tab, asked, loads, crossed, ended>>

ServeSetup(r) ==
    /\ r.op = "setup" /\ r.answer = ""
    /\ IF hasAccounts THEN Refusal(r) ELSE Answered(r, [r EXCEPT !.answer = "ok"])
    /\ hasAccounts' = TRUE
    /\ UNCHANGED <<live, nextId, cookie, tab, asked, loads, crossed, ended>>

ServeLogin(r) ==
    /\ r.op = "login" /\ r.answer = ""
    /\ \/ /\ hasAccounts /\ nextId \in Ids
          /\ live' = [live EXCEPT ![nextId] = r.name]
          /\ nextId' = nextId + 1
          /\ Answered(r, [r EXCEPT !.answer = "ok", !.id = nextId])
       \/ Refusal(r) /\ UNCHANGED <<live, nextId>>      \* a wrong name or password
    /\ UNCHANGED <<hasAccounts, cookie, tab, asked, loads, crossed, ended>>

(* Behind AuthMiddleware: without a session the handler is not reached, and *)
(* the cookie is not cleared                                               *)
ServeLogout(r) ==
    /\ r.op = "logout" /\ r.answer = ""
    /\ IF Owner(r.cookie) = NobodySignedIn
       THEN Refusal(r) /\ UNCHANGED live
       ELSE /\ live' = [live EXCEPT ![r.cookie] = NobodySignedIn]
            /\ Answered(r, [r EXCEPT !.answer = "ok"])
    /\ UNCHANGED <<hasAccounts, nextId, cookie, tab, asked, loads, crossed, ended>>

(* A new password ends every session of the user *)
ServePassword(r) ==
    /\ r.op = "password" /\ r.answer = ""
    /\ \/ /\ Owner(r.cookie) # NobodySignedIn
          /\ live' = [i \in Ids |-> IF live[i] = Owner(r.cookie) THEN NobodySignedIn ELSE live[i]]
          /\ Answered(r, [r EXCEPT !.answer = "ok"])
          /\ ended' = TRUE
       \/ Refusal(r) /\ UNCHANGED <<live, ended>>
    /\ UNCHANGED <<hasAccounts, nextId, cookie, tab, asked, loads, crossed>>

(* a session expires, or an administrator ends it *)
SessionEnds(i) ==
    /\ live[i] # NobodySignedIn
    /\ live' = [live EXCEPT ![i] = NobodySignedIn]
    /\ ended' = TRUE
    /\ UNCHANGED <<hasAccounts, nextId, cookie, tab, sent, asked, loads, crossed>>

---------------------------------------------------------------------------
(* Answers.  Each continuation is the code behind an await of AuthContext  *)
(* or of the form's handler.                                               *)

(* fetchMe of the load; the check is sent and not waited for *)
StartAnswered(r) ==
    /\ r.op = "start"
    /\ IF r.answer = "ok"
       THEN /\ Becomes(r.tab, [tab[r.tab] EXCEPT !.user = r.name, !.loading = FALSE,
                                                 !.entered = TRUE])
            /\ sent' = sent \ {r} /\ UNCHANGED crossed
       ELSE /\ Becomes(r.tab, [tab[r.tab] EXCEPT !.loading = FALSE])
            /\ SendNextTo(sent \ {r}, Request("check", r.tab, NobodySignedIn))
    /\ UNCHANGED <<hasAccounts, live, nextId, cookie, asked, loads>>

(* The answer may find a tab where someone has signed in meanwhile; a form *)
(* that is on the screen gives way to the other one                        *)
CheckAnswered(r) ==
    /\ r.op = "check"
    /\ Becomes(r.tab, [tab[r.tab] EXCEPT !.needsSetup = r.yes])
    /\ sent' = {[q EXCEPT !.live = @ /\ ~(q.tab = r.tab /\ r.yes)] : q \in sent \ {r}}
    /\ crossed' = (crossed \/ tab[r.tab].entered \/ \E q \in sent \ {r} : q.tab = r.tab)
    /\ UNCHANGED <<hasAccounts, live, nextId, cookie, asked, loads>>

(* setup, then login with the same name *)
SetupAnswered(r) ==
    /\ r.op = "setup"
    /\ IF r.answer = "ok"
       THEN SendNextTo(sent \ {r}, [Request("login", r.tab, r.name) EXCEPT !.live = r.live])
       ELSE sent' = sent \ {r} /\ UNCHANGED crossed
    /\ UNCHANGED <<hasAccounts, live, nextId, cookie, tab, asked, loads>>

LoginAnswered(r) ==
    /\ r.op = "login"
    /\ IF r.answer = "ok"
       THEN /\ cookie' = r.id
            /\ SendNextTo(sent \ {r}, [Request("me", r.tab, NobodySignedIn)
                                         EXCEPT !.cookie = r.id, !.live = r.live])
       ELSE sent' = sent \ {r} /\ UNCHANGED <<cookie, crossed>>
    /\ UNCHANGED <<hasAccounts, live, nextId, tab, asked, loads>>

\* Mutant: who signed in may still be led to the setup.
MeKeepsSetup(r) ==
    /\ r.op = "me"
    /\ IF r.answer = "ok"
       THEN Becomes(r.tab, [tab[r.tab] EXCEPT !.user = r.name, !.path = "/", !.entered = TRUE])
       ELSE UNCHANGED tab
    /\ sent' = sent \ {r}
    /\ UNCHANGED <<hasAccounts, live, nextId, cookie, asked, loads, crossed>>

(* setUser and setNeedsSetup(false); the form's handler goes to "/" *)
MeAnswered(r) ==
    /\ r.op = "me"
    /\ IF r.answer = "ok"
       THEN Becomes(r.tab, [tab[r.tab] EXCEPT !.user = r.name, !.needsSetup = FALSE,
                                              !.path = "/", !.entered = TRUE])
       ELSE UNCHANGED tab
    /\ sent' = sent \ {r}
    /\ UNCHANGED <<hasAccounts, live, nextId, cookie, asked, loads, crossed>>

\* Mutant: the session and the cookie go, the user stays.
LogoutKeepsUser(r) ==
    /\ r.op = "logout"
    /\ cookie' = IF r.answer = "ok" THEN 0 ELSE cookie
    /\ sent' = sent \ {r}
    /\ UNCHANGED <<hasAccounts, live, nextId, tab, asked, loads, crossed>>

(* setUser(null) only behind a good answer; nobody catches a bad one *)
LogoutAnswered(r) ==
    /\ r.op = "logout"
    /\ IF r.answer = "ok"
       THEN /\ cookie' = 0
            /\ Becomes(r.tab, [tab[r.tab] EXCEPT !.user = NobodySignedIn, !.menu = FALSE])
       ELSE UNCHANGED <<cookie, tab>>
    /\ sent' = sent \ {r}
    /\ UNCHANGED <<hasAccounts, live, nextId, asked, loads, crossed>>

(* The cookie is gone, and the page says "You have been logged out"; the   *)
(* user stays in the tab                                                   *)
PasswordAnswered(r) ==
    /\ r.op = "password"
    /\ cookie' = IF r.answer = "ok" THEN 0 ELSE cookie
    /\ sent' = sent \ {r}
    /\ UNCHANGED <<hasAccounts, live, nextId, tab, asked, loads, crossed>>

Continue(r) ==
    \/ StartAnswered(r) \/ CheckAnswered(r) \/ SetupAnswered(r) \/ LoginAnswered(r)
    \/ MeAnswered(r) \/ LogoutAnswered(r) \/ PasswordAnswered(r)

Answer(r) == r.answer # "" /\ Continue(r) /\ UNCHANGED ended

(* The answer is lost, whatever the server did: the code runs as if the    *)
(* request had been refused                                                *)
Lose(r) ==
    \E q \in {[r EXCEPT !.answer = "refused"]} :
        /\ \/ q.op = "start" /\ tab' = [tab EXCEPT ![r.tab] =
                                          Settle(r.tab, [@ EXCEPT !.loading = FALSE])]
                             /\ sent' = (sent \ {r}) \cup {Request("check", r.tab, NobodySignedIn)}
           \/ q.op # "start" /\ sent' = sent \ {r} /\ UNCHANGED tab
        /\ ended' = TRUE
        /\ UNCHANGED <<hasAccounts, live, nextId, cookie, asked, loads, crossed>>

ClientInit ==
    /\ hasAccounts \in BOOLEAN
    /\ live = [i \in Ids |-> NobodySignedIn] /\ nextId = 1 /\ cookie = 0
    /\ tab = [t \in Tabs |->
                [loaded |-> FALSE, user |-> NobodySignedIn, loading |-> FALSE,
                 needsSetup |-> FALSE, path |-> "/", menu |-> FALSE, entered |-> FALSE]]
    /\ sent = {} /\ asked = 0 /\ loads = 0 /\ crossed = FALSE /\ ended = FALSE

ClientNext ==
    \/ \E t \in Tabs : \E p \in {"/", "/users", tab[t].path} : LoadTab(t, p)
    \/ \E t \in Tabs : \/ \E n \in Logins : SubmitLogin(t, n)
                       \/ SubmitSetup(t) \/ PressLogout(t) \/ SubmitPassword(t)
                       \/ \E p \in Links : FollowLink(t, p)
                       \/ OpenMenu(t)
    \/ \E r \in sent : \/ ServeMe(r) \/ ServeCheck(r) \/ ServeSetup(r) \/ ServeLogin(r)
                       \/ ServeLogout(r) \/ ServePassword(r)
                       \/ Answer(r) \/ Lose(r)
    \/ \E i \in Ids \ {0} : SessionEnds(i)

ClientSpec == ClientInit /\ [][ClientNext]_clientVars

---------------------------------------------------------------------------
(* With nothing under way, a tab that shows a user, alone in its browser,  *)
(* has the cookie of a session of that user; sessions that ended on the    *)
(* server, lost answers and requests that crossed are excepted.            *)
ShownUserHasSession ==
    ~crossed /\ ~ended /\ sent = {} =>
        \A t \in Tabs : tab[t].user # NobodySignedIn
                        /\ (\A s \in Tabs \ {t} : ~tab[s].loaded)
                        => Owner(cookie) = tab[t].user

(* Once someone signed in in a tab the setup is not offered there again, if *)
(* the question whether it is needed was answered before                   *)
SetupNotOfferedAgain ==
    ~crossed => \A t \in Tabs : tab[t].entered => Page(t) # "setup"

=============================================================================
