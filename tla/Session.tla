------------------------------ MODULE Session ------------------------------
(* Who is signed in, as the SPA believes and as the browser's cookie says: the    *)
(* session store, the router's guard, the login and logout features and the        *)
(* redirects of the REST and GraphQL clients.  A visit starts with the page load,  *)
(* whose first navigation waits for the answer to /api/auth/me.  Every other one   *)
(* is guarded at once, but the page it goes to is a chunk still to be fetched: it  *)
(* lands later, is given up for a newer one, or fails.                             *)
EXTENDS Naturals

CONSTANTS
    Accounts, NoUser,
    Pages,              \* routes with a required role
    Home,               \* the page a login leads to by default, /cluster
    Rank,               \* the best role rank of each account
    Required            \* the role rank each page requires

ASSUME RolesAssumption ==
    /\ NoUser \notin Accounts
    /\ Pages \cap {"blank", "empty", "login", "forbidden", "none", "lost"} = {}
    /\ Home \in Pages
    /\ Rank \in [Accounts -> 1..4]
    /\ Required \in [Pages -> 1..4]

VARIABLES
    user,               \* session.user
    view,               \* the route shown, "blank" until the first navigation settles,
                        \* "empty" when that failed
    bound,              \* on a blank page the route the first navigation asked for, then
                        \* where the one past the guard is going; "none" if the last one
                        \* landed, "lost" if it failed or was called off
    form,               \* the login form: "idle", "posting", or "probing" /me
    leaving,            \* POST /api/auth/logout in flight
    asking,             \* a GraphQL query of the shown page in flight
    cookie              \* the account whose valid session the cookie names

sessionVars == <<user, view, bound, form, leaving, asking, cookie>>

Routes == Pages \cup {"login", "forbidden"}
Nobody == user = NoUser
HasRole(u, required) == u # NoUser /\ Rank[u] >= required

\* The guard: where a navigation to a route ends for a given session.  Only the
\* login route is public.
Landing(u, to) ==
    IF to = "login" \/ u = NoUser THEN "login"
    ELSE IF to \in Pages /\ ~HasRole(u, Required[to]) THEN "forbidden" ELSE to

\* A page load; its first navigation probes the session before it lands.
Load(to) ==
    /\ user' = NoUser
    /\ view' = "blank"
    /\ bound' = to
    /\ form' = "idle"
    /\ leaving' = FALSE
    /\ asking' = FALSE

SessionInit ==
    /\ user = NoUser
    /\ view = "blank"
    /\ bound \in Routes
    /\ form = "idle"
    /\ leaving = FALSE
    /\ asking = FALSE
    /\ cookie \in Accounts \cup {NoUser}

\* refresh(): 200 names the account, 401 clears it, and any other failure is
\* logged and leaves the store as it was.
Refreshed(u) == u \in {cookie, user}

\* The shell is mounted when the first navigation has landed or failed.
BootProbed ==
    /\ view = "blank"
    /\ Refreshed(user')
    /\ \/ view' = Landing(user', bound) /\ bound' = "none"
       \/ view' = "empty" /\ bound' = "lost"
    /\ UNCHANGED <<form, leaving, asking, cookie>>

\* A link, the address bar or the history: the guard decides at once, and the
\* navigation replaces the one on its way.  One to the route on show is called
\* off before the guard, and the one on its way with it.
Navigate(to) ==
    /\ view # "blank"
    /\ \/ bound' = Landing(user, to)
       \/ to = view /\ bound # "none" /\ bound' = "lost"
    /\ UNCHANGED <<user, view, form, leaving, asking, cookie>>

\* The chunk of the page is there.
Land ==
    /\ view # "blank"
    /\ bound \in Routes
    /\ view' = bound
    /\ bound' = "none"
    /\ asking' = FALSE
    /\ UNCHANGED <<user, form, leaving, cookie>>

\* The chunk cannot be fetched: the router has no onError, the view stays.
LandFails ==
    /\ view # "blank"
    /\ bound \in Routes
    /\ bound' = "lost"
    /\ UNCHANGED <<user, view, form, leaving, asking, cookie>>

\* The form's button is dead while it is pending.
Submit ==
    /\ view = "login"
    /\ form = "idle"
    /\ form' = "posting"
    /\ UNCHANGED <<user, view, bound, leaving, asking, cookie>>

LoginAnswered ==
    /\ form = "posting"
    /\ \/ form' = "probing" /\ cookie' \in Accounts
       \/ form' = "idle" /\ UNCHANGED cookie
    /\ UNCHANGED <<user, view, bound, leaving, asking>>

\* submit() answers true however the probe went, and the form moves on: to the
\* query's next if the login page is still on show.
LoginProbed ==
    /\ form = "probing"
    /\ Refreshed(user')
    /\ form' = "idle"
    /\ \E next \in IF view = "login" THEN Routes ELSE {Home} :
         bound' = Landing(user', next)
    /\ UNCHANGED <<view, leaving, asking, cookie>>

SignOut ==
    /\ view \notin {"blank", "login"}
    /\ user # NoUser
    /\ leaving' = TRUE
    /\ UNCHANGED <<user, view, bound, form, asking, cookie>>

\* Mutant: the top bar leaves the way to the login page to the next click.
LogoutAnsweredStaying ==
    /\ leaving
    /\ leaving' = FALSE
    /\ cookie' \in {cookie, NoUser}
    /\ user' = NoUser
    /\ UNCHANGED <<view, bound, form, asking>>

\* performLogout(): the local session ends even when the request failed, and the
\* top bar goes to the login page.  What is on show stays until that lands.
LogoutAnswered ==
    /\ leaving
    /\ leaving' = FALSE
    /\ cookie' \in {cookie, NoUser}
    /\ user' = NoUser
    /\ bound' = "login"
    /\ UNCHANGED <<view, form, asking>>

Ask ==
    /\ view \in Pages
    /\ ~asking
    /\ asking' = TRUE
    /\ UNCHANGED <<user, view, bound, form, leaving, cookie>>

\* The middleware's 401 has no GraphQL errors array: it is a network error to the
\* client, which only logs it.  A 403 of a resolver is a GraphQL error.
AskAnswered ==
    /\ asking
    /\ asking' = FALSE
    /\ UNCHANGED <<user, view, bound, form, leaving, cookie>>

AskForbidden ==
    /\ asking
    /\ cookie # NoUser
    /\ Load("forbidden")
    /\ UNCHANGED cookie

\* A REST call of the shown page is refused: 401 reloads at /login, 403 at
\* /forbidden.
RestRefused ==
    /\ view \in Pages
    /\ IF cookie = NoUser THEN Load("login") ELSE Load("forbidden")
    /\ UNCHANGED cookie

\* The session expires, or another tab signs in or out.
CookieChanges ==
    /\ cookie' \in (Accounts \cup {NoUser}) \ {cookie}
    /\ UNCHANGED <<user, view, bound, form, leaving, asking>>
----------------------------------------------------------------------------
SessionTypeOK ==
    /\ user \in Accounts \cup {NoUser}
    /\ view \in Routes \cup {"blank", "empty"}
    /\ bound \in Routes \cup {"none", "lost"}
    /\ view = "blank" => bound \in Routes
    /\ form \in {"idle", "posting", "probing"}
    /\ leaving \in BOOLEAN
    /\ asking \in BOOLEAN
    /\ cookie \in Accounts \cup {NoUser}

\* Whatever signing in and out, failing probes, other tabs and pages that come
\* late or never do: a navigation past the guard leads to a page only if the
\* session of now admits it, and a page on show that the session does not admit
\* is being left, or could not be (the guard of router/index.ts decides once;
\* nothing re-checks a page that is shown or on its way).
AdmittedView ==
    /\ view # "blank" /\ bound \in Pages => HasRole(user, Required[bound])
    /\ view \in Pages => HasRole(user, Required[view]) \/ bound # "none"
============================================================================
