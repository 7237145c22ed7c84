------------------------------ MODULE WebSession ------------------------------
(***************************************************************************)
(* One browser and the BFF: the tabs with their auth stores, the cookies    *)
(* they share, the requests in flight, the processes of the web server with *)
(* their table of refreshes, and Core's tokens (rotated on every refresh,   *)
(* the old one blacklisted, the access token good until it lapses).         *)
(*                                                                          *)
(* A request reads the cookies when it leaves the browser and changes them  *)
(* when its response arrives, so responses may arrive in any order.  Steps  *)
(* of one request between two awaits are one action.                        *)
(***************************************************************************)
EXTENDS SessionRules

CONSTANTS Tabs,
          Processes,     \* of the web server
          Requests,      \* requests in flight at the same time
          MaxCsrf,       \* CSRF tokens minted, in all
          MaxActs,       \* things the user does, in all
          Asked,         \* what the user may do besides moving between pages
          Lossy          \* may a response get lost?

ASSUME BoundAssumption == MaxCsrf \in Nat /\ MaxActs \in Nat /\ Lossy \in BOOLEAN
ASSUME TabsAssumption == Tabs # {}

VARIABLES issued,      \* Core: the last pair issued
          revoked,     \*   blacklisted refresh tokens
          lapsed,      \*   access tokens that are too old
          active,      \*   is the account active?
          late,        \*   refresh tokens of abandoned rotations still to be served
          refreshes,   \* each process: the refresh in flight for a token
          req,         \* requests in flight
          jar,         \* the browser's auth cookies
          csrf,        \* its csrf-token cookie, the last one minted, what each tab holds
          store,       \* each tab: the auth store
          seen,        \*   the session resolution last given to AuthSessionBootstrap
          page,        \*   the page it shows
          redirected,  \*   redirectStartedRef of ProtectedRoute
          persisted,   \* localStorage: isAuthenticated
          acts         \* what the user may still do

core == <<issued, revoked, lapsed, active, late>>
browser == <<jar, csrf, store, seen, page, redirected, persisted>>
vars == <<core, refreshes, req, browser, acts>>

-----------------------------------------------------------------------------
(* Requests and refreshes *)

Steps == {"free", "arrives", "profile", "profile2", "call", "call2", "anonymous",
          "refresh", "waits", "signs in", "revokes", "revokes all", "replied"}
Statuses == {"none", "ok", "minted", "denied", "forbidden", "failed"} \cup Resolutions

Free == [kind |-> "load", tab |-> CHOOSE t \in Tabs : TRUE,
         proc |-> "none", then |-> "home", more |-> "nowhere",
         good |-> FALSE, using |-> 0, refresh |-> 0, token |-> 0, step |-> "free",
         status |-> "none", order |-> Keep]

\* A request of tab t as it leaves the browser with the cookies c and the CSRF
\* tokens x.  `using` is the access token it goes on with; `then` the page it is
\* for, or the mutation a CSRF token is fetched for; `more` the page to go on to;
\* `good` that the header has the cookie's CSRF token, `token`.
SentWith(c, x, t, p, kind, then, more) ==
    [Free EXCEPT !.kind = kind, !.tab = t, !.proc = p, !.then = then, !.more = more,
                 !.good = x.held[t] # 0 /\ x.held[t] = x.cookie,
                 !.using = c.access, !.refresh = c.refresh, !.token = x.cookie,
                 !.step = "arrives"]

Refreshes == [state : {"none", "sent", "checked", "refused", "rotated"}, pair : Cookie]
NoRefresh == [state |-> "none", pair |-> 0]

Goes(r, step) == req' = [req EXCEPT ![r].step = step]
Replies(r, status, order) ==
    req' = [req EXCEPT ![r].step = "replied", ![r].using = 0,
                       ![r].status = status, ![r].order = order]

TypeOK ==
    /\ issued \in Cookie
    /\ revoked \subseteq Pairs /\ lapsed \subseteq Pairs /\ late \subseteq Pairs
    /\ active \in BOOLEAN
    /\ refreshes \in [Processes -> [Pairs -> Refreshes]]
    /\ req \in [Requests ->
         [kind : Kinds, tab : Tabs, proc : Processes \cup {"none"}, then : Pages \cup Kinds,
          more : Pages \cup {"nowhere"}, good : BOOLEAN, using : Cookie,
          refresh : Cookie, token : 0 .. MaxCsrf, step : Steps, status : Statuses, order : Orders]]
    /\ jar \in [access : Cookie, refresh : Cookie]
    /\ csrf \in [cookie : 0 .. MaxCsrf, minted : 0 .. MaxCsrf,
                 held : [Tabs -> 0 .. MaxCsrf]]
    /\ store \in [Tabs -> Store]
    /\ seen \in [Tabs -> Resolutions]
    /\ page \in [Tabs -> Pages]
    /\ redirected \in [Tabs -> BOOLEAN]
    /\ persisted \in BOOLEAN
    /\ acts \in 0 .. MaxActs

\* A browser without cookies, or one that signed in a while ago
Init ==
    /\ issued \in {0, 1} \cap Cookie /\ revoked = {} /\ lapsed = {} /\ active = TRUE /\ late = {}
    /\ refreshes = [p \in Processes |-> [k \in Pairs |-> NoRefresh]]
    /\ req = [r \in Requests |-> Free]
    /\ jar = [access |-> issued, refresh |-> issued]
    /\ csrf = [cookie |-> 0, minted |-> 0, held |-> [t \in Tabs |-> 0]]
    /\ store = [t \in Tabs |-> IF issued = 0 THEN Anonymous ELSE AuthenticatedUser]
    /\ seen = [t \in Tabs |-> IF issued = 0 THEN "anonymous" ELSE "authenticated"]
    /\ page \in [Tabs -> IF issued = 0 THEN {"home"} ELSE {"home", "protected"}]
    /\ redirected = [t \in Tabs |-> FALSE]
    /\ persisted = (issued # 0)
    /\ acts = MaxActs

-----------------------------------------------------------------------------
(* Core, apart from answering *)

\* An access token gets older than its hour.
AccessLapses(k) ==
    /\ k \in 1 .. issued /\ k \notin lapsed
    /\ \A r \in Requests : req[r].step \in {"profile2", "call2"} => req[r].using # k
    /\ lapsed' = lapsed \cup {k}
    /\ UNCHANGED <<issued, revoked, active, late, refreshes, req, browser, acts>>

\* Its cookie, with the same maximum age, goes after it.
CookieLapses ==
    /\ jar.access \in lapsed
    /\ jar' = [jar EXCEPT !.access = 0]
    /\ UNCHANGED <<core, refreshes, req, csrf, store, seen, page, redirected, persisted, acts>>

\* The csrf-token cookie gets older than its maximum age, which nothing renews; the
\* tabs keep what they hold.
CsrfLapses ==
    /\ csrf.cookie # 0
    /\ csrf' = [csrf EXCEPT !.cookie = 0]
    /\ UNCHANGED <<core, refreshes, req, jar, store, seen, page, redirected, persisted, acts>>

\* The account is deactivated.
Deactivate ==
    /\ active /\ acts > 0
    /\ active' = FALSE
    /\ acts' = acts - 1
    /\ UNCHANGED <<issued, revoked, lapsed, late, refreshes, req, browser>>

\* Core gets to a rotation whose caller has given up.
LateRotation(k) ==
    /\ k \in late
    /\ late' = late \ {k}
    /\ IF k \in revoked \/ ~active
       THEN UNCHANGED <<issued, revoked>>
       ELSE /\ issued < MaxPair
            /\ issued' = issued + 1
            /\ revoked' = revoked \cup {k}
    /\ UNCHANGED <<lapsed, active, refreshes, req, browser, acts>>

Accepts(k) == k # 0 /\ k \notin lapsed /\ active

-----------------------------------------------------------------------------
(* The BFF: a request arrives *)

\* getSessionFn
SessionArrives(r) ==
    /\ req[r].step = "arrives" /\ req[r].kind \in Sessions
    /\ CASE req[r].using = 0 /\ req[r].refresh = 0 -> Replies(r, "anonymous", Keep)
         [] req[r].using # 0 -> Goes(r, "profile")
         [] OTHER -> Goes(r, "refresh")
    /\ UNCHANGED <<core, refreshes, browser, acts>>

\* The POST routes check the CSRF token first.
CsrfFailure(r) ==
    /\ req[r].step = "arrives" /\ IsMutation(req[r].kind)
    /\ ~req[r].good
    /\ Replies(r, "forbidden", Keep)
    /\ UNCHANGED <<core, refreshes, browser, acts>>

Admitted(r) == req[r].step = "arrives" /\ (IsMutation(req[r].kind) => req[r].good)

\* forwardCoreRequest up to its first await
ForwardCoreRequest(r) ==
    /\ Admitted(r) /\ req[r].kind \in {"private", "write", "public", "reset"}
    /\ CASE req[r].kind = "reset" -> Goes(r, "anonymous")
         [] req[r].kind # "reset" /\ req[r].using # 0 -> Goes(r, "call")
         [] OTHER -> Goes(r, "refresh")
    /\ UNCHANGED <<core, refreshes, browser, acts>>

\* createAuthenticatedSession reads the body, or answers 413 or 400.
SigninArrives(r) ==
    /\ Admitted(r) /\ req[r].kind = "signin"
    /\ \/ Goes(r, "signs in")
       \/ Replies(r, "failed", Keep)
    /\ UNCHANGED <<core, refreshes, browser, acts>>

\* destroyAuthenticatedSession tells Core only with an access token to tell it with.
LogoutArrives(r) ==
    /\ Admitted(r) /\ req[r].kind \in Logouts
    /\ IF req[r].using # 0
       THEN Goes(r, "revokes")
       ELSE Replies(r, "ok", Clear)
    /\ UNCHANGED <<core, refreshes, browser, acts>>

\* getOrCreateCsrfToken: the cookie, or a new one
CsrfArrives(r) ==
    /\ req[r].step = "arrives" /\ req[r].kind = "csrf"
    /\ IF req[r].token # 0
       THEN Replies(r, "ok", Keep) /\ UNCHANGED csrf
       ELSE /\ csrf.minted < MaxCsrf
            /\ csrf' = [csrf EXCEPT !.minted = @ + 1]
            /\ req' = [req EXCEPT ![r].step = "replied", ![r].status = "minted",
                                  ![r].token = csrf.minted + 1]
    /\ UNCHANGED <<core, refreshes, jar, store, seen, page, redirected, persisted, acts>>

-----------------------------------------------------------------------------
(* The BFF: calls of Core with a token *)

Succeeds(kind) == IF kind \in Sessions THEN "authenticated" ELSE "ok"
Denied(kind) == IF kind \in Sessions THEN "expired" ELSE "denied"

CallAccepted(r) ==
    /\ req[r].step \in {"profile", "profile2", "call", "call2"}
    /\ Accepts(req[r].using)
    /\ Replies(r, Succeeds(req[r].kind), req[r].order)
    /\ UNCHANGED <<core, refreshes, browser, acts>>

\* A first 401 leads to a refresh, unless the session has nothing to refresh with.
FirstCallDenied(r) ==
    /\ req[r].step \in {"profile", "call"}
    /\ ~Accepts(req[r].using)
    /\ IF req[r].step = "profile" /\ req[r].refresh = 0
       THEN Replies(r, "expired", Clear)
       ELSE Goes(r, "refresh")
    /\ UNCHANGED <<core, refreshes, browser, acts>>

\* A second one is final, but for a public read.
SecondCallDenied_copied(r) ==
    /\ req[r].step \in {"profile2", "call2"}
    /\ ~Accepts(req[r].using)
    /\ IF req[r].kind \in Sessions
       THEN Replies(r, "expired", Clear)
       ELSE Replies(r, "denied", req[r].order)
    /\ UNCHANGED <<core, refreshes, browser, acts>>
SecondCallDenied(r) ==
    /\ req[r].step \in {"profile2", "call2"}
    /\ ~Accepts(req[r].using)
    /\ CASE req[r].kind \in Sessions -> Replies(r, "expired", Clear)
         [] ToleratesNoToken(req[r].kind) -> Goes(r, "anonymous")
         [] OTHER -> Replies(r, "denied", req[r].order)
    /\ UNCHANGED <<core, refreshes, browser, acts>>

\* A timeout, a lost connection or a 5xx
Failures(kind) == IF kind \in Sessions THEN Degraded ELSE {"failed"}
CallFails(r) ==
    /\ req[r].step \in {"profile", "profile2", "call", "call2", "anonymous", "signs in"}
    /\ \E status \in Failures(req[r].kind) : Replies(r, status, req[r].order)
    /\ UNCHANGED <<core, refreshes, browser, acts>>

\* Core serves without a token: public data and the password paths.
AnonymousCall(r) ==
    /\ req[r].step = "anonymous"
    /\ Replies(r, "ok", req[r].order)
    /\ UNCHANGED <<core, refreshes, browser, acts>>

-----------------------------------------------------------------------------
(* The BFF: refreshAuthCookies *)

\* Requests of one process with the same refresh token wait for one rotation.
JoinRefresh(r) ==
    LET p == req[r].proc
        k == req[r].refresh
    IN /\ req[r].step = "refresh"
       /\ CASE k # 0 ->
                 /\ Goes(r, "waits")
                 /\ refreshes' = IF refreshes[p][k] = NoRefresh
                                 THEN [refreshes EXCEPT ![p][k].state = "sent"]
                                 ELSE refreshes
            [] k = 0 /\ ToleratesNoToken(req[r].kind) ->
                 Goes(r, "anonymous") /\ UNCHANGED refreshes
            [] OTHER ->
                 Replies(r, Denied(req[r].kind), req[r].order) /\ UNCHANGED refreshes
       /\ UNCHANGED <<core, browser, acts>>

\* Core's rotation looks the token up, then blacklists it and issues a new pair.
CheckRotation(p, k) ==
    /\ refreshes[p][k].state = "sent"
    /\ refreshes' = [refreshes EXCEPT ![p][k].state =
                        IF k \in revoked \/ ~active THEN "refused" ELSE "checked"]
    /\ UNCHANGED <<core, req, browser, acts>>

Rotate(p, k) ==
    /\ refreshes[p][k].state = "checked"
    /\ issued < MaxPair
    /\ issued' = issued + 1
    /\ revoked' = revoked \cup {k}
    /\ refreshes' = [refreshes EXCEPT ![p][k] = [state |-> "rotated", pair |-> issued + 1]]
    /\ UNCHANGED <<lapsed, active, late, req, browser, acts>>

Waiting(r, p, k) == req[r].step = "waits" /\ req[r].proc = p /\ req[r].refresh = k

\* What a request does when the rotation it waits for has given pair n, ...
Refreshed(q, n) ==
    [q EXCEPT !.order = n, !.using = n,
              !.step = CASE q.kind \in Sessions -> "profile2"
                         [] q.kind \notin Sessions /\ q.using = 0 -> "call"
                         [] OTHER -> "call2"]
\* ... was refused, which clears the cookies, ...
Refused(q) ==
    IF ToleratesNoToken(q.kind)
    THEN [q EXCEPT !.order = Clear, !.step = "anonymous"]
    ELSE [q EXCEPT !.order = Clear, !.step = "replied", !.using = 0,
                   !.status = Denied(q.kind)]
\* ... or failed.
Failed_clears(q, status) ==
    IF ToleratesNoToken(q.kind)
    THEN [q EXCEPT !.order = Clear, !.step = "anonymous"]
    ELSE [q EXCEPT !.order = Clear, !.step = "replied", !.using = 0, !.status =
                     IF q.kind \in Sessions THEN status ELSE "failed"]
Failed(q, status) ==
    IF ToleratesNoToken(q.kind)
    THEN [q EXCEPT !.step = "anonymous"]
    ELSE [q EXCEPT !.step = "replied", !.using = 0, !.status =
                     IF q.kind \in Sessions THEN status ELSE "failed"]

\* The promise settles: it leaves the table, and all who wait for it go on.
SettleRefresh(p, k) ==
    LET settled == refreshes[p][k]
    IN /\ settled.state \in {"refused", "rotated"}
       /\ refreshes' = [refreshes EXCEPT ![p][k] = NoRefresh]
       /\ req' = [r \in Requests |->
                     CASE ~Waiting(r, p, k) -> req[r]
                       [] Waiting(r, p, k) /\ settled.state = "rotated" ->
                            Refreshed(req[r], settled.pair)
                       [] OTHER -> Refused(req[r])]
       /\ UNCHANGED <<core, browser, acts>>

\* The answer is late, lost or a 5xx.  Core may have served the rotation, may
\* still serve it, or may never see it.
FailRefresh(p, k) ==
    /\ refreshes[p][k].state \in {"sent", "refused", "rotated"}
    /\ refreshes' = [refreshes EXCEPT ![p][k] = NoRefresh]
    /\ \E status \in Degraded :
         req' = [r \in Requests |->
                   IF Waiting(r, p, k) THEN Failed(req[r], status) ELSE req[r]]
    /\ late' \in IF refreshes[p][k].state = "sent" THEN {late, late \cup {k}} ELSE {late}
    /\ UNCHANGED <<issued, revoked, lapsed, active, browser, acts>>

-----------------------------------------------------------------------------
(* The BFF: signing in and out *)

CoreSignsIn(r) ==
    /\ req[r].step = "signs in" /\ active
    /\ issued < MaxPair
    /\ issued' = issued + 1
    /\ Replies(r, "ok", issued + 1)
    /\ UNCHANGED <<revoked, lapsed, active, late, refreshes, browser, acts>>

\* Core refuses the credentials, or its answer is incomplete, which clears the cookies.
SigninRefused(r) ==
    /\ req[r].step = "signs in"
    /\ \E order \in {Keep, Clear} : Replies(r, "failed", order)
    /\ UNCHANGED <<core, refreshes, browser, acts>>

\* LogoutView and LogoutAllView want an access token that is still good; the BFF
\* does not look at the answer.  logout-all first lists the pairs issued so far.
CoreSignsOut(r) ==
    /\ req[r].step = "revokes"
    /\ IF Accepts(req[r].using) /\ req[r].kind = "logout-all"
       THEN /\ req' = [req EXCEPT ![r].step = "revokes all", ![r].using = issued]
            /\ UNCHANGED revoked
       ELSE /\ revoked' = IF Accepts(req[r].using)
                          THEN revoked \cup ({req[r].refresh} \ {0}) ELSE revoked
            /\ Replies(r, "ok", Clear)
    /\ UNCHANGED <<issued, lapsed, active, late, refreshes, browser, acts>>

CoreRevokesAll(r) ==
    /\ req[r].step = "revokes all"
    /\ revoked' = revoked \cup 1 .. req[r].using
    /\ Replies(r, "ok", Clear)
    /\ UNCHANGED <<issued, lapsed, active, late, refreshes, browser, acts>>

\* The call throws: cookies are cleared on the way out, but whether the error
\* response carries them is the framework's business.
SignOutFails(r) ==
    /\ req[r].step \in {"revokes", "revokes all"}
    /\ \E order \in {Keep, Clear} : Replies(r, "failed", order)
    /\ UNCHANGED <<core, refreshes, browser, acts>>

-----------------------------------------------------------------------------
(* The browser: a response arrives *)

Put(t, s) == store' = [store EXCEPT ![t] = s] /\ persisted' = s.auth
Frees(r) == req' = [req EXCEPT ![r] = Free]

\* The session of a navigation: the guards of the route may send it elsewhere,
\* otherwise the page is shown and AuthSessionBootstrap's effect runs.
DeliverSession(r) ==
    LET q == req[r]
        t == q.tab
        now == Applied(jar, q.order)
        to == Target(q.then, q.status)
        known == [csrf EXCEPT !.held[t] = IF q.kind = "load" THEN 0 ELSE @]
        was == IF q.kind = "load" THEN Rehydrated(persisted) ELSE store[t]
        is == IF q.kind = "load" \/ EffectRuns(seen[t], q.status)
              THEN Bootstrapped(was, q.status) ELSE was
    IN /\ q.step = "replied" /\ q.kind \in Sessions
       /\ jar' = now
       /\ IF to # q.then
          THEN /\ \E p \in Processes :
                    req' = [req EXCEPT ![r] = SentWith(now, csrf, t, p, q.kind, to, q.more)]
               /\ UNCHANGED <<csrf, store, seen, page, redirected, persisted>>
          ELSE /\ page' = [page EXCEPT ![t] = to]
               /\ seen' = [seen EXCEPT ![t] = q.status]
               /\ csrf' = known
               /\ Put(t, is)
               /\ redirected' = [redirected EXCEPT ![t] =
                                    @ /\ q.kind = "session" /\ to = "protected" /\ ~is.auth]
               /\ IF q.more = "nowhere"
                  THEN Frees(r)
                  ELSE \E p \in Processes :
                         req' = [req EXCEPT ![r] =
                           SentWith(now, csrf, t, p, "session", q.more, "nowhere")]
       /\ UNCHANGED <<core, refreshes, acts>>

\* apiRequest: a 401 ends the session of this tab's store.
DeliverCore(r) ==
    /\ req[r].step = "replied" /\ req[r].kind \in {"private", "write", "public", "reset"}
    /\ jar' = Applied(jar, req[r].order)
    /\ IF req[r].status = "denied"
       THEN Put(req[r].tab, Expired)
       ELSE UNCHANGED <<store, persisted>>
    /\ Frees(r)
    /\ UNCHANGED <<core, refreshes, csrf, seen, page, redirected, acts>>

\* login, register, logout and logoutEverywhere, with what useAuth does next:
\* after a login the router resolves the session for the page it is on and goes
\* to `next`; after a logout it goes home and resolves it once more there.
DeliverAuth(r) ==
    LET q == req[r]
        t == q.tab
        now == Applied(jar, q.order)
        Continues(then, mores) ==
            \E p \in Processes, more \in mores :
               req' = [req EXCEPT ![r] = SentWith(now, csrf, t, p, "session", then, more)]
    IN /\ q.step = "replied" /\ q.kind \in Logouts \cup {"signin"}
       /\ jar' = now
       /\ CASE q.kind = "signin" /\ q.status = "ok" ->
                 Put(t, AuthenticatedUser) /\ Continues(page[t], {"home", "protected"})
            [] q.kind = "signin" /\ q.status # "ok" ->
                 Put(t, AuthError(store[t])) /\ Frees(r)
            [] q.kind \in Logouts /\ q.status = "ok" ->
                 Put(t, Anonymous) /\ Continues("home", {"home"})
            [] OTHER -> UNCHANGED <<store, persisted>> /\ Frees(r)
       /\ UNCHANGED <<core, refreshes, csrf, seen, page, redirected, acts>>

\* ensureCsrfToken keeps the token, and the mutation it is for goes out.
DeliverCsrf(r) ==
    LET q == req[r]
        t == q.tab
        now == [csrf EXCEPT !.held[t] = q.token,
                            !.cookie = IF q.status = "minted" THEN q.token ELSE @]
    IN /\ q.step = "replied" /\ q.kind = "csrf"
       /\ csrf' = now
       /\ \E p \in Processes :
            req' = [req EXCEPT ![r] = SentWith(jar, now, t, p, q.then, "home", "nowhere")]
       /\ UNCHANGED <<core, refreshes, jar, store, seen, page, redirected, persisted, acts>>

\* The response never arrives: a navigation ends in an error, a login shows one.
Lost(r) ==
    LET q == req[r]
    IN /\ q.step = "replied" /\ Lossy
       /\ IF q.kind = "signin" \/ q.then = "signin"
          THEN Put(q.tab, AuthError(store[q.tab]))
          ELSE UNCHANGED <<store, persisted>>
       /\ IF q.kind \in Sessions /\ q.more # "nowhere"
          THEN \E p \in Processes :
                 req' = [req EXCEPT ![r] =
                   SentWith(jar, csrf, q.tab, p, "session", q.more, "nowhere")]
          ELSE Frees(r)
       /\ UNCHANGED <<core, refreshes, jar, csrf, seen, page, redirected, acts>>

-----------------------------------------------------------------------------
(* The browser: the user and the timers *)

Navigating(t) == \E r \in Requests : /\ req[r].step # "free" /\ req[r].tab = t
                                     /\ req[r].kind \in Sessions

\* A free slot takes the request; mutations fetch a CSRF token first.
Sends(t, kind, then) ==
    \E r \in Requests, p \in Processes :
       /\ req[r].step = "free"
       /\ req' = [req EXCEPT ![r] =
                    IF IsMutation(kind) /\ csrf.held[t] = 0
                    THEN SentWith(jar, csrf, t, p, "csrf", kind, "nowhere")
                    ELSE SentWith(jar, csrf, t, p, kind, then, "nowhere")]

\* A link is followed; a navigation overtaken by the next one is left out.
Navigate(t, to) ==
    /\ acts > 0 /\ ~Navigating(t)
    /\ Sends(t, "session", to)
    /\ acts' = acts - 1
    /\ UNCHANGED <<core, refreshes, browser>>

\* The document is loaded again; the tab's other requests die with the old one.
Reload(t) ==
    /\ acts > 0
    /\ \A r \in Requests : req[r].tab = t => req[r].step = "free"
    /\ Sends(t, "load", page[t])
    /\ acts' = acts - 1
    /\ UNCHANGED <<core, refreshes, browser>>

\* A component reads or writes through the API.  What needs a user is asked
\* only by a store that has one: useAuthRequiredAction goes to the login page
\* otherwise, which is Navigate.
Ask(t, kind) ==
    /\ acts > 0 /\ kind \in Asked \cap {"private", "write", "public", "reset"}
    /\ kind \in {"private", "write"} => store[t].auth /\ store[t].res = "authenticated"
    /\ Sends(t, kind, "home")
    /\ acts' = acts - 1
    /\ UNCHANGED <<core, refreshes, browser>>

\* LoginForm and RegisterForm: the button is disabled while the store is loading.
Submit(t) ==
    /\ acts > 0 /\ page[t] = "login" /\ ~store[t].loading
    /\ "signin" \in Asked
    /\ Sends(t, "signin", "home")
    /\ Put(t, SigningIn(store[t]))
    /\ acts' = acts - 1
    /\ UNCHANGED <<core, refreshes, jar, csrf, seen, page, redirected>>

\* The settings page offers both logouts.
Logout(t, kind) ==
    /\ acts > 0 /\ kind \in Logouts \cap Asked
    /\ page[t] = "protected" /\ View(store[t]) = "page"
    /\ Sends(t, kind, "home")
    /\ acts' = acts - 1
    /\ UNCHANGED <<core, refreshes, browser>>

\* ProtectedRoute's "Retry session check"
Retry(t) ==
    /\ acts > 0 /\ page[t] = "protected" /\ View(store[t]) = "retry"
    /\ ~Navigating(t)
    /\ Put(t, SessionResolution(store[t], "pending"))
    /\ Sends(t, "session", "protected")
    /\ acts' = acts - 1
    /\ UNCHANGED <<core, refreshes, jar, csrf, seen, page, redirected>>

\* Its timer of five seconds
HardTimeout(t) ==
    /\ page[t] = "protected" /\ IsBootingSession(store[t])
    /\ Put(t, SessionResolution(store[t], "timeout"))
    /\ UNCHANGED <<core, refreshes, req, jar, csrf, seen, page, redirected, acts>>

\* Its effect that goes to the login page, once
LoginRedirect(t) ==
    /\ page[t] = "protected" /\ MustRedirect(store[t]) /\ ~redirected[t]
    /\ redirected' = [redirected EXCEPT ![t] = TRUE]
    /\ Sends(t, "session", "login")
    /\ UNCHANGED <<core, refreshes, jar, csrf, store, seen, page, persisted, acts>>

-----------------------------------------------------------------------------

Serve(r) ==
    \/ SessionArrives(r) \/ CsrfFailure(r) \/ ForwardCoreRequest(r) \/ SigninArrives(r)
    \/ LogoutArrives(r) \/ CsrfArrives(r)
    \/ CallAccepted(r) \/ FirstCallDenied(r) \/ SecondCallDenied(r) \/ CallFails(r)
    \/ AnonymousCall(r) \/ JoinRefresh(r)
    \/ CoreSignsIn(r) \/ SigninRefused(r)
    \/ CoreSignsOut(r) \/ CoreRevokesAll(r) \/ SignOutFails(r)

Deliver(r) == DeliverSession(r) \/ DeliverCore(r) \/ DeliverAuth(r) \/ DeliverCsrf(r)

Refresh(p, k) == CheckRotation(p, k) \/ Rotate(p, k) \/ SettleRefresh(p, k) \/ FailRefresh(p, k)

Next ==
    \/ \E r \in Requests : Serve(r) \/ Deliver(r) \/ Lost(r)
    \/ \E p \in Processes, k \in Pairs : Refresh(p, k)
    \/ \E k \in Pairs : AccessLapses(k) \/ LateRotation(k)
    \/ CookieLapses \/ CsrfLapses \/ Deactivate
    \/ \E t \in Tabs :
         \/ \E to \in Pages : Navigate(t, to)
         \/ \E kind \in Kinds : Ask(t, kind) \/ Logout(t, kind)
         \/ Reload(t) \/ Submit(t) \/ Retry(t) \/ HardTimeout(t) \/ LoginRedirect(t)

\* Requests are served, or time out, and are answered; timers fire.
Fairness ==
    /\ \A r \in Requests : WF_vars(Serve(r)) /\ WF_vars(Deliver(r) \/ Lost(r))
    /\ \A p \in Processes, k \in Pairs : WF_vars(Refresh(p, k))
    /\ \A t \in Tabs : WF_vars(HardTimeout(t)) /\ WF_vars(LoginRedirect(t))

Spec == Init /\ [][Next]_vars
FairSpec == Spec /\ Fairness

-----------------------------------------------------------------------------
(* Properties *)

\* A public read never answers 401, whatever the cookies it came with: a page
\* that anyone may read does not sign a tab out (forwardPublicCoreRead).
PublicReadsNeverExpire ==
    \A r \in Requests : req[r].kind = "public" => req[r].status # "denied"

\* Outside login and logout the BFF deletes the cookies only for a request whose
\* refresh token Core does not honour any more: timeouts, lost connections and
\* 5xx keep them (resolveSession, forwardCoreRequest, refreshAuthCookies).
ClearedOnlyWhenRefused ==
    \A r \in Requests :
       /\ req[r].order = Clear
       /\ req[r].kind \notin Logouts \cup {"signin"}
       => req[r].refresh \in revoked \/ ~active

\* Cookies whose refresh token Core still honours go with a logout or a login only. The
\* code does not keep this: a request that left with a token another response has replaced
\* is refused, and its answer deletes whatever cookies the browser has by then
\* (refreshAuthCookies); ClearedOnlyWhenRefused looks at the request's token and allows it.
HonouredCookiesStay ==
    [][jar.refresh \notin {0} \cup revoked /\ active /\ jar'.refresh = 0 =>
          \E r \in Requests : req[r].step = "replied" /\ req[r].kind \in Logouts \cup {"signin"}]_vars

\* A tab forgets its user only when a logout's answer arrives, or that of a
\* request that had no refresh token or one Core does not honour, or when the
\* browser had forgotten the user before (apiRequest, AuthSessionBootstrap).
IdentityStep ==
    \A t \in Tabs : store[t].auth /\ ~store'[t].auth =>
       \/ ~persisted \/ ~active
       \/ \E r \in Requests :
            /\ req[r].tab = t /\ req[r].step = "replied"
            /\ \/ req[r].kind \in Logouts
               \/ req[r].refresh \in {0} \cup revoked
IdentityLostOnlyWhenRefused == [][IdentityStep]_vars

\* "logout-all blacklists every outstanding refresh credential": when the answer
\* says so, at least the one the request came with is blacklisted.
LogoutAllIsComplete ==
    \A r \in Requests :
       req[r].kind = "logout-all" /\ req[r].status = "ok"
          => req[r].refresh \in {0} \cup revoked

\* "degrades to a recoverable state": a session check that was asked for again
\* resolves, or offers the retry once more.
RetryLeadsSomewhere ==
    \A t \in Tabs :
       page[t] = "protected" /\ store[t].res = "pending"
          ~> ~(page[t] = "protected" /\ store[t].res = "pending")
=============================================================================
