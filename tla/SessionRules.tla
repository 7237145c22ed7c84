----------------------------- MODULE SessionRules -----------------------------
(***************************************************************************)
(* The web session's rules without state: the two cookies and what a        *)
(* response does to them, which request the BFF serves for whom, the auth   *)
(* store of a tab and its transitions, and what ProtectedRoute shows.       *)
(*                                                                          *)
(* Tokens come in pairs, as Core issues them: pair k is an access token and *)
(* the refresh token that came with it, 0 is no cookie.  D_x is a mistaken  *)
(* variant of D, used by mutants only.                                      *)
(***************************************************************************)
EXTENDS Integers

CONSTANT MaxPair     \* pairs Core issues, in all

ASSUME PairAssumption == MaxPair \in Nat

Pairs == 1 .. MaxPair
Cookie == 0 .. MaxPair

-----------------------------------------------------------------------------
(* Requests *)

\* "load": the document of a page; "session": getSessionFn called by the router
\* in the browser; "private" and "write": /api/core reads and mutations of a
\* signed-in user; "public": reads anyone may make; "reset": the two password
\* paths; "signin": login or register; the others: the /api/auth routes.
Sessions == {"load", "session"}
Logouts == {"logout", "logout-all"}
Kinds == Sessions \cup Logouts
         \cup {"private", "write", "public", "reset", "signin", "csrf"}

\* POST routes, and the methods of /api/core other than GET and HEAD
IsMutation(kind) == kind \notin Sessions \cup {"private", "public", "csrf"}

\* The reads of isPublicCoreRequest; PUBLIC_AUTH_PATHS go out without a token.
IsPublicCoreRequest(kind) == kind \in {"public", "reset"}

\* refreshAuthCookies resolves session and private requests only: a public
\* read falls back to an anonymous one.
ToleratesNoToken(kind) == kind = "public"

-----------------------------------------------------------------------------
(* Set-Cookie *)

Keep == 0        \* the response sets no auth cookie
Clear == -1      \* clearAuthCookies
Orders == {Clear} \cup Cookie

\* What the browser's cookies are once a response with this order is in.
Applied_raw(jar, order) ==
    IF order = Keep THEN jar ELSE [access |-> order, refresh |-> order]
Applied(jar, order) ==
    CASE order = Keep -> jar
      [] order = Clear -> [access |-> 0, refresh |-> 0]
      [] OTHER -> [access |-> order, refresh |-> order]

-----------------------------------------------------------------------------
(* The auth store *)

Resolutions ==
    {"pending", "anonymous", "authenticated", "expired", "unavailable", "timeout"}
Degraded == {"unavailable", "timeout"}
Store == [auth : BOOLEAN, loading : BOOLEAN, error : BOOLEAN, res : Resolutions]

Anonymous == [auth |-> FALSE, loading |-> FALSE, error |-> FALSE, res |-> "anonymous"]
AuthenticatedUser == [Anonymous EXCEPT !.auth = TRUE, !.res = "authenticated"]
SigningIn(s) == [s EXCEPT !.loading = TRUE, !.error = FALSE]
AuthError(s) == [s EXCEPT !.loading = FALSE, !.error = TRUE]
SessionResolution(s, res) == [s EXCEPT !.res = res, !.loading = FALSE]
Expired == SessionResolution(Anonymous, "expired")

\* A new document: the persisted identity, and the timeout of
\* onRehydrateStorage, which a resolution that is already there outlives.
Rehydrated(persisted) == [Anonymous EXCEPT !.auth = persisted]

\* AuthSessionBootstrap's effect for a resolved session
Bootstrapped_lost(s, res) ==
    IF res = "authenticated" THEN AuthenticatedUser ELSE SessionResolution(Anonymous, res)
Bootstrapped(s, res) ==
    CASE res \in Degraded -> SessionResolution(s, res)
      [] res = "expired" -> Expired
      [] res = "authenticated" -> AuthenticatedUser
      [] OTHER -> Anonymous

\* The effect runs again when session.user or session.resolution changed: every
\* answer with a user carries a new user object, none has the same null.
EffectRuns(seen, res) == res = "authenticated" \/ res # seen

-----------------------------------------------------------------------------
(* Routes *)

Pages == {"home", "protected", "login"}

\* requireAuthenticatedSession and redirectAuthenticatedSession: where a
\* navigation ends for the session that the root route resolved.
Target(page, res) ==
    CASE page = "protected" /\ res \in {"anonymous", "expired"} -> "login"
      [] page = "login" /\ res = "authenticated" -> "home"
      [] OTHER -> page

IsBootingSession(s) == s.auth /\ s.res = "pending"

\* What ProtectedRoute renders.
View(s) ==
    IF s.loading \/ IsBootingSession(s) THEN "spinner"
    ELSE IF s.res \in Degraded THEN "retry"
    ELSE IF ~s.auth THEN "nothing"
    ELSE "page"

\* When its first effect navigates to the login page.
MustRedirect(s) ==
    /\ ~s.loading /\ ~s.auth
    /\ s.res \in {"anonymous", "expired"}
=============================================================================
