----------------------------- MODULE MCServices -----------------------------
(***************************************************************************)
(* The services behind the pages for TLC: the web session, the order of a   *)
(* list, the homepage aggregate of the proxy and Core's reads of source     *)
(* data.  A behaviour plays one of them (its scene); they share no          *)
(* variables, so the state space is the sum of theirs.                      *)
(***************************************************************************)
EXTENDS MCWebSession, FiniteSets

CONSTANTS Writers, Visitors, Workers, Titles, NoOne

ASSUME VisitorsAssumption == IsFiniteSet(Visitors) /\ NoOne \notin Visitors
\* The pool's threads are not those that serve requests.
ASSUME PoolAssumption == Requests \cap Workers = {}

VARIABLES
  scene,
  lRows, lReq,
  hFresh, hStale, hFlights, hCall, hReq,
  sRows, sRefreshing, sQueue, sFetch

\* Ids are interchangeable, so those of a first list are in its order; a list that had
\* items removed has gaps.
MCFirstRows ==
    UNION {{f \in [1..n -> 1..3] : \A i, j \in 1..n : i < j => f[i] < f[j]} : n \in 0..3}
    \cup {<<1, 2, 4>>}

L == INSTANCE ListOrdering WITH
         rows <- lRows, req <- lReq,
         Items <- 1..4, Requests <- Writers, FirstRows <- MCFirstRows
H == INSTANCE HomepageFlight WITH
         fresh <- hFresh, stale <- hStale, flights <- hFlights, call <- hCall, req <- hReq,
         Requests <- Visitors
D == INSTANCE SourceData WITH
         rows <- sRows, refreshing <- sRefreshing, queue <- sQueue, fetch <- sFetch,
         Items <- Titles

-----------------------------------------------------------------------------
(* Scenes *)

Off == "off"
listVars == <<lRows, lReq>>
homeVars == <<hFresh, hStale, hFlights, hCall, hReq>>
sourceVars == <<sRows, sRefreshing, sQueue, sFetch>>
SessionOff ==
  /\ issued = Off /\ revoked = Off /\ lapsed = Off /\ active = Off /\ late = Off
  /\ refreshes = Off /\ req = Off /\ jar = Off /\ csrf = Off /\ store = Off /\ seen = Off
  /\ page = Off /\ redirected = Off /\ persisted = Off /\ acts = Off
ListOff == lRows = Off /\ lReq = Off
HomeOff == hFresh = Off /\ hStale = Off /\ hFlights = Off /\ hCall = Off /\ hReq = Off
SourceOff == sRows = Off /\ sRefreshing = Off /\ sQueue = Off /\ sFetch = Off

ServicesInit ==
  \/ scene = "session" /\ Init /\ ListOff /\ HomeOff /\ SourceOff
  \/ scene = "list" /\ L!Init /\ SessionOff /\ HomeOff /\ SourceOff
  \/ scene = "home" /\ H!Init /\ SessionOff /\ ListOff /\ SourceOff
  \/ scene = "source" /\ D!Init /\ SessionOff /\ ListOff /\ HomeOff

ServicesNext ==
  /\ UNCHANGED scene
  /\ \/ scene = "session" /\ Next /\ UNCHANGED <<listVars, homeVars, sourceVars>>
     \/ scene = "list" /\ L!Next /\ UNCHANGED <<vars, homeVars, sourceVars>>
     \/ scene = "home" /\ H!Next /\ UNCHANGED <<vars, listVars, sourceVars>>
     \/ scene = "source" /\ D!Next /\ UNCHANGED <<vars, listVars, homeVars>>

allVars == <<scene, vars, listVars, homeVars, sourceVars>>
ServicesSpec == ServicesInit /\ [][ServicesNext]_allVars

\* Slots of requests and processes are interchangeable; two writers of a list, two visitors
\* and the titles are the same model values, so that one set serves every scene.
ServicesSymmetry == Symmetry

-----------------------------------------------------------------------------
(* Properties: those of the services, each in its scene *)

\* What the variables of each service may hold.
ServicesTypeOK ==
  /\ scene = "session" => TypeOK
  /\ scene = "list" => L!TypeOK
  /\ scene = "home" => H!TypeOK
  /\ scene = "source" => D!TypeOK

\* Timeouts, lost connections and 5xx cost nobody the session: its cookies are deleted only
\* for a request whose refresh token Core does not honour any more, and a public read never
\* answers 401 (forwardCoreRequest, forwardPublicCoreRead, refreshAuthCookies).
CookiesAreKept == scene = "session" => ClearedOnlyWhenRefused /\ PublicReadsNeverExpire

\* A tab forgets its user only when Core or a logout says so (apiRequest,
\* AuthSessionBootstrap).
IdentityIsKept == [][scene = "session" => IdentityStep]_allVars

\* Whatever is added, updated, removed, sorted and moved at the same time, the order of a list
\* changes only as the request that ends was asked to change it, or by an update that puts
\* its own row back where it had read it (ListItemViewSet).
OrderIsMeant == [][scene = "list" => L!StepIsMeant]_allVars

\* Work that is to be shared is done once at a time and always let go: the homepage
\* computation of a key (singleflight), whose copies never go back to an older one, and
\* the background refresh of a row (_refreshing_ids).
SharedWorkIsSingle ==
  /\ scene = "home" => H!FlightIsSingle /\ H!StoresAreNewer
  /\ scene = "source" => D!RefreshIsSingle
=============================================================================
