---------------------------- MODULE ServicesProofs ----------------------------
(* Proofs about the services behind the pages: the web session here, the     *)
(* others by the proofs of their own modules, and what all that says of the  *)
(* scenes of MCServices.                                                     *)
EXTENDS Sequences, MCServices, FiniteSetTheorems, TLAPS

(* The web session.  What a request carries says what Core has done: whoever *)
(* is to lose the cookies or to be told that the session is over came with a *)
(* refresh token that Core does not honour any more.                         *)

Records ==
    [kind : Kinds, tab : Tabs, proc : Processes \cup {"none"}, then : Pages \cup Kinds,
     more : Pages \cup {"nowhere"}, good : BOOLEAN, using : Cookie,
     refresh : Cookie, token : 0 .. MaxCsrf, step : Steps, status : Statuses, order : Orders]

Answers == {"none", "anonymous", "authenticated", "expired"} \cup Degraded

\* A request q, when the refresh tokens `gone` are blacklisted and the account is
\* active or not.
Sound(q, gone, live) ==
    /\ q.kind \in Sessions => q.then \in Pages
    /\ q.kind = "csrf" => q.then \in Kinds \ (Sessions \cup {"csrf"})
    /\ q.step \in {"profile", "profile2"} => q.kind \in Sessions
    /\ q.step = "anonymous" => q.kind \notin Sessions
    /\ q.step = "signs in" => q.kind = "signin"
    /\ q.step \in {"revokes", "revokes all"} => q.kind \in Logouts
    /\ q.step = "arrives" /\ q.using # 0 => q.refresh # 0
    /\ q.step = "profile" => q.refresh # 0
    /\ q.step \in {"profile2", "call2"} => q.refresh \in gone
    /\ q.order = Clear /\ q.kind \notin Logouts \cup {"signin"} => q.refresh \in gone \/ ~live
    /\ q.status \in {"expired", "denied"} => q.refresh \in {0} \cup gone \/ ~live
    /\ q.kind \in Sessions =>
         /\ q.status \in Answers
         /\ q.step = "replied" => q.status # "none"
         /\ q.status = "anonymous" => q.refresh = 0
    /\ q.kind = "public" => q.status # "denied"

CoreOK ==
    /\ issued \in Cookie
    /\ revoked \subseteq Pairs /\ lapsed \subseteq Pairs /\ late \subseteq Pairs
    /\ active \in BOOLEAN
\* A rotation is refused or done for good.
RefreshesOK ==
    /\ refreshes \in [Processes -> [Pairs -> Refreshes]]
    /\ \A p \in Processes, k \in Pairs :
         /\ refreshes[p][k].state = "rotated" => k \in revoked
         /\ refreshes[p][k].state = "refused" => k \in revoked \/ ~active
RequestsOK ==
    /\ req \in [Requests -> Records]
    /\ \A r \in Requests : Sound(req[r], revoked, active)
\* The access cookie may go before the refresh cookie, never the other way.
BrowserOK ==
    /\ jar \in [access : Cookie, refresh : Cookie]
    /\ jar.refresh = 0 => jar.access = 0
    /\ csrf \in [cookie : 0 .. MaxCsrf, minted : 0 .. MaxCsrf, held : [Tabs -> 0 .. MaxCsrf]]
    /\ store \in [Tabs -> Store] /\ seen \in [Tabs -> Resolutions]
    /\ page \in [Tabs -> Pages] /\ redirected \in [Tabs -> BOOLEAN]
    /\ persisted \in BOOLEAN

SessionInv ==
    CoreOK /\ RefreshesOK /\ RequestsOK /\ BrowserOK /\ acts \in 0 .. MaxActs

LEMMA Numbers ==
    /\ 0 \in Cookie /\ Pairs \subseteq Cookie /\ Cookie \subseteq Int /\ 0 \notin Pairs
    /\ \A k \in Cookie : k # 0 => k \in Pairs
    /\ \A k \in Cookie : k < MaxPair => k + 1 \in Pairs
    /\ \A k \in Cookie : 1 .. k \subseteq Pairs
    /\ 0 \in 0 .. MaxCsrf /\ MaxActs \in 0 .. MaxActs
    /\ Keep = 0 /\ Clear = -1 /\ Clear # Keep /\ Clear \notin Cookie
    /\ Cookie \cup {Clear} = Orders
  BY PairAssumption, BoundAssumption DEF Cookie, Pairs, Keep, Clear, Orders

LEMMA SoundStays ==
    ASSUME NEW q, NEW gone, NEW live, NEW gone2, NEW live2,
           gone \subseteq gone2, live2 => live, Sound(q, gone, live)
    PROVE  Sound(q, gone2, live2)
  BY DEF Sound

LEMMA FreeIsSound ==
    /\ Free \in Records
    /\ Free.step = "free" /\ Free.status = "none" /\ Free.order = Keep
    /\ \A gone, live : Sound(Free, gone, live)
<1>1. (CHOOSE t \in Tabs : TRUE) \in Tabs
  BY TabsAssumption
<1> DEFINE tab == CHOOSE t \in Tabs : TRUE
<1>2. Free = [kind |-> "load", tab |-> tab, proc |-> "none", then |-> "home",
              more |-> "nowhere", good |-> FALSE, using |-> 0, refresh |-> 0, token |-> 0,
              step |-> "free", status |-> "none", order |-> Keep]
  BY DEF Free
<1> HIDE DEF tab
<1>3. /\ "load" \in Kinds /\ "home" \in Pages /\ "free" \in Steps /\ "none" \in Statuses
      /\ Keep \in Orders /\ "load" \in Sessions
  BY Numbers DEF Kinds, Sessions, Pages, Steps, Statuses
<1>4. Free \in Records
  BY <1>1, <1>2, <1>3, Numbers DEF Records, tab
<1>5. ASSUME NEW gone, NEW live PROVE Sound(Free, gone, live)
  BY <1>2, <1>3, Numbers DEF Sound, Sessions, Logouts, Answers
<1>6. QED
  BY <1>2, <1>4, <1>5

\* A request as it leaves the browser
LEMMA SentIsSound ==
    ASSUME NEW c \in [access : Cookie, refresh : Cookie], c.refresh = 0 => c.access = 0,
           NEW x \in [cookie : 0 .. MaxCsrf, minted : 0 .. MaxCsrf, held : [Tabs -> 0 .. MaxCsrf]],
           NEW t \in Tabs, NEW p \in Processes, NEW kind \in Kinds,
           NEW then \in Pages \cup Kinds, NEW more \in Pages \cup {"nowhere"},
           kind \in Sessions => then \in Pages,
           kind = "csrf" => then \in Kinds \ (Sessions \cup {"csrf"}),
           NEW gone, NEW live
    PROVE  /\ SentWith(c, x, t, p, kind, then, more) \in Records
           /\ Sound(SentWith(c, x, t, p, kind, then, more), gone, live)
<1> DEFINE good == x.held[t] # 0 /\ x.held[t] = x.cookie
           q == SentWith(c, x, t, p, kind, then, more)
<1>1. q = [Free EXCEPT !.kind = kind, !.tab = t, !.proc = p, !.then = then, !.more = more,
                       !.good = good, !.using = c.access, !.refresh = c.refresh,
                       !.token = x.cookie, !.step = "arrives"]
  BY DEF SentWith
<1>2. good \in BOOLEAN /\ "arrives" \in Steps
  BY DEF Steps
<1> HIDE DEF good, q
<1>3. q \in Records
  BY <1>1, <1>2, FreeIsSound DEF Records
<1>4. /\ q.kind = kind /\ q.then = then /\ q.using = c.access /\ q.refresh = c.refresh
      /\ q.step = "arrives" /\ q.status = "none" /\ q.order = Keep
  BY <1>1, FreeIsSound DEF Records
<1>5. Sound(q, gone, live)
  BY <1>4, Numbers DEF Sound, Answers
<1>6. QED
  BY <1>3, <1>5 DEF q
-----------------------------------------------------------------------------
\* One request changes, Core forgets nothing.
LEMMA RequestChanges ==
    ASSUME RequestsOK, NEW r \in Requests, NEW q \in Records, Sound(q, revoked', active'),
           req' = [req EXCEPT ![r] = q], revoked \subseteq revoked', active' => active
    PROVE  RequestsOK'
<1>1. \A s \in Requests : req'[s] = IF s = r THEN q ELSE req[s]
  BY DEF RequestsOK
<1>2. ASSUME NEW s \in Requests PROVE Sound(req'[s], revoked', active')
  BY <1>1, SoundStays DEF RequestsOK
<1>3. req' \in [Requests -> Records]
  BY DEF RequestsOK
<1>4. QED
  BY <1>2, <1>3 DEF RequestsOK

LEMMA RequestsStay ==
    ASSUME RequestsOK, req' = req, revoked \subseteq revoked', active' => active
    PROVE  RequestsOK'
<1>1. ASSUME NEW s \in Requests PROVE Sound(req'[s], revoked', active')
  BY SoundStays DEF RequestsOK
<1>2. QED
  BY <1>1 DEF RequestsOK

LEMMA RefreshesStay ==
    ASSUME RefreshesOK, refreshes' = refreshes, revoked \subseteq revoked', active' => active
    PROVE  RefreshesOK'
  BY DEF RefreshesOK

\* The BFF goes on to another await.
LEMMA Going ==
    ASSUME SessionInv, NEW r \in Requests, NEW step \in Steps, Goes(r, step),
           UNCHANGED <<revoked, active>>,
           step \notin {"replied", "arrives", "profile2", "call2"},
           step = "profile" => req[r].kind \in Sessions /\ req[r].refresh # 0,
           step = "anonymous" => req[r].kind \notin Sessions,
           step = "signs in" => req[r].kind = "signin",
           step \in {"revokes", "revokes all"} => req[r].kind \in Logouts
    PROVE  RequestsOK'
<1> DEFINE g == req[r]
           q == [g EXCEPT !.step = step]
<1>1. g \in Records /\ Sound(g, revoked, active)
  BY DEF SessionInv, RequestsOK
<1>2. req' = [req EXCEPT ![r] = q]
  BY DEF Goes, SessionInv, RequestsOK
<1>3. q \in Records /\ q.step = step
  BY <1>1 DEF Records
<1>4. /\ q.kind = g.kind /\ q.then = g.then /\ q.using = g.using /\ q.refresh = g.refresh
      /\ q.status = g.status /\ q.order = g.order
  BY <1>1 DEF Records
<1> HIDE DEF q
<1>5. Sound(q, revoked', active')
  BY <1>1, <1>3, <1>4 DEF Sound
<1>6. QED
  BY <1>2, <1>3, <1>5, RequestChanges DEF SessionInv

\* The BFF answers.
LEMMA Answering ==
    ASSUME SessionInv, NEW r \in Requests, NEW status \in Statuses, NEW order \in Orders,
           Replies(r, status, order), revoked \subseteq revoked', active' = active,
           status \in {"expired", "denied"} => req[r].refresh \in {0} \cup revoked' \/ ~active,
           order = Clear /\ req[r].kind \notin Logouts \cup {"signin"}
             => req[r].refresh \in revoked' \/ ~active,
           req[r].kind \in Sessions => /\ status \in Answers \ {"none"}
                                       /\ status = "anonymous" => req[r].refresh = 0,
           req[r].kind = "public" => status # "denied"
    PROVE  RequestsOK'
<1> DEFINE g == req[r]
           q == [g EXCEPT !.step = "replied", !.using = 0, !.status = status, !.order = order]
<1>1. g \in Records /\ Sound(g, revoked, active)
  BY DEF SessionInv, RequestsOK
<1>2. req' = [req EXCEPT ![r] = q]
  BY DEF Replies, SessionInv, RequestsOK
<1>3. q \in Records /\ q.step = "replied" /\ q.status = status /\ q.order = order
  BY <1>1, Numbers DEF Records, Steps
<1>4. q.kind = g.kind /\ q.then = g.then /\ q.refresh = g.refresh
  BY <1>1 DEF Records
<1> HIDE DEF q
<1>5. Sound(q, revoked', active')
  BY <1>1, <1>3, <1>4 DEF Sound
<1>6. QED
  BY <1>2, <1>3, <1>5, RequestChanges DEF SessionInv
-----------------------------------------------------------------------------
LEMMA Served ==
    ASSUME SessionInv, UNCHANGED <<core, refreshes, browser, acts>>, RequestsOK'
    PROVE  SessionInv'
<1>1. CoreOK'
  BY DEF SessionInv, CoreOK, core
<1>2. RefreshesOK'
  BY RefreshesStay DEF SessionInv, core
<1>3. BrowserOK'
  BY DEF SessionInv, BrowserOK, browser
<1>4. QED
  BY <1>1, <1>2, <1>3 DEF SessionInv

LEMMA RequestFacts ==
    ASSUME SessionInv, NEW r \in Requests
    PROVE  req[r] \in Records /\ Sound(req[r], revoked, active)
  BY DEF SessionInv, RequestsOK

LEMMA StatusNames ==
    /\ {"ok", "minted", "denied", "forbidden", "failed", "expired", "anonymous",
        "authenticated"} \cup Degraded \subseteq Statuses
    /\ Sessions \cap (Logouts \cup {"private", "write", "public", "reset", "signin", "csrf"}) = {}
    /\ {Keep, Clear} \subseteq Orders
    /\ \A status \in Degraded : status \in Answers \ {"none", "anonymous", "expired", "denied"}
  BY Numbers DEF Statuses, Resolutions, Degraded, Sessions, Logouts, Answers

\* A request arrives at the BFF, up to its first await.
LEMMA ArrivalSteps ==
    ASSUME SessionInv, NEW r \in Requests,
           \/ SessionArrives(r) \/ CsrfFailure(r) \/ ForwardCoreRequest(r)
           \/ SigninArrives(r) \/ LogoutArrives(r)
    PROVE  SessionInv'
<1> DEFINE g == req[r]
<1>1. g \in Records /\ Sound(g, revoked, active) /\ g.step = "arrives"
  BY RequestFacts DEF SessionArrives, CsrfFailure, ForwardCoreRequest, SigninArrives,
                      LogoutArrives, Admitted
<1>2. UNCHANGED <<core, refreshes, browser, acts>>
  BY DEF SessionArrives, CsrfFailure, ForwardCoreRequest, SigninArrives, LogoutArrives
<1>3. UNCHANGED <<revoked, active>>
  BY <1>2 DEF core
<1>4. {"profile", "refresh", "anonymous", "call", "signs in", "revokes"} \subseteq Steps
  BY DEF Steps
<1>5. CASE SessionArrives(r)
  <2>1. g.kind \in Sessions
    BY <1>5 DEF SessionArrives
  <2>2. CASE g.using = 0 /\ g.refresh = 0
    <3>1. Replies(r, "anonymous", Keep)
      BY <1>5, <2>2 DEF SessionArrives
    <3>2. QED
      BY <1>2, <1>3, <2>1, <2>2, <3>1, Answering, Served, StatusNames, Numbers DEF Answers
  <2>3. CASE g.using # 0
    <3>1. Goes(r, "profile")
      BY <1>5, <2>3 DEF SessionArrives
    <3>2. g.refresh # 0
      BY <1>1, <2>3 DEF Sound
    <3>3. QED
      BY <1>2, <1>3, <1>4, <2>1, <3>1, <3>2, Going, Served
  <2>4. CASE g.using = 0 /\ g.refresh # 0
    <3>1. Goes(r, "refresh")
      BY <1>5, <2>4 DEF SessionArrives
    <3>2. QED
      BY <1>2, <1>3, <1>4, <3>1, Going, Served
  <2>5. QED
    BY <2>2, <2>3, <2>4
<1>6. CASE CsrfFailure(r)
  <2>1. Replies(r, "forbidden", Keep) /\ g.kind \notin Sessions
    BY <1>6 DEF CsrfFailure, IsMutation
  <2>2. QED
    BY <1>2, <1>3, <2>1, Answering, Served, StatusNames, Numbers
<1>7. CASE ForwardCoreRequest(r)
  <2>1. PICK step \in {"anonymous", "call", "refresh"} : Goes(r, step)
    <3>1. CASE g.kind = "reset"
      BY <1>7, <3>1 DEF ForwardCoreRequest
    <3>2. CASE g.kind # "reset" /\ g.using # 0
      BY <1>7, <3>2 DEF ForwardCoreRequest
    <3>3. CASE g.kind # "reset" /\ g.using = 0
      BY <1>7, <3>3 DEF ForwardCoreRequest
    <3>4. QED
      BY <3>1, <3>2, <3>3
  <2>2. g.kind \notin Sessions
    BY <1>7 DEF ForwardCoreRequest, Sessions
  <2>3. QED
    BY <1>2, <1>3, <1>4, <2>1, <2>2, Going, Served
<1>8. CASE SigninArrives(r)
  <2>1. g.kind = "signin" /\ (Goes(r, "signs in") \/ Replies(r, "failed", Keep))
    BY <1>8 DEF SigninArrives
  <2>2. CASE Goes(r, "signs in")
    BY <1>2, <1>3, <1>4, <2>1, <2>2, Going, Served
  <2>3. CASE Replies(r, "failed", Keep)
    BY <1>2, <1>3, <2>1, <2>3, Answering, Served, StatusNames, Numbers DEF Sessions
  <2>4. QED
    BY <2>1, <2>2, <2>3
<1>9. CASE LogoutArrives(r)
  <2>1. g.kind \in Logouts /\ (Goes(r, "revokes") \/ Replies(r, "ok", Clear))
    BY <1>9 DEF LogoutArrives
  <2>2. CASE Goes(r, "revokes")
    BY <1>2, <1>3, <1>4, <2>1, <2>2, Going, Served
  <2>3. CASE Replies(r, "ok", Clear)
    <3>1. g.kind \notin Sessions \cup {"public"}
      BY <2>1 DEF Logouts, Sessions
    <3>2. QED
      BY <1>2, <1>3, <2>1, <2>3, <3>1, Answering, Served, StatusNames
  <2>4. QED
    BY <2>1, <2>2, <2>3
<1>10. QED
  BY <1>5, <1>6, <1>7, <1>8, <1>9

\* Core answers a call made with a token, or fails.
LEMMA CallSteps ==
    ASSUME SessionInv, NEW r \in Requests,
           \/ CallAccepted(r) \/ FirstCallDenied(r) \/ SecondCallDenied(r) \/ CallFails(r)
           \/ AnonymousCall(r) \/ SigninRefused(r) \/ SignOutFails(r)
    PROVE  SessionInv'
<1> DEFINE g == req[r]
<1>1. g \in Records /\ Sound(g, revoked, active)
  BY RequestFacts
<1>2. UNCHANGED <<core, refreshes, browser, acts>>
  BY DEF CallAccepted, FirstCallDenied, SecondCallDenied, CallFails, AnonymousCall,
         SigninRefused, SignOutFails
<1>3. UNCHANGED <<revoked, active>>
  BY <1>2 DEF core
<1>4. /\ g.order \in Orders
      /\ g.order = Clear /\ g.kind \notin Logouts \cup {"signin"} => g.refresh \in revoked \/ ~active
  BY <1>1 DEF Records, Sound
<1>5. CASE CallAccepted(r)
  <2>1. Replies(r, Succeeds(g.kind), g.order)
    BY <1>5 DEF CallAccepted
  <2>2. /\ Succeeds(g.kind) \in {"ok", "authenticated"}
        /\ g.kind \in Sessions => Succeeds(g.kind) = "authenticated"
    BY DEF Succeeds
  <2>3. "authenticated" \in Answers
    BY DEF Answers
  <2> HIDE DEF g
  <2>4. QED
    BY <1>2, <1>3, <1>4, <2>1, <2>2, <2>3, Answering, Served, StatusNames DEF g
<1>6. CASE FirstCallDenied(r)
  <2>1. Goes(r, "refresh")
    BY <1>1, <1>6 DEF FirstCallDenied, Sound
  <2>2. "refresh" \in Steps
    BY DEF Steps
  <2>3. QED
    BY <1>2, <1>3, <2>1, <2>2, Going, Served
<1>7. CASE SecondCallDenied(r)
  <2>1. g.refresh \in revoked
    BY <1>1, <1>7 DEF SecondCallDenied, Sound
  <2>2. CASE g.kind \in Sessions
    <3>1. ~ToleratesNoToken(g.kind)
      BY <2>2, StatusNames DEF ToleratesNoToken
    <3>2. Replies(r, "expired", Clear)
      BY <1>7, <2>2, <3>1 DEF SecondCallDenied
    <3>3. QED
      BY <1>2, <1>3, <2>1, <2>2, <3>2, Answering, Served, StatusNames DEF Answers
  <2>3. CASE g.kind = "public"
    <3>1. Goes(r, "anonymous") /\ g.kind \notin Sessions
      BY <1>7, <2>3 DEF SecondCallDenied, ToleratesNoToken, Sessions
    <3>2. "anonymous" \in Steps
      BY DEF Steps
    <3>3. QED
      BY <1>2, <1>3, <3>1, <3>2, Going, Served
  <2>4. CASE g.kind \notin Sessions /\ g.kind # "public"
    <3>1. Replies(r, "denied", g.order)
      BY <1>7, <2>4 DEF SecondCallDenied, ToleratesNoToken
    <3>2. QED
      BY <1>2, <1>3, <1>4, <2>1, <2>4, <3>1, Answering, Served, StatusNames
  <2>5. QED
    BY <2>2, <2>3, <2>4
<1>8. CASE CallFails(r)
  <2>1. PICK status \in Failures(g.kind) : Replies(r, status, g.order)
    BY <1>8 DEF CallFails
  <2>2. /\ g.kind \in Sessions => status \in Degraded
        /\ status \in Degraded \cup {"failed"}
    BY <2>1 DEF Failures
  <2>3. status \in Statuses /\ status \notin {"expired", "denied"}
    BY <2>2, StatusNames
  <2>4. g.kind \in Sessions => status \in Answers \ {"none", "anonymous"}
    BY <2>2, StatusNames
  <2> HIDE DEF g
  <2>5. QED
    BY <1>2, <1>3, <1>4, <2>1, <2>3, <2>4, Answering, Served DEF g
<1>9. CASE AnonymousCall(r)
  <2>1. Replies(r, "ok", g.order) /\ g.kind \notin Sessions
    BY <1>1, <1>9 DEF AnonymousCall, Sound
  <2>2. QED
    BY <1>2, <1>3, <1>4, <2>1, Answering, Served, StatusNames
<1>10. CASE SigninRefused(r) \/ SignOutFails(r)
  <2>1. PICK order \in {Keep, Clear} : Replies(r, "failed", order)
    BY <1>10 DEF SigninRefused, SignOutFails
  <2>2. g.kind \in Logouts \cup {"signin"} /\ g.kind \notin Sessions
    BY <1>1, <1>10 DEF SigninRefused, SignOutFails, Sound, Logouts, Sessions
  <2>3. QED
    BY <1>2, <1>3, <2>1, <2>2, Answering, Served, StatusNames
<1>11. QED
  BY <1>5, <1>6, <1>7, <1>8, <1>9, <1>10
-----------------------------------------------------------------------------
\* One entry of the table changes.
LEMMA TableChanges ==
    ASSUME RefreshesOK, NEW p \in Processes, NEW k \in Pairs, NEW v \in Refreshes,
           refreshes' = [refreshes EXCEPT ![p][k] = v],
           revoked \subseteq revoked', active' => active,
           v.state = "rotated" => k \in revoked',
           v.state = "refused" => k \in revoked' \/ ~active'
    PROVE  RefreshesOK'
<1>1. /\ refreshes' \in [Processes -> [Pairs -> Refreshes]]
      /\ \A x \in Processes, y \in Pairs :
           refreshes'[x][y] = IF x = p /\ y = k THEN v ELSE refreshes[x][y]
  BY DEF RefreshesOK
<1>2. QED
  BY <1>1 DEF RefreshesOK

LEMMA TableValues ==
    /\ NoRefresh \in Refreshes /\ NoRefresh.state = "none"
    /\ [state |-> "sent", pair |-> 0] \in Refreshes
    /\ \A n \in Cookie : [state |-> "rotated", pair |-> n] \in Refreshes
  BY Numbers DEF NoRefresh, Refreshes

\* refreshAuthCookies: wait for the rotation of the token, or do without one.
LEMMA JoinStep ==
    ASSUME SessionInv, NEW r \in Requests, JoinRefresh(r)
    PROVE  SessionInv'
<1> DEFINE g == req[r]
           p == g.proc
           k == g.refresh
<1>1. g \in Records /\ Sound(g, revoked, active)
  BY RequestFacts
<1>2. UNCHANGED <<core, browser, acts>> /\ UNCHANGED <<revoked, active>>
  BY DEF JoinRefresh, core
<1>3. {"waits", "anonymous"} \subseteq Steps
  BY DEF Steps
<1>4. CASE k # 0
  <2>1. /\ Goes(r, "waits")
        /\ refreshes' = IF refreshes[p][k] = NoRefresh
                        THEN [refreshes EXCEPT ![p][k].state = "sent"] ELSE refreshes
    BY <1>4 DEF JoinRefresh
  <2>2. RequestsOK'
    BY <1>2, <1>3, <2>1, Going
  <2>3. k \in Pairs
    BY <1>1, <1>4, Numbers DEF Records
  <2>4. RefreshesOK'
    <3>1. CASE refreshes' = refreshes
      BY <1>2, <3>1, RefreshesStay DEF SessionInv
    <3>2. ASSUME p \in Processes, refreshes[p][k] = NoRefresh,
                 refreshes' = [refreshes EXCEPT ![p][k].state = "sent"]
          PROVE  RefreshesOK'
      <4> DEFINE v == [state |-> "sent", pair |-> 0]
      <4>1. [refreshes[p][k] EXCEPT !.state = "sent"] = v
        BY <3>2 DEF NoRefresh
      <4>2. v \in Refreshes /\ v.state = "sent"
        BY TableValues
      <4> HIDE DEF v
      <4>3. refreshes' = [refreshes EXCEPT ![p][k] = v]
        BY <2>3, <3>2, <4>1 DEF SessionInv, RefreshesOK
      <4>4. QED
        BY <1>2, <2>3, <3>2, <4>2, <4>3, TableChanges DEF SessionInv
    <3>3. ASSUME p \notin Processes, refreshes' = [refreshes EXCEPT ![p][k].state = "sent"]
          PROVE  refreshes' = refreshes
      BY <3>3 DEF SessionInv, RefreshesOK
    <3>4. QED
      BY <2>1, <3>1, <3>2, <3>3
  <2>5. QED
    BY <1>2, <2>2, <2>4 DEF SessionInv, CoreOK, core, BrowserOK, browser
<1>5. CASE k = 0 /\ ToleratesNoToken(g.kind)
  <2>1. Goes(r, "anonymous") /\ UNCHANGED refreshes
    BY <1>5 DEF JoinRefresh
  <2>2. g.kind \notin Sessions
    BY <1>5 DEF ToleratesNoToken, Sessions
  <2>3. QED
    BY <1>2, <1>3, <2>1, <2>2, Going, Served
<1>6. CASE k = 0 /\ ~ToleratesNoToken(g.kind)
  <2>1. Replies(r, Denied(g.kind), g.order) /\ UNCHANGED refreshes
    BY <1>6 DEF JoinRefresh
  <2>2. /\ Denied(g.kind) \in {"expired", "denied"} /\ g.kind # "public"
        /\ g.kind \in Sessions => Denied(g.kind) = "expired"
        /\ "expired" \in Answers
    BY <1>6 DEF Denied, ToleratesNoToken, Answers
  <2>3. /\ g.order \in Orders
        /\ g.order = Clear /\ g.kind \notin Logouts \cup {"signin"} => g.refresh \in revoked \/ ~active
    BY <1>1 DEF Records, Sound
  <2> HIDE DEF g
  <2>4. QED
    BY <1>2, <1>6, <2>1, <2>2, <2>3, Answering, Served, StatusNames DEF g
<1>7. QED
  BY <1>4, <1>5, <1>6

LEMMA CheckStep ==
    ASSUME SessionInv, NEW p \in Processes, NEW k \in Pairs, CheckRotation(p, k)
    PROVE  SessionInv'
<1>1. UNCHANGED <<core, req, browser, acts>> /\ UNCHANGED <<revoked, active>>
  BY DEF CheckRotation, core
<1>2. PICK state \in {"refused", "checked"} :
        /\ refreshes' = [refreshes EXCEPT ![p][k].state = state]
        /\ state = "refused" => k \in revoked \/ ~active
  BY DEF CheckRotation
<1> DEFINE v == [refreshes[p][k] EXCEPT !.state = state]
<1>3. v \in Refreshes /\ v.state = state
  BY DEF SessionInv, RefreshesOK, Refreshes
<1>4. refreshes' = [refreshes EXCEPT ![p][k] = v]
  BY <1>2 DEF SessionInv, RefreshesOK
<1>5. /\ v.state = "rotated" => k \in revoked'
      /\ v.state = "refused" => k \in revoked' \/ ~active'
      /\ revoked \subseteq revoked' /\ (active' => active)
  BY <1>1, <1>2, <1>3
<1> HIDE DEF v
<1>6. RefreshesOK /\ RequestsOK
  BY DEF SessionInv
<1>7. RefreshesOK'
  BY <1>3, <1>4, <1>5, <1>6, TableChanges
<1>8. RequestsOK'
  BY <1>1, <1>6, RequestsStay
<1>9. QED
  BY <1>1, <1>7, <1>8 DEF SessionInv, CoreOK, core, BrowserOK, browser

LEMMA RotateStep ==
    ASSUME SessionInv, NEW p \in Processes, NEW k \in Pairs, Rotate(p, k)
    PROVE  SessionInv'
<1> DEFINE v == [state |-> "rotated", pair |-> issued + 1]
<1>1. /\ issued < MaxPair /\ issued' = issued + 1 /\ revoked' = revoked \cup {k}
      /\ refreshes' = [refreshes EXCEPT ![p][k] = v]
      /\ UNCHANGED <<lapsed, active, late, req, browser, acts>>
  BY DEF Rotate
<1>2. issued + 1 \in Cookie
  BY <1>1, Numbers DEF SessionInv, CoreOK
<1>3. v \in Refreshes /\ v.state = "rotated"
  BY <1>2, TableValues
<1> HIDE DEF v
<1>4. RefreshesOK'
  BY <1>1, <1>3, TableChanges DEF SessionInv
<1>5. RequestsOK'
  BY <1>1, RequestsStay DEF SessionInv
<1>6. CoreOK'
  BY <1>1, <1>2 DEF SessionInv, CoreOK
<1>7. QED
  BY <1>1, <1>4, <1>5, <1>6 DEF SessionInv, BrowserOK, browser
-----------------------------------------------------------------------------
\* What a request that waits for the rotation of its token does next.
LEMMA SettledIsSound ==
    ASSUME NEW q \in Records, NEW gone, NEW live, Sound(q, gone, live)
    PROVE  /\ \A n \in Cookie : q.refresh \in gone =>
                Refreshed(q, n) \in Records /\ Sound(Refreshed(q, n), gone, live)
           /\ q.refresh \in gone \/ ~live =>
                Refused(q) \in Records /\ Sound(Refused(q), gone, live)
           /\ \A status \in Degraded :
                Failed(q, status) \in Records /\ Sound(Failed(q, status), gone, live)
<1>1. ASSUME NEW n \in Cookie, q.refresh \in gone
      PROVE  Refreshed(q, n) \in Records /\ Sound(Refreshed(q, n), gone, live)
  <2>1. PICK step \in {"profile2", "call", "call2"} :
          /\ step = "profile2" => q.kind \in Sessions
          /\ Refreshed(q, n) = [q EXCEPT !.order = n, !.using = n, !.step = step]
    <3>1. CASE q.kind \in Sessions
      BY <3>1 DEF Refreshed
    <3>2. CASE q.kind \notin Sessions /\ q.using = 0
      BY <3>2 DEF Refreshed
    <3>3. CASE q.kind \notin Sessions /\ q.using # 0
      BY <3>3 DEF Refreshed
    <3>4. QED
      BY <3>1, <3>2, <3>3
  <2> DEFINE f == Refreshed(q, n)
  <2>2. n \in Orders /\ n # Clear /\ step \in Steps
    BY Numbers DEF Steps
  <2>3. f \in Records /\ f.order = n /\ f.using = n /\ f.step = step
    BY <2>1, <2>2 DEF Records
  <2>4. f.kind = q.kind /\ f.then = q.then /\ f.refresh = q.refresh /\ f.status = q.status
    BY <2>1 DEF Records
  <2> HIDE DEF f
  <2>5. Sound(f, gone, live)
    BY <1>1, <2>1, <2>2, <2>3, <2>4 DEF Sound
  <2>6. QED
    BY <2>3, <2>5 DEF f
<1>2. ASSUME ToleratesNoToken(q.kind), NEW order \in {q.order, Clear},
             order = Clear => q.refresh \in gone \/ ~live
      PROVE  LET f == [q EXCEPT !.order = order, !.step = "anonymous"] IN
             f \in Records /\ Sound(f, gone, live)
  <2> DEFINE f == [q EXCEPT !.order = order, !.step = "anonymous"]
  <2>1. "anonymous" \in Steps /\ q.kind \notin Sessions /\ order \in Orders
    BY <1>2, Numbers DEF Steps, Records, ToleratesNoToken, Sessions
  <2>2. f \in Records /\ f.order = order /\ f.step = "anonymous"
    BY <2>1 DEF Records
  <2>3. /\ f.kind = q.kind /\ f.then = q.then /\ f.refresh = q.refresh
        /\ f.status = q.status /\ f.using = q.using
    BY DEF Records
  <2> HIDE DEF f
  <2>4. Sound(f, gone, live)
    BY <1>2, <2>1, <2>2, <2>3 DEF Sound
  <2>5. QED
    BY <2>2, <2>4 DEF f
<1>3. ASSUME ~ToleratesNoToken(q.kind), NEW order \in {q.order, Clear},
             order = Clear => order = q.order \/ q.refresh \in gone \/ ~live,
             NEW status \in Statuses \ {"none", "anonymous"},
             status \in {"expired", "denied"} => q.refresh \in gone \/ ~live,
             q.kind \in Sessions => status \in Answers
      PROVE  LET f == [q EXCEPT !.order = order, !.step = "replied", !.using = 0, !.status = status] IN
             f \in Records /\ Sound(f, gone, live)
  <2> DEFINE f == [q EXCEPT !.order = order, !.step = "replied", !.using = 0, !.status = status]
  <2>1. "replied" \in Steps /\ q.kind # "public" /\ order \in Orders
    BY <1>3, Numbers DEF Steps, Records, ToleratesNoToken
  <2>2. f \in Records /\ f.order = order /\ f.step = "replied" /\ f.using = 0 /\ f.status = status
    BY <2>1, Numbers DEF Records
  <2>3. f.kind = q.kind /\ f.then = q.then /\ f.refresh = q.refresh
    BY DEF Records
  <2> HIDE DEF f
  <2>4. Sound(f, gone, live)
    BY <1>3, <2>1, <2>2, <2>3 DEF Sound
  <2>5. QED
    BY <2>2, <2>4 DEF f
<1>4. ASSUME q.refresh \in gone \/ ~live
      PROVE  Refused(q) \in Records /\ Sound(Refused(q), gone, live)
  <2>1. /\ Denied(q.kind) \in {"expired", "denied"}
        /\ q.kind \in Sessions => Denied(q.kind) \in Answers
    BY DEF Denied, Answers
  <2>2. Denied(q.kind) \in Statuses \ {"none", "anonymous"}
    BY <2>1, StatusNames
  <2>3. QED
    BY <1>2, <1>3, <1>4, <2>1, <2>2 DEF Refused
<1>5. ASSUME NEW status \in Degraded
      PROVE  Failed(q, status) \in Records /\ Sound(Failed(q, status), gone, live)
  <2> DEFINE s == IF q.kind \in Sessions THEN status ELSE "failed"
  <2>1. /\ s \in Statuses \ {"none", "anonymous", "expired", "denied"}
        /\ q.kind \in Sessions => s \in Answers
    BY StatusNames DEF Degraded, Answers
  <2>2. q = [q EXCEPT !.order = q.order]
    BY DEF Records
  <2>3. Failed(q, status) = IF ToleratesNoToken(q.kind)
                            THEN [q EXCEPT !.step = "anonymous"]
                            ELSE [q EXCEPT !.step = "replied", !.using = 0, !.status = s]
    BY DEF Failed
  <2>4. CASE ToleratesNoToken(q.kind)
    <3>1. Failed(q, status) = [q EXCEPT !.order = q.order, !.step = "anonymous"]
      BY <2>3, <2>4 DEF Records
    <3>2. q.order = Clear => q.refresh \in gone \/ ~live
      BY <2>4 DEF Sound, ToleratesNoToken, Logouts
    <3>3. QED
      BY <1>2, <2>4, <3>1, <3>2
  <2>5. CASE ~ToleratesNoToken(q.kind)
    <3> HIDE DEF s
    <3>1. Failed(q, status) = [q EXCEPT !.order = q.order, !.step = "replied",
                                        !.using = 0, !.status = s]
      BY <2>3, <2>5 DEF Records
    <3>2. QED
      BY <1>3, <2>1, <2>5, <3>1
  <2>6. QED
    BY <2>4, <2>5
<1>6. QED
  BY <1>1, <1>4, <1>5

\* The entry leaves the table, and all who wait for it go on.
LEMMA SettleSteps ==
    ASSUME SessionInv, NEW p \in Processes, NEW k \in Pairs,
           SettleRefresh(p, k) \/ FailRefresh(p, k)
    PROVE  SessionInv'
<1>1. /\ UNCHANGED <<issued, revoked, lapsed, active, browser, acts>>
      /\ refreshes' = [refreshes EXCEPT ![p][k] = NoRefresh]
  BY DEF SettleRefresh, FailRefresh, core
<1>2. RefreshesOK /\ RequestsOK /\ CoreOK
  BY DEF SessionInv
<1>3. RefreshesOK'
  BY <1>1, <1>2, TableValues, TableChanges
<1>4. CoreOK'
  <2>1. late' \subseteq Pairs
    BY <1>2 DEF SettleRefresh, FailRefresh, core, CoreOK
  <2>2. QED
    BY <1>1, <1>2, <2>1 DEF CoreOK
<1>5. \A r \in Requests : req[r] \in Records /\ Sound(req[r], revoked, active)
  BY <1>2 DEF RequestsOK
<1>6. /\ req' = [r \in Requests |-> req'[r]]
      /\ \A r \in Requests : req'[r] \in Records /\ Sound(req'[r], revoked, active)
  <2>1. CASE SettleRefresh(p, k)
    <3> DEFINE settled == refreshes[p][k]
    <3>1. settled \in Refreshes /\ settled.state \in {"refused", "rotated"}
      BY <1>2, <2>1 DEF SettleRefresh, RefreshesOK
    <3>2. /\ settled.state = "rotated" => k \in revoked
          /\ settled.state = "refused" => k \in revoked \/ ~active
          /\ settled.pair \in Cookie
      BY <1>2, <3>1 DEF RefreshesOK, Refreshes
    <3>3. req' = [r \in Requests |->
                    CASE ~Waiting(r, p, k) -> req[r]
                      [] Waiting(r, p, k) /\ settled.state = "rotated" ->
                           Refreshed(req[r], settled.pair)
                      [] OTHER -> Refused(req[r])]
      BY <2>1 DEF SettleRefresh
    <3> HIDE DEF settled
    <3>4. ASSUME NEW r \in Requests
          PROVE  req'[r] \in Records /\ Sound(req'[r], revoked, active)
      <4>1. CASE ~Waiting(r, p, k)
        <5>1. req'[r] = req[r]
          BY <3>3, <4>1
        <5>2. QED
          BY <1>5, <5>1
      <4>2. CASE Waiting(r, p, k) /\ settled.state = "rotated"
        <5>1. req'[r] = Refreshed(req[r], settled.pair)
          BY <3>3, <4>2
        <5>2. req[r].refresh \in revoked
          BY <3>2, <4>2 DEF Waiting
        <5>3. QED
          BY <1>5, <3>2, <5>1, <5>2, SettledIsSound
      <4>3. CASE Waiting(r, p, k) /\ settled.state # "rotated"
        <5>1. req'[r] = Refused(req[r])
          BY <3>3, <4>3
        <5>2. req[r].refresh \in revoked \/ ~active
          BY <3>1, <3>2, <4>3 DEF Waiting
        <5>3. QED
          BY <1>5, <5>1, <5>2, SettledIsSound
      <4>4. QED
        BY <4>1, <4>2, <4>3
    <3>5. req' = [r \in Requests |-> req'[r]]
      BY <3>3
    <3>6. QED
      BY <3>4, <3>5
  <2>2. CASE FailRefresh(p, k)
    <3>1. PICK status \in Degraded :
            req' = [r \in Requests |->
                      IF Waiting(r, p, k) THEN Failed(req[r], status) ELSE req[r]]
      BY <2>2 DEF FailRefresh
    <3>2. \A r \in Requests : req'[r] = Failed(req[r], status) \/ req'[r] = req[r]
      BY <3>1
    <3>3. req' = [r \in Requests |-> req'[r]]
      BY <3>1
    <3>4. QED
      BY <1>5, <3>2, <3>3, SettledIsSound
  <2>3. QED
    BY <2>1, <2>2
<1>7. RequestsOK'
  BY <1>1, <1>6 DEF RequestsOK
<1>8. QED
  BY <1>1, <1>3, <1>4, <1>7 DEF SessionInv, BrowserOK, browser
-----------------------------------------------------------------------------
\* Core signs in and out.
LEMMA CoreSteps ==
    ASSUME SessionInv, NEW r \in Requests,
           CoreSignsIn(r) \/ CoreSignsOut(r) \/ CoreRevokesAll(r)
    PROVE  SessionInv'
<1> DEFINE g == req[r]
<1>1. g \in Records /\ Sound(g, revoked, active) /\ issued \in Cookie /\ CoreOK
      /\ RefreshesOK
  BY RequestFacts DEF SessionInv, CoreOK
<1>2. UNCHANGED <<lapsed, active, late, refreshes, browser, acts>>
  BY DEF CoreSignsIn, CoreSignsOut, CoreRevokesAll
<1>3. CASE CoreSignsIn(r)
  <2>1. /\ issued < MaxPair /\ issued' = issued + 1 /\ revoked' = revoked
        /\ Replies(r, "ok", issued + 1)
    BY <1>3 DEF CoreSignsIn
  <2>2. g.kind = "signin" /\ g.kind \notin Sessions
    BY <1>1, <1>3 DEF CoreSignsIn, Sound, Sessions
  <2>3. issued + 1 \in Cookie /\ issued + 1 \in Orders
    BY <1>1, <2>1, Numbers
  <2>4. RequestsOK'
    BY <1>2, <2>1, <2>2, <2>3, Answering, StatusNames
  <2>5. RefreshesOK'
    BY <1>1, <1>2, <2>1, RefreshesStay
  <2>6. CoreOK'
    BY <1>1, <1>2, <2>1, <2>3 DEF CoreOK
  <2>7. QED
    BY <1>2, <2>4, <2>5, <2>6 DEF SessionInv, BrowserOK, browser
<1>4. ASSUME issued' = issued, revoked \subseteq revoked', revoked' \subseteq Pairs, RequestsOK'
      PROVE  SessionInv'
  <2>1. RefreshesOK'
    BY <1>1, <1>2, <1>4, RefreshesStay
  <2>2. CoreOK'
    BY <1>1, <1>2, <1>4 DEF CoreOK
  <2>3. QED
    BY <1>2, <1>4, <2>1, <2>2 DEF SessionInv, BrowserOK, browser
<1>5. CASE CoreSignsOut(r) \/ CoreRevokesAll(r)
  <2>1. /\ g.step \in {"revokes", "revokes all"} /\ g.kind \in Logouts
        /\ g.kind \notin Sessions \cup {"public"} /\ issued' = issued
    BY <1>1, <1>5 DEF CoreSignsOut, CoreRevokesAll, Sound, Logouts, Sessions
  <2>2. CASE Replies(r, "ok", Clear)
    <3>1. revoked \subseteq revoked' /\ revoked' \subseteq Pairs
      <4>1. g.refresh \in Cookie /\ g.using \in Cookie
        BY <1>1 DEF Records
      <4>2. {g.refresh} \ {0} \subseteq Pairs /\ 1 .. g.using \subseteq Pairs
        BY <4>1, Numbers
      <4>3. revoked' \in {revoked, revoked \cup ({g.refresh} \ {0}), revoked \cup 1 .. g.using}
        BY <1>5 DEF CoreSignsOut, CoreRevokesAll
      <4>4. QED
        BY <1>1, <4>2, <4>3 DEF CoreOK
    <3>2. RequestsOK'
      BY <1>2, <2>1, <2>2, <3>1, Answering, StatusNames
    <3>3. QED
      BY <1>4, <2>1, <3>1, <3>2
  <2>3. CASE /\ req' = [req EXCEPT ![r].step = "revokes all", ![r].using = issued]
             /\ UNCHANGED revoked
    <3> DEFINE q == [g EXCEPT !.step = "revokes all", !.using = issued]
    <3>1. req' = [req EXCEPT ![r] = q]
      BY <2>3 DEF SessionInv, RequestsOK
    <3>2. q \in Records /\ q.step = "revokes all"
      BY <1>1 DEF Records, Steps
    <3>3. /\ q.kind = g.kind /\ q.then = g.then /\ q.refresh = g.refresh
          /\ q.status = g.status /\ q.order = g.order
      BY <1>1 DEF Records
    <3> HIDE DEF q
    <3>4. Sound(q, revoked', active')
      BY <1>1, <1>2, <2>1, <2>3, <3>2, <3>3 DEF Sound
    <3>5. RequestsOK'
      BY <1>2, <2>3, <3>1, <3>2, <3>4, RequestChanges DEF SessionInv
    <3>6. QED
      BY <1>1, <1>4, <2>1, <2>3, <3>5 DEF CoreOK
  <2>4. QED
    BY <1>5, <2>2, <2>3 DEF CoreSignsOut, CoreRevokesAll
<1>6. QED
  BY <1>3, <1>5

\* getOrCreateCsrfToken
LEMMA CsrfStep ==
    ASSUME SessionInv, NEW r \in Requests, CsrfArrives(r)
    PROVE  SessionInv'
<1> DEFINE g == req[r]
<1>1. g \in Records /\ Sound(g, revoked, active) /\ g.kind = "csrf" /\ g.kind \notin Sessions
  BY RequestFacts DEF CsrfArrives, Sessions
<1>2. UNCHANGED <<core, refreshes, jar, store, seen, page, redirected, persisted, acts>>
  BY DEF CsrfArrives
<1>3. UNCHANGED <<revoked, active>>
  BY <1>2 DEF core
<1>4. CASE g.token # 0
  <2>1. Replies(r, "ok", Keep) /\ UNCHANGED csrf
    BY <1>4 DEF CsrfArrives
  <2>2. RequestsOK'
    BY <1>1, <1>3, <2>1, Answering, StatusNames, Numbers
  <2>3. UNCHANGED browser
    BY <1>2, <2>1 DEF browser
  <2>4. QED
    BY <1>2, <2>2, <2>3, Served
<1>5. CASE g.token = 0
  <2> DEFINE n == csrf.minted + 1
             q == [g EXCEPT !.step = "replied", !.status = "minted", !.token = n]
  <2>1. /\ csrf.minted < MaxCsrf /\ csrf' = [csrf EXCEPT !.minted = n]
        /\ req' = [req EXCEPT ![r].step = "replied", ![r].status = "minted", ![r].token = n]
    BY <1>5 DEF CsrfArrives
  <2>2. n \in 0 .. MaxCsrf
    BY <2>1, BoundAssumption DEF SessionInv, BrowserOK
  <2> HIDE DEF n
  <2>3. req' = [req EXCEPT ![r] = q]
    BY <2>1 DEF SessionInv, RequestsOK
  <2>4. q \in Records /\ q.step = "replied" /\ q.status = "minted"
    BY <1>1, <2>2, StatusNames DEF Records, Steps
  <2>5. /\ q.kind = g.kind /\ q.then = g.then /\ q.refresh = g.refresh /\ q.order = g.order
    BY <1>1 DEF Records
  <2> HIDE DEF q
  <2>6. Sound(q, revoked', active')
    BY <1>1, <1>3, <2>4, <2>5 DEF Sound
  <2>7. RequestsOK'
    BY <1>3, <2>3, <2>4, <2>6, RequestChanges DEF SessionInv
  <2>8. RefreshesOK' /\ CoreOK'
    BY <1>2, <1>3, RefreshesStay DEF SessionInv, CoreOK, core
  <2>9. BrowserOK'
    BY <1>2, <2>1, <2>2 DEF SessionInv, BrowserOK
  <2>10. QED
    BY <1>2, <2>7, <2>8, <2>9 DEF SessionInv
<1>6. QED
  BY <1>4, <1>5

\* What happens in Core, or to a cookie, by itself
LEMMA TimeSteps ==
    ASSUME SessionInv,
           \/ \E k \in Pairs : AccessLapses(k) \/ LateRotation(k)
           \/ CookieLapses \/ CsrfLapses \/ Deactivate
    PROVE  SessionInv'
<1>1. CoreOK /\ RefreshesOK /\ RequestsOK /\ BrowserOK /\ acts \in 0 .. MaxActs
  BY DEF SessionInv
<1>2. req' = req /\ refreshes' = refreshes
  BY DEF AccessLapses, LateRotation, CookieLapses, CsrfLapses, Deactivate
<1>3. revoked \subseteq revoked' /\ (active' => active)
  BY DEF AccessLapses, LateRotation, CookieLapses, CsrfLapses, Deactivate, core
<1>4. RequestsOK' /\ RefreshesOK'
  BY <1>1, <1>2, <1>3, RequestsStay, RefreshesStay
<1>5. CoreOK'
  <2>1. CASE \E k \in Pairs : AccessLapses(k)
    BY <1>1, <2>1 DEF AccessLapses, CoreOK
  <2>2. ASSUME NEW k \in Pairs, LateRotation(k) PROVE CoreOK'
    <3>1. late' \subseteq Pairs /\ revoked' \subseteq Pairs /\ UNCHANGED <<lapsed, active>>
      BY <1>1, <2>2 DEF LateRotation, CoreOK
    <3>2. issued' \in Cookie
      BY <1>1, <2>2, Numbers DEF LateRotation, CoreOK
    <3>3. QED
      BY <1>1, <3>1, <3>2 DEF CoreOK
  <2>3. CASE CookieLapses \/ CsrfLapses \/ Deactivate
    BY <1>1, <2>3 DEF CookieLapses, CsrfLapses, Deactivate, CoreOK, core
  <2>4. QED
    BY <2>1, <2>2, <2>3
<1>6. BrowserOK'
  BY <1>1, Numbers DEF AccessLapses, LateRotation, CookieLapses, CsrfLapses, Deactivate,
                       BrowserOK, browser
<1>7. acts' \in 0 .. MaxActs
  BY <1>1, BoundAssumption DEF AccessLapses, LateRotation, CookieLapses, CsrfLapses, Deactivate
<1>8. QED
  BY <1>4, <1>5, <1>6, <1>7 DEF SessionInv
-----------------------------------------------------------------------------
LEMMA AppliedType ==
    ASSUME NEW c \in [access : Cookie, refresh : Cookie], c.refresh = 0 => c.access = 0,
           NEW order \in Orders
    PROVE  /\ Applied(c, order) \in [access : Cookie, refresh : Cookie]
           /\ Applied(c, order).refresh = 0 => Applied(c, order).access = 0
<1>1. CASE order = Keep
  BY <1>1, Numbers DEF Applied
<1>2. CASE order = Clear
  BY <1>2, Numbers DEF Applied
<1>3. CASE order \notin {Keep, Clear}
  <2>1. order \in Cookie /\ order # 0
    BY <1>3, Numbers
  <2>2. Applied(c, order) = [access |-> order, refresh |-> order]
    BY <1>3 DEF Applied
  <2>3. QED
    BY <2>1, <2>2
<1>4. QED
  BY <1>1, <1>2, <1>3

LEMMA StoreTypes ==
    /\ Anonymous \in Store /\ ~Anonymous.auth
    /\ AuthenticatedUser \in Store /\ AuthenticatedUser.auth
    /\ Expired \in Store /\ ~Expired.auth
    /\ \A b \in BOOLEAN : Rehydrated(b) \in Store /\ Rehydrated(b).auth = b
    /\ \A s \in Store : /\ SigningIn(s) \in Store /\ SigningIn(s).auth = s.auth
                        /\ AuthError(s) \in Store /\ AuthError(s).auth = s.auth
    /\ \A s \in Store, res \in Resolutions :
         SessionResolution(s, res) \in Store /\ SessionResolution(s, res).auth = s.auth
<1>1. Anonymous \in Store /\ Anonymous.auth = FALSE
  BY DEF Anonymous, Store, Resolutions
<1>2. \A s \in Store, res \in Resolutions :
        SessionResolution(s, res) \in Store /\ SessionResolution(s, res).auth = s.auth
  BY DEF SessionResolution, Store
<1>3. {"expired", "authenticated"} \subseteq Resolutions
  BY DEF Resolutions
<1>4. AuthenticatedUser \in Store /\ AuthenticatedUser.auth = TRUE
  BY <1>1, <1>3 DEF AuthenticatedUser, Store
<1>5. \A b \in BOOLEAN : Rehydrated(b) \in Store /\ Rehydrated(b).auth = b
  BY <1>1 DEF Rehydrated, Store
<1>6. \A s \in Store : /\ SigningIn(s) \in Store /\ SigningIn(s).auth = s.auth
                       /\ AuthError(s) \in Store /\ AuthError(s).auth = s.auth
  BY DEF SigningIn, AuthError, Store
<1>7. Expired \in Store /\ Expired.auth = FALSE
  BY <1>1, <1>2, <1>3 DEF Expired
<1>8. QED
  BY <1>1, <1>2, <1>4, <1>5, <1>6, <1>7

\* AuthSessionBootstrap: a store loses its user to "expired" and "anonymous" only.
LEMMA BootstrapType ==
    ASSUME NEW s \in Store, NEW res \in Answers \ {"none"}
    PROVE  /\ Bootstrapped(s, res) \in Store
           /\ s.auth /\ ~Bootstrapped(s, res).auth => res \in {"expired", "anonymous"}
<1>1. res \in {"anonymous", "authenticated", "expired"} \cup Degraded
  BY DEF Answers
<1>2. CASE res \in Degraded
  <2>1. Bootstrapped(s, res) = SessionResolution(s, res)
    BY <1>2 DEF Bootstrapped, Degraded
  <2>2. res \in Resolutions
    BY <1>2 DEF Degraded, Resolutions
  <2>3. QED
    BY <2>1, <2>2, StoreTypes
<1>3. CASE res = "expired"
  BY <1>3, StoreTypes DEF Bootstrapped, Degraded
<1>4. CASE res = "authenticated"
  <2>1. Bootstrapped(s, res) = AuthenticatedUser
    BY <1>4 DEF Bootstrapped, Degraded
  <2>2. QED
    BY <2>1, StoreTypes
<1>5. CASE res = "anonymous"
  BY <1>5, StoreTypes DEF Bootstrapped, Degraded
<1>6. QED
  BY <1>1, <1>2, <1>3, <1>4, <1>5

LEMMA Putting ==
    ASSUME BrowserOK, NEW t \in Tabs, NEW s \in Store, Put(t, s)
    PROVE  /\ store' \in [Tabs -> Store] /\ persisted' \in BOOLEAN
           /\ \A u \in Tabs : store'[u] = IF u = t THEN s ELSE store[u]
  BY DEF Put, BrowserOK, Store

LEMMA TargetType ==
    ASSUME NEW to \in Pages, NEW res
    PROVE  Target(to, res) \in Pages
<1>1. CASE to = "protected" /\ res \in {"anonymous", "expired"}
  BY <1>1 DEF Target, Pages
<1>2. CASE to = "login" /\ res = "authenticated"
  BY <1>2 DEF Target, Pages
<1>3. CASE ~(to = "protected" /\ res \in {"anonymous", "expired"}) /\ ~(to = "login" /\ res = "authenticated")
  BY <1>3 DEF Target
<1>4. QED
  BY <1>1, <1>2, <1>3

\* A slot is freed, or taken by a request that leaves the browser.
LEMMA Freeing ==
    ASSUME SessionInv, NEW r \in Requests, Frees(r), UNCHANGED <<revoked, active>>
    PROVE  RequestsOK'
<1>1. req' = [req EXCEPT ![r] = Free] /\ revoked \subseteq revoked' /\ (active' => active)
  BY DEF Frees
<1>2. QED
  BY <1>1, FreeIsSound, RequestChanges DEF SessionInv

LEMMA Sending ==
    ASSUME SessionInv, NEW r \in Requests, UNCHANGED <<revoked, active>>,
           NEW c \in [access : Cookie, refresh : Cookie], c.refresh = 0 => c.access = 0,
           NEW x \in [cookie : 0 .. MaxCsrf, minted : 0 .. MaxCsrf, held : [Tabs -> 0 .. MaxCsrf]],
           NEW t \in Tabs, NEW p \in Processes, NEW kind \in Kinds,
           NEW then \in Pages \cup Kinds, NEW more \in Pages \cup {"nowhere"},
           kind \in Sessions => then \in Pages,
           kind = "csrf" => then \in Kinds \ (Sessions \cup {"csrf"}),
           req' = [req EXCEPT ![r] = SentWith(c, x, t, p, kind, then, more)]
    PROVE  RequestsOK'
<1> DEFINE q == SentWith(c, x, t, p, kind, then, more)
<1>1. q \in Records /\ Sound(q, revoked', active')
  BY SentIsSound
<1>2. revoked \subseteq revoked' /\ (active' => active)
  OBVIOUS
<1> HIDE DEF q
<1>3. req' = [req EXCEPT ![r] = q]
  BY DEF q
<1>4. QED
  BY <1>1, <1>2, <1>3, RequestChanges DEF SessionInv

LEMMA UserSends ==
    ASSUME SessionInv, UNCHANGED <<revoked, active>>,
           NEW t \in Tabs, NEW kind \in Kinds \ {"csrf"}, NEW then \in Pages, Sends(t, kind, then)
    PROVE  RequestsOK'
<1>1. /\ jar \in [access : Cookie, refresh : Cookie] /\ (jar.refresh = 0 => jar.access = 0)
      /\ csrf \in [cookie : 0 .. MaxCsrf, minted : 0 .. MaxCsrf, held : [Tabs -> 0 .. MaxCsrf]]
  BY DEF SessionInv, BrowserOK
<1>2. PICK r \in Requests, p \in Processes :
        req' = [req EXCEPT ![r] =
                  IF IsMutation(kind) /\ csrf.held[t] = 0
                  THEN SentWith(jar, csrf, t, p, "csrf", kind, "nowhere")
                  ELSE SentWith(jar, csrf, t, p, kind, then, "nowhere")]
  BY DEF Sends
<1>3. CASE IsMutation(kind) /\ csrf.held[t] = 0
  <2>1. req' = [req EXCEPT ![r] = SentWith(jar, csrf, t, p, "csrf", kind, "nowhere")]
    BY <1>2, <1>3
  <2>2. "csrf" \in Kinds /\ "csrf" \notin Sessions /\ kind \in Kinds \ (Sessions \cup {"csrf"})
    BY <1>3 DEF Kinds, Sessions, IsMutation
  <2>3. QED
    BY <1>1, <2>1, <2>2, Sending
<1>4. CASE ~(IsMutation(kind) /\ csrf.held[t] = 0)
  <2>1. req' = [req EXCEPT ![r] = SentWith(jar, csrf, t, p, kind, then, "nowhere")]
    BY <1>2, <1>4
  <2>2. QED
    BY <1>1, <2>1, Sending
<1>5. QED
  BY <1>3, <1>4

\* What the browser does leaves Core and the BFF alone.
LEMMA Browsed ==
    ASSUME SessionInv, UNCHANGED <<core, refreshes>>, RequestsOK', BrowserOK',
           acts' \in 0 .. MaxActs
    PROVE  SessionInv'
<1>1. CoreOK'
  BY DEF SessionInv, CoreOK, core
<1>2. RefreshesOK'
  BY RefreshesStay DEF SessionInv, core
<1>3. QED
  BY <1>1, <1>2 DEF SessionInv
-----------------------------------------------------------------------------
LEMMA StoreStays == store' = store => IdentityStep
  BY DEF IdentityStep

\* One store is put; it may forget its user if Core does not honour the request's
\* refresh token, if the request is a logout, or if the browser forgot it before.
LEMMA StorePut ==
    ASSUME SessionInv, NEW t \in Tabs, NEW s \in Store, Put(t, s),
           NEW r \in Requests, req[r].tab = t, req[r].step = "replied",
           store[t].auth /\ ~s.auth =>
             \/ ~persisted \/ ~active \/ req[r].kind \in Logouts
             \/ req[r].refresh \in {0} \cup revoked
    PROVE  IdentityStep
<1>1. \A u \in Tabs : store'[u] = IF u = t THEN s ELSE store[u]
  BY Putting DEF SessionInv
<1>2. QED
  BY <1>1 DEF IdentityStep

LEMMA SessionStep ==
    ASSUME SessionInv, NEW r \in Requests, DeliverSession(r)
    PROVE  SessionInv' /\ IdentityStep
<1> DEFINE q == req[r]
           t == q.tab
           now == Applied(jar, q.order)
           to == Target(q.then, q.status)
           known == [csrf EXCEPT !.held[t] = IF q.kind = "load" THEN 0 ELSE @]
           was == IF q.kind = "load" THEN Rehydrated(persisted) ELSE store[t]
           is == IF q.kind = "load" \/ EffectRuns(seen[t], q.status)
                 THEN Bootstrapped(was, q.status) ELSE was
<1>1. /\ q \in Records /\ Sound(q, revoked, active)
      /\ q.step = "replied" /\ q.kind \in Sessions
      /\ BrowserOK /\ acts \in 0 .. MaxActs
  BY RequestFacts DEF DeliverSession, SessionInv
<1>2. /\ t \in Tabs /\ q.then \in Pages /\ q.more \in Pages \cup {"nowhere"} /\ q.order \in Orders
      /\ q.kind \in Kinds /\ q.refresh \in Cookie /\ q.status \in Answers \ {"none"}
  BY <1>1 DEF Records, Sound
<1>3. /\ now \in [access : Cookie, refresh : Cookie] /\ (now.refresh = 0 => now.access = 0)
      /\ jar' = now /\ UNCHANGED <<core, refreshes, acts>>
  BY <1>1, <1>2, AppliedType DEF DeliverSession, BrowserOK
<1>4. UNCHANGED <<revoked, active>>
  BY <1>3 DEF core
<1>5. csrf \in [cookie : 0 .. MaxCsrf, minted : 0 .. MaxCsrf, held : [Tabs -> 0 .. MaxCsrf]]
  BY <1>1 DEF BrowserOK
<1> HIDE DEF now
<1>6. CASE to # q.then
  <2>1. /\ UNCHANGED <<csrf, store, seen, page, redirected, persisted>>
        /\ \E p \in Processes :
             req' = [req EXCEPT ![r] = SentWith(now, csrf, t, p, q.kind, to, q.more)]
    BY <1>6 DEF DeliverSession, now
  <2>2. PICK p \in Processes :
          req' = [req EXCEPT ![r] = SentWith(now, csrf, t, p, q.kind, to, q.more)]
    BY <2>1
  <2>3. to \in Pages /\ q.kind # "csrf"
    BY <1>1, <1>2, TargetType DEF Sessions
  <2> HIDE DEF q, to
  <2>4. RequestsOK'
    <3>1. /\ t \in Tabs /\ q.kind \in Kinds /\ q.more \in Pages \cup {"nowhere"}
          /\ to \in Pages \cup Kinds /\ (q.kind \in Sessions => to \in Pages)
          /\ q.kind = "csrf" => to \in Kinds \ (Sessions \cup {"csrf"})
      BY <1>2, <2>3
    <3> HIDE DEF t
    <3>2. QED
      BY <1>3, <1>4, <1>5, <2>2, <3>1, Sending
  <2>5. BrowserOK'
    BY <1>1, <1>3, <2>1 DEF BrowserOK
  <2>6. QED
    BY <1>1, <1>3, <2>1, <2>4, <2>5, Browsed, StoreStays
<1>7. CASE to = q.then
  <2>1. /\ page' = [page EXCEPT ![t] = to] /\ seen' = [seen EXCEPT ![t] = q.status]
        /\ csrf' = known /\ Put(t, is)
        /\ redirected' = [redirected EXCEPT ![t] =
                             @ /\ q.kind = "session" /\ to = "protected" /\ ~is.auth]
        /\ IF q.more = "nowhere" THEN Frees(r)
           ELSE \E p \in Processes :
                  req' = [req EXCEPT ![r] = SentWith(now, csrf, t, p, "session", q.more, "nowhere")]
    BY <1>7 DEF DeliverSession, now
  <2>2. known \in [cookie : 0 .. MaxCsrf, minted : 0 .. MaxCsrf, held : [Tabs -> 0 .. MaxCsrf]]
    <3>1. csrf.held \in [Tabs -> 0 .. MaxCsrf]
      BY <1>5
    <3>2. [csrf.held EXCEPT ![t] = IF q.kind = "load" THEN 0 ELSE @] \in [Tabs -> 0 .. MaxCsrf]
      BY <3>1, Numbers
    <3>3. QED
      BY <1>5, <3>2
  <2>3. was \in Store /\ (was.auth = store[t].auth \/ was.auth = persisted)
    BY <1>1, <1>2, StoreTypes DEF BrowserOK
  <2>4. /\ is \in Store
        /\ was.auth /\ ~is.auth => q.status \in {"expired", "anonymous"}
    BY <1>2, <2>3, BootstrapType
  <2>5. is.auth \in BOOLEAN /\ persisted \in BOOLEAN /\ store[t].auth \in BOOLEAN
        /\ store[t] \in Store
    BY <1>1, <1>2, <2>4 DEF BrowserOK, Store
  <2>6. store[t].auth /\ ~is.auth =>
          ~persisted \/ ~active \/ q.refresh \in {0} \cup revoked
    <3>1. q.status \in {"expired", "anonymous"} => ~active \/ q.refresh \in {0} \cup revoked
      BY <1>1 DEF Sound
    <3>2. QED
      BY <2>3, <2>4, <3>1
  <2> HIDE DEF is, known, was
  <2>7. IdentityStep
    BY <1>1, <1>2, <2>1, <2>4, <2>6, StorePut
  <2>8. RequestsOK'
    <3>1. CASE q.more = "nowhere"
      BY <1>4, <2>1, <3>1, Freeing
    <3>2. CASE q.more # "nowhere"
      <4>1. PICK p \in Processes :
              req' = [req EXCEPT ![r] = SentWith(now, csrf, t, p, "session", q.more, "nowhere")]
        BY <2>1, <3>2
      <4>2. q.more \in Pages /\ "session" \in Kinds /\ "session" # "csrf"
        BY <1>2, <3>2 DEF Kinds, Sessions
      <4> HIDE DEF q
      <4>3. QED
        BY <1>2, <1>3, <1>4, <1>5, <4>1, <4>2, Sending
    <3>3. QED
      BY <3>1, <3>2
  <2>9. BrowserOK'
    <3>1. store' \in [Tabs -> Store] /\ persisted' \in BOOLEAN
      BY <1>1, <1>2, <2>1, <2>4, Putting
    <3>2. page' \in [Tabs -> Pages]
      BY <1>1, <1>2, <1>7, <2>1 DEF BrowserOK
    <3>3. seen' \in [Tabs -> Resolutions]
      BY <1>1, <1>2, <2>1 DEF BrowserOK, Answers, Resolutions, Degraded
    <3>4. redirected' \in [Tabs -> BOOLEAN]
      BY <1>1, <1>2, <2>1 DEF BrowserOK
    <3>5. QED
      BY <1>3, <2>1, <2>2, <3>1, <3>2, <3>3, <3>4 DEF BrowserOK
  <2>10. QED
    BY <1>1, <1>3, <2>7, <2>8, <2>9, Browsed
<1>8. QED
  BY <1>6, <1>7

\* apiRequest: a 401 is told to those whose refresh token is not honoured.
LEMMA CoreAnswerStep ==
    ASSUME SessionInv, NEW r \in Requests, DeliverCore(r)
    PROVE  SessionInv' /\ IdentityStep
<1> DEFINE q == req[r]
           t == q.tab
<1>1. /\ q \in Records /\ Sound(q, revoked, active) /\ q.step = "replied"
      /\ BrowserOK /\ acts \in 0 .. MaxActs /\ t \in Tabs /\ q.order \in Orders
  BY RequestFacts DEF DeliverCore, SessionInv, Records
<1>2. /\ jar' = Applied(jar, q.order) /\ Frees(r)
      /\ UNCHANGED <<core, refreshes, csrf, seen, page, redirected, acts>>
  BY DEF DeliverCore
<1>3. UNCHANGED <<revoked, active>>
  BY <1>2 DEF core
<1>4. RequestsOK'
  BY <1>2, <1>3, Freeing
<1>5. jar' \in [access : Cookie, refresh : Cookie] /\ (jar'.refresh = 0 => jar'.access = 0)
  BY <1>1, <1>2, AppliedType DEF BrowserOK
<1>6. CASE q.status = "denied"
  <2>1. Put(t, Expired)
    BY <1>6 DEF DeliverCore
  <2>2. ~active \/ q.refresh \in {0} \cup revoked
    BY <1>1, <1>6 DEF Sound
  <2>3. IdentityStep
    BY <1>1, <2>1, <2>2, StoreTypes, StorePut
  <2>4. BrowserOK'
    BY <1>1, <1>2, <1>5, <2>1, StoreTypes, Putting DEF BrowserOK
  <2>5. QED
    BY <1>1, <1>2, <1>4, <2>3, <2>4, Browsed
<1>7. CASE q.status # "denied"
  <2>1. UNCHANGED <<store, persisted>>
    BY <1>7 DEF DeliverCore
  <2>2. BrowserOK'
    BY <1>1, <1>2, <1>5, <2>1 DEF BrowserOK
  <2>3. QED
    BY <1>1, <1>2, <1>4, <2>1, <2>2, Browsed, StoreStays
<1>8. QED
  BY <1>6, <1>7

\* login, register and the logouts
LEMMA AuthAnswerStep ==
    ASSUME SessionInv, NEW r \in Requests, DeliverAuth(r)
    PROVE  SessionInv' /\ IdentityStep
<1> DEFINE q == req[r]
           t == q.tab
           now == Applied(jar, q.order)
<1>1. /\ q \in Records /\ Sound(q, revoked, active) /\ q.step = "replied"
      /\ q.kind \in Logouts \cup {"signin"}
      /\ BrowserOK /\ acts \in 0 .. MaxActs /\ t \in Tabs /\ q.order \in Orders
  BY RequestFacts DEF DeliverAuth, SessionInv, Records
<1>2. jar' = now /\ UNCHANGED <<core, refreshes, csrf, seen, page, redirected, acts>>
  BY DEF DeliverAuth
<1>3. UNCHANGED <<revoked, active>>
  BY <1>2 DEF core
<1>4. now \in [access : Cookie, refresh : Cookie] /\ (now.refresh = 0 => now.access = 0)
  BY <1>1, AppliedType DEF BrowserOK
<1>5. /\ csrf \in [cookie : 0 .. MaxCsrf, minted : 0 .. MaxCsrf, held : [Tabs -> 0 .. MaxCsrf]]
      /\ page[t] \in Pages /\ {"home", "protected"} \subseteq Pages
      /\ store[t] \in Store /\ "session" \in Kinds \ {"csrf"}
  BY <1>1 DEF BrowserOK, Pages, Kinds, Sessions
<1> HIDE DEF now
<1>6. ASSUME NEW then \in Pages, NEW more \in Pages, NEW p \in Processes,
             req' = [req EXCEPT ![r] = SentWith(now, csrf, t, p, "session", then, more)]
      PROVE  RequestsOK'
  <2> HIDE DEF t
  <2>1. t \in Tabs /\ "session" # "csrf" /\ "session" \in Kinds
    BY <1>1, <1>5
  <2>2. QED
    BY <1>3, <1>4, <1>5, <1>6, <2>1, Sending
<1>7. ASSUME NEW s \in Store, Put(t, s) PROVE BrowserOK'
  BY <1>1, <1>2, <1>4, <1>7, Putting DEF BrowserOK
<1>8. ASSUME NEW s \in Store, Put(t, s), s.auth \/ s.auth = store[t].auth \/ q.kind \in Logouts
      PROVE  IdentityStep
  BY <1>1, <1>8, StorePut
<1>9. CASE q.kind = "signin" /\ q.status = "ok"
  <2>1. q.kind \notin Logouts
    BY <1>9 DEF Logouts
  <2>2. /\ Put(t, AuthenticatedUser)
        /\ \E p \in Processes, more \in {"home", "protected"} :
             req' = [req EXCEPT ![r] = SentWith(now, csrf, t, p, "session", page[t], more)]
    BY <1>9, <2>1 DEF DeliverAuth, now
  <2>3. RequestsOK'
    BY <1>5, <1>6, <2>2
  <2>4. BrowserOK' /\ IdentityStep
    BY <1>7, <1>8, <2>2, StoreTypes
  <2>5. QED
    BY <1>1, <1>2, <2>3, <2>4, Browsed
<1>10. CASE q.kind = "signin" /\ q.status # "ok"
  <2>1. Put(t, AuthError(store[t])) /\ Frees(r)
    BY <1>10 DEF DeliverAuth
  <2>2. RequestsOK'
    BY <1>3, <2>1, Freeing
  <2>3. BrowserOK' /\ IdentityStep
    BY <1>5, <1>7, <1>8, <2>1, StoreTypes
  <2>4. QED
    BY <1>1, <1>2, <2>2, <2>3, Browsed
<1>11. CASE q.kind \in Logouts /\ q.status = "ok"
  <2>1. q.kind # "signin"
    BY <1>11 DEF Logouts
  <2>2. /\ Put(t, Anonymous)
        /\ \E p \in Processes, more \in {"home"} :
             req' = [req EXCEPT ![r] = SentWith(now, csrf, t, p, "session", "home", more)]
    BY <1>11, <2>1 DEF DeliverAuth, now
  <2>3. RequestsOK'
    BY <1>5, <1>6, <2>2
  <2>4. BrowserOK' /\ IdentityStep
    BY <1>7, <1>8, <1>11, <2>2, StoreTypes
  <2>5. QED
    BY <1>1, <1>2, <2>3, <2>4, Browsed
<1>12. CASE q.kind \in Logouts /\ q.status # "ok"
  <2>1. q.kind # "signin"
    BY <1>12 DEF Logouts
  <2>2. UNCHANGED <<store, persisted>> /\ Frees(r)
    BY <1>12, <2>1 DEF DeliverAuth
  <2>3. RequestsOK'
    BY <1>3, <2>2, Freeing
  <2>4. BrowserOK'
    BY <1>1, <1>2, <1>4, <2>2 DEF BrowserOK
  <2>5. QED
    BY <1>1, <1>2, <2>2, <2>3, <2>4, Browsed, StoreStays
<1>13. QED
  BY <1>1, <1>9, <1>10, <1>11, <1>12

\* ensureCsrfToken
LEMMA CsrfAnswerStep ==
    ASSUME SessionInv, NEW r \in Requests, DeliverCsrf(r)
    PROVE  SessionInv' /\ IdentityStep
<1> DEFINE q == req[r]
           t == q.tab
           held == [csrf.held EXCEPT ![t] = q.token]
           cookie == IF q.status = "minted" THEN q.token ELSE csrf.cookie
           now == [csrf EXCEPT !.held[t] = q.token,
                               !.cookie = IF q.status = "minted" THEN q.token ELSE @]
<1>1. /\ q \in Records /\ Sound(q, revoked, active) /\ q.kind = "csrf"
      /\ BrowserOK /\ acts \in 0 .. MaxActs /\ t \in Tabs /\ q.token \in 0 .. MaxCsrf
      /\ q.then \in Kinds \ (Sessions \cup {"csrf"})
  BY RequestFacts DEF DeliverCsrf, SessionInv, Records, Sound
<1>2. /\ csrf' = now
      /\ \E p \in Processes :
           req' = [req EXCEPT ![r] = SentWith(jar, now, t, p, q.then, "home", "nowhere")]
      /\ UNCHANGED <<core, refreshes, jar, store, seen, page, redirected, persisted, acts>>
  BY DEF DeliverCsrf
<1>3. UNCHANGED <<revoked, active>>
  BY <1>2 DEF core
<1>4. now \in [cookie : 0 .. MaxCsrf, minted : 0 .. MaxCsrf, held : [Tabs -> 0 .. MaxCsrf]]
  <2>1. csrf \in [cookie : 0 .. MaxCsrf, minted : 0 .. MaxCsrf, held : [Tabs -> 0 .. MaxCsrf]]
    BY <1>1 DEF BrowserOK
  <2>2. held \in [Tabs -> 0 .. MaxCsrf] /\ cookie \in 0 .. MaxCsrf
    BY <1>1, <2>1
  <2>3. now = [csrf EXCEPT !.held = held, !.cookie = cookie]
    BY <2>1
  <2> HIDE DEF held, cookie, now
  <2>4. QED
    BY <2>1, <2>2, <2>3
<1>5. jar \in [access : Cookie, refresh : Cookie] /\ (jar.refresh = 0 => jar.access = 0)
  BY <1>1 DEF BrowserOK
<1> HIDE DEF now
<1>6. PICK p \in Processes :
        req' = [req EXCEPT ![r] = SentWith(jar, now, t, p, q.then, "home", "nowhere")]
  BY <1>2
<1>7. RequestsOK'
  <2>1. t \in Tabs /\ q.then \in Kinds /\ q.then \notin Sessions /\ q.then # "csrf" /\ "home" \in Pages
    BY <1>1 DEF Pages
  <2> HIDE DEF t
  <2>2. QED
    BY <1>3, <1>4, <1>5, <1>6, <2>1, Sending
<1>8. BrowserOK'
  BY <1>1, <1>2, <1>4 DEF BrowserOK
<1>9. QED
  BY <1>1, <1>2, <1>7, <1>8, Browsed, StoreStays

LEMMA LostStep ==
    ASSUME SessionInv, NEW r \in Requests, Lost(r)
    PROVE  SessionInv' /\ IdentityStep
<1> DEFINE q == req[r]
           t == q.tab
<1>1. /\ q \in Records /\ Sound(q, revoked, active) /\ q.step = "replied"
      /\ BrowserOK /\ acts \in 0 .. MaxActs /\ t \in Tabs
      /\ q.more \in Pages \cup {"nowhere"} /\ store[t] \in Store
  BY RequestFacts DEF Lost, SessionInv, Records, BrowserOK
<1>2. UNCHANGED <<core, refreshes, jar, csrf, seen, page, redirected, acts>>
  BY DEF Lost
<1>3. UNCHANGED <<revoked, active>>
  BY <1>2 DEF core
<1>4. RequestsOK'
  <2>1. CASE q.kind \in Sessions /\ q.more # "nowhere"
    <3>1. PICK p \in Processes :
            req' = [req EXCEPT ![r] = SentWith(jar, csrf, t, p, "session", q.more, "nowhere")]
      BY <2>1 DEF Lost
    <3>2. /\ t \in Tabs /\ q.more \in Pages /\ "session" \in Kinds /\ "session" # "csrf"
          /\ jar \in [access : Cookie, refresh : Cookie] /\ (jar.refresh = 0 => jar.access = 0)
          /\ csrf \in [cookie : 0 .. MaxCsrf, minted : 0 .. MaxCsrf, held : [Tabs -> 0 .. MaxCsrf]]
      BY <1>1, <2>1 DEF Kinds, Sessions, BrowserOK
    <3> HIDE DEF q, t
    <3>3. QED
      BY <1>3, <3>1, <3>2, Sending
  <2>2. CASE ~(q.kind \in Sessions /\ q.more # "nowhere")
    BY <1>3, <2>2, Freeing DEF Lost
  <2>3. QED
    BY <2>1, <2>2
<1>5. CASE UNCHANGED <<store, persisted>>
  <2>1. BrowserOK'
    BY <1>1, <1>2, <1>5 DEF BrowserOK
  <2>2. QED
    BY <1>1, <1>2, <1>4, <1>5, <2>1, Browsed, StoreStays
<1>6. CASE Put(t, AuthError(store[t]))
  <2>1. BrowserOK'
    BY <1>1, <1>2, <1>6, StoreTypes, Putting DEF BrowserOK
  <2>2. IdentityStep
    BY <1>1, <1>6, StoreTypes, StorePut
  <2>3. QED
    BY <1>1, <1>2, <1>4, <2>1, <2>2, Browsed
<1>7. QED
  BY <1>5, <1>6 DEF Lost

\* What the user and the timers do with a store leaves its user as it is.
LEMMA PutKeeps ==
    ASSUME SessionInv, NEW t \in Tabs, NEW s \in Store, Put(t, s), s.auth = store[t].auth
    PROVE  IdentityStep
<1>1. \A u \in Tabs : store'[u] = IF u = t THEN s ELSE store[u]
  BY Putting DEF SessionInv
<1>2. QED
  BY <1>1 DEF IdentityStep

\* The user and the timers
LEMMA UserSteps ==
    ASSUME SessionInv, NEW t \in Tabs,
           \/ \E to \in Pages : Navigate(t, to)
           \/ \E kind \in Kinds : Ask(t, kind) \/ Logout(t, kind)
           \/ Reload(t) \/ Submit(t) \/ Retry(t) \/ HardTimeout(t) \/ LoginRedirect(t)
    PROVE  SessionInv' /\ IdentityStep
<1>1. /\ BrowserOK /\ RequestsOK /\ acts \in 0 .. MaxActs
      /\ page[t] \in Pages /\ store[t] \in Store
  BY DEF SessionInv, BrowserOK
<1>2. UNCHANGED <<core, refreshes>>
  BY DEF Navigate, Ask, Logout, Reload, Submit, Retry, HardTimeout, LoginRedirect
<1>3. UNCHANGED <<revoked, active>>
  BY <1>2 DEF core
<1>4. acts' \in 0 .. MaxActs
  BY <1>1, BoundAssumption
     DEF Navigate, Ask, Logout, Reload, Submit, Retry, HardTimeout, LoginRedirect
<1>5. /\ {"home", "protected", "login"} \subseteq Pages
      /\ {"session", "load", "private", "write", "public", "reset", "signin"} \cup Logouts
           \subseteq Kinds \ {"csrf"}
      /\ {"pending", "timeout"} \subseteq Resolutions
  BY DEF Pages, Kinds, Sessions, Logouts, Resolutions
<1>6. CASE HardTimeout(t)
  <2>1. RequestsOK'
    BY <1>1, <1>3, <1>6, RequestsStay DEF HardTimeout
  <2>2. /\ Put(t, SessionResolution(store[t], "timeout"))
        /\ UNCHANGED <<jar, csrf, seen, page, redirected>>
    BY <1>6 DEF HardTimeout
  <2> DEFINE s == SessionResolution(store[t], "timeout")
  <2>3. s \in Store /\ s.auth = store[t].auth
    BY <1>1, <1>5, StoreTypes
  <2> HIDE DEF s
  <2>4. Put(t, s)
    BY <2>2 DEF s
  <2>5. BrowserOK'
    BY <1>1, <2>2, <2>3, <2>4, Putting DEF BrowserOK
  <2>6. QED
    BY <1>2, <1>4, <2>1, <2>3, <2>4, <2>5, Browsed, PutKeeps
<1>7. CASE LoginRedirect(t)
  <2>1. Sends(t, "session", "login") /\ UNCHANGED <<jar, csrf, store, seen, page, persisted>>
        /\ redirected' = [redirected EXCEPT ![t] = TRUE]
    BY <1>7 DEF LoginRedirect
  <2>2. RequestsOK'
    BY <1>3, <1>5, <2>1, UserSends
  <2>3. BrowserOK'
    BY <1>1, <2>1 DEF BrowserOK
  <2>4. QED
    BY <1>2, <1>4, <2>1, <2>2, <2>3, Browsed, StoreStays
<1>8. CASE Submit(t) \/ Retry(t)
  <2>1. PICK s \in Store, kind \in {"signin", "session"}, to \in Pages :
          s.auth = store[t].auth /\ Put(t, s) /\ Sends(t, kind, to)
    <3>1. CASE Submit(t)
      <4>1. SigningIn(store[t]) \in Store /\ SigningIn(store[t]).auth = store[t].auth
        BY <1>1, StoreTypes
      <4>2. Put(t, SigningIn(store[t])) /\ Sends(t, "signin", "home")
        BY <3>1 DEF Submit
      <4>3. QED
        BY <1>5, <4>1, <4>2
    <3>2. CASE Retry(t)
      <4>1. /\ SessionResolution(store[t], "pending") \in Store
            /\ SessionResolution(store[t], "pending").auth = store[t].auth
        BY <1>1, <1>5, StoreTypes
      <4>2. Put(t, SessionResolution(store[t], "pending")) /\ Sends(t, "session", "protected")
        BY <3>2 DEF Retry
      <4>3. QED
        BY <1>5, <4>1, <4>2
    <3>3. QED
      BY <1>8, <3>1, <3>2
  <2>2. UNCHANGED <<jar, csrf, seen, page, redirected>>
    BY <1>8 DEF Submit, Retry
  <2>3. RequestsOK'
    BY <1>3, <1>5, <2>1, UserSends
  <2>4. BrowserOK'
    BY <1>1, <2>1, <2>2, Putting DEF BrowserOK
  <2>5. QED
    BY <1>2, <1>4, <2>1, <2>3, <2>4, Browsed, PutKeeps
<1>9. CASE \/ \E to \in Pages : Navigate(t, to)
           \/ \E kind \in Kinds : Ask(t, kind) \/ Logout(t, kind)
           \/ Reload(t)
  <2>1. PICK kind \in Kinds \ {"csrf"}, to \in Pages : Sends(t, kind, to)
    BY <1>1, <1>5, <1>9 DEF Navigate, Ask, Logout, Reload
  <2>2. UNCHANGED browser
    BY <1>9 DEF Navigate, Ask, Logout, Reload
  <2>3. RequestsOK'
    BY <1>3, <2>1, UserSends
  <2>4. BrowserOK' /\ store' = store
    BY <1>1, <2>2 DEF BrowserOK, browser
  <2>5. QED
    BY <1>2, <1>4, <2>3, <2>4, Browsed, StoreStays
<1>10. QED
  BY <1>6, <1>7, <1>8, <1>9
-----------------------------------------------------------------------------
LEMMA SessionInit == Init => SessionInv
<1> SUFFICES ASSUME Init PROVE SessionInv
  OBVIOUS
<1>1. issued \in Cookie /\ issued \in {0, 1}
  BY DEF Init
<1>2. CoreOK
  BY <1>1 DEF Init, CoreOK
<1>3. RefreshesOK
  BY TableValues DEF Init, RefreshesOK
<1>4. RequestsOK
  BY FreeIsSound DEF Init, RequestsOK
<1>5. BrowserOK
  <2>1. jar \in [access : Cookie, refresh : Cookie] /\ (jar.refresh = 0 => jar.access = 0)
    BY <1>1 DEF Init
  <2>2. csrf \in [cookie : 0 .. MaxCsrf, minted : 0 .. MaxCsrf, held : [Tabs -> 0 .. MaxCsrf]]
    BY Numbers DEF Init
  <2>3. store \in [Tabs -> Store] /\ persisted \in BOOLEAN /\ redirected \in [Tabs -> BOOLEAN]
    BY StoreTypes DEF Init
  <2>4. seen \in [Tabs -> Resolutions]
    BY DEF Init, Resolutions
  <2>5. page \in [Tabs -> Pages]
    BY DEF Init, Pages
  <2>6. QED
    BY <2>1, <2>2, <2>3, <2>4, <2>5 DEF BrowserOK
<1>6. acts \in 0 .. MaxActs
  BY Numbers DEF Init
<1>7. QED
  BY <1>2, <1>3, <1>4, <1>5, <1>6 DEF SessionInv

\* What the BFF and Core do leaves the stores alone.
LEMMA ServingStays ==
    ASSUME \/ \E r \in Requests : Serve(r)
           \/ \E p \in Processes, k \in Pairs : Refresh(p, k)
           \/ \E k \in Pairs : AccessLapses(k) \/ LateRotation(k)
           \/ CookieLapses \/ CsrfLapses \/ Deactivate
    PROVE  store' = store
<1>1. ASSUME NEW r \in Requests, Serve(r) PROVE store' = store
  BY <1>1 DEF Serve, SessionArrives, CsrfFailure, ForwardCoreRequest, SigninArrives,
       LogoutArrives, CsrfArrives, CallAccepted, FirstCallDenied, SecondCallDenied, CallFails,
       AnonymousCall, JoinRefresh, CoreSignsIn, SigninRefused, CoreSignsOut, CoreRevokesAll,
       SignOutFails, browser
<1>2. ASSUME NEW p \in Processes, NEW k \in Pairs, Refresh(p, k) PROVE store' = store
  BY <1>2 DEF Refresh, CheckRotation, Rotate, SettleRefresh, FailRefresh, browser
<1>3. CASE \/ \E k \in Pairs : AccessLapses(k) \/ LateRotation(k)
           \/ CookieLapses \/ CsrfLapses \/ Deactivate
  BY <1>3 DEF AccessLapses, LateRotation, CookieLapses, CsrfLapses, Deactivate, browser
<1>4. QED
  BY <1>1, <1>2, <1>3

LEMMA SessionNext ==
    ASSUME SessionInv, [Next]_vars
    PROVE  SessionInv' /\ IdentityStep
<1>1. CASE UNCHANGED vars
  <2>1. UNCHANGED <<core, refreshes, browser, acts>> /\ req' = req /\ store' = store
    BY <1>1 DEF vars, browser
  <2>2. RequestsOK'
    BY <2>1, RequestsStay DEF SessionInv, core
  <2>3. QED
    BY <2>1, <2>2, Served, StoreStays
<1>2. ASSUME NEW r \in Requests, Serve(r) PROVE SessionInv' /\ IdentityStep
  <2>1. store' = store
    BY <1>2, ServingStays
  <2>2. SessionInv'
    BY <1>2, ArrivalSteps, CsrfStep, CallSteps, JoinStep, CoreSteps DEF Serve
  <2>3. QED
    BY <2>1, <2>2, StoreStays
<1>3. ASSUME NEW r \in Requests, Deliver(r) \/ Lost(r) PROVE SessionInv' /\ IdentityStep
  BY <1>3, SessionStep, CoreAnswerStep, AuthAnswerStep, CsrfAnswerStep, LostStep DEF Deliver
<1>4. ASSUME NEW p \in Processes, NEW k \in Pairs, Refresh(p, k)
      PROVE  SessionInv' /\ IdentityStep
  <2>1. store' = store
    BY <1>4, ServingStays
  <2>2. SessionInv'
    BY <1>4, CheckStep, RotateStep, SettleSteps DEF Refresh
  <2>3. QED
    BY <2>1, <2>2, StoreStays
<1>5. CASE \/ \E k \in Pairs : AccessLapses(k) \/ LateRotation(k)
           \/ CookieLapses \/ CsrfLapses \/ Deactivate
  BY <1>5, TimeSteps, ServingStays, StoreStays
<1>6. ASSUME NEW t \in Tabs,
             \/ \E to \in Pages : Navigate(t, to)
             \/ \E kind \in Kinds : Ask(t, kind) \/ Logout(t, kind)
             \/ Reload(t) \/ Submit(t) \/ Retry(t) \/ HardTimeout(t) \/ LoginRedirect(t)
      PROVE  SessionInv' /\ IdentityStep
  BY <1>6, UserSteps
<1>7. QED
  BY <1>1, <1>2, <1>3, <1>4, <1>5, <1>6 DEF Next

LEMMA SessionImplies ==
    SessionInv => TypeOK /\ ClearedOnlyWhenRefused /\ PublicReadsNeverExpire
<1> SUFFICES ASSUME SessionInv PROVE TypeOK /\ ClearedOnlyWhenRefused /\ PublicReadsNeverExpire
  OBVIOUS
<1>1. TypeOK
  BY DEF SessionInv, CoreOK, RefreshesOK, RequestsOK, BrowserOK, TypeOK, Records
<1>2. ASSUME NEW r \in Requests PROVE Sound(req[r], revoked, active)
  BY RequestFacts
<1>3. ClearedOnlyWhenRefused
  BY <1>2 DEF ClearedOnlyWhenRefused, Sound
<1>4. PublicReadsNeverExpire
  BY <1>2 DEF PublicReadsNeverExpire, Sound
<1>5. QED
  BY <1>1, <1>3, <1>4
-----------------------------------------------------------------------------
(* The other services: the proofs of their modules, for the variables of the *)
(* scenes.                                                                   *)

LP == INSTANCE ListOrderingProofs WITH
         rows <- lRows, req <- lReq,
         Items <- 1..4, Requests <- Writers, FirstRows <- MCFirstRows

LEMMA ListInit == L!Init => LP!Inv
<1>1. L!Init => LP!Init
  BY DEF L!Init, LP!Init, L!IsList, LP!IsList, L!Distinct, LP!Distinct, L!Idle, LP!Idle,
         L!Nobody, LP!Nobody, L!IsFiniteSet, LP!IsFiniteSet
<1>2. QED
  BY <1>1, LP!InitInv

LEMMA ListNext ==
    ASSUME LP!Inv, [L!Next]_listVars
    PROVE  LP!Inv' /\ L!StepIsMeant
<1>1. L!Next => LP!Next
  BY DEF L!Idle, LP!Idle, L!Done, LP!Done, L!Nobody, LP!Nobody, L!Ids, LP!Ids, L!Numbers,
         LP!Numbers, L!Last, LP!Last, L!NamedIds, LP!NamedIds, L!Running, LP!Running,
         L!Known, LP!Known, L!Unheard, LP!Unheard, L!Asks, LP!Asks, L!Ends, LP!Ends,
         L!AskAdd, LP!AskAdd, L!NewPlace, LP!NewPlace, L!Insert, LP!Insert, L!Remove,
         LP!Remove, L!Orders, LP!Orders, L!AskOrder, LP!AskOrder, L!Place, LP!Place,
         L!Distinct, LP!Distinct, L!Arranged, LP!Arranged, L!Arrange, LP!Arrange,
         L!AskMove, LP!AskMove, L!OldPos, LP!OldPos, L!MayMove, LP!MayMove, L!Aside,
         LP!Aside, L!Shifted, LP!Shifted, L!Moved, LP!Moved, L!Move, LP!Move, L!Fail,
         LP!Fail, L!Next, LP!Next, L!Cardinality, LP!Cardinality, L!vars, LP!vars,
         L!AskUpdate, LP!AskUpdate, L!Updated, LP!Updated, L!Update, LP!Update
<1>2. [LP!Next]_LP!vars
  BY <1>1 DEF listVars, LP!vars
<1>3. LP!Inv' /\ LP!StepIsMeant
  BY <1>2, LP!StepKeepsInv
<1>4. LP!StepIsMeant => L!StepIsMeant
  BY DEF L!StepIsMeant, LP!StepIsMeant, L!Done, LP!Done, L!Idle, LP!Idle, L!Nobody,
         LP!Nobody, L!AddMeant, LP!AddMeant, L!OrderMeant, LP!OrderMeant, L!MoveMeant,
         LP!MoveMeant, L!KeepsOrder, LP!KeepsOrder, L!Ids, LP!Ids, L!Stays, LP!Stays,
         L!NamedIds, LP!NamedIds, L!Place, LP!Place, L!Numbers, LP!Numbers, L!Cardinality,
         LP!Cardinality, L!UpdateMeant, LP!UpdateMeant, L!OldPos, LP!OldPos
<1>5. QED
  BY <1>3, <1>4

LEMMA ListImplies == LP!Inv => L!TypeOK
<1>1. LP!TypeOK => L!TypeOK
  BY DEF L!TypeOK, LP!TypeOK, L!IsList, LP!IsList, L!Distinct, LP!Distinct, L!IsFiniteSet,
         LP!IsFiniteSet, L!Steps, LP!Steps, L!Nobody, LP!Nobody, L!NamedIds, LP!NamedIds
<1>2. QED
  BY <1>1, LP!InvType

-----------------------------------------------------------------------------
(* The homepage aggregate of the proxy *)

Computations == Cardinality(H!Started)

Asking == {"asks", "missed", "refreshes", "computes"}

\* Flights are single, nobody waits for what was not started, ...
HomeShared ==
    /\ H!FlightIsSingle
    /\ \A r \in Visitors : hReq[r].step = "waits" => hReq[r].on \in Visitors
    /\ \A r \in Visitors : hReq[r].step \in Asking => hCall[r].step = "none"

\* ... and the flight is the last of the computations.
HomeNewest ==
    /\ hFresh.number <= Computations /\ hStale.number <= Computations
    /\ \A r \in Visitors : H!Working(r) => hCall[r].payload.number = Computations

HomeInv == H!TypeOK /\ HomeShared /\ HomeNewest

LEMMA CountType ==
    ASSUME IsFiniteSet(Visitors)
    PROVE  /\ IsFiniteSet(H!Started) /\ Computations \in Nat
           /\ Cardinality(Visitors) \in Nat
           /\ Computations <= Cardinality(Visitors)
  BY FS_Subset, FS_CardinalityType DEF H!Started, Computations

\* Starting one more computation.
LEMMA CountStarts ==
    ASSUME IsFiniteSet(Visitors), NEW r \in Visitors, r \notin H!Started
    PROVE  /\ Cardinality(H!Started \cup {r}) = Computations + 1
           /\ Computations + 1 <= Cardinality(Visitors)
<1>1. Cardinality(H!Started \cup {r}) = Computations + 1
  BY CountType, FS_AddElement DEF Computations
<1>2. Cardinality(H!Started \cup {r}) <= Cardinality(Visitors)
  BY FS_Subset DEF H!Started
<1>3. QED
  BY <1>1, <1>2

LEMMA HomeInit ==
    ASSUME IsFiniteSet(Visitors), NoOne \notin Visitors, H!Init
    PROVE  HomeInv
<1>1. H!Started = {} /\ Computations = 0
  BY FS_EmptySet DEF H!Init, H!Started, Computations
<1>2. Cardinality(Visitors) \in Nat
  BY CountType
<1>3. H!TypeOK
  <2>1. H!Nothing \in H!Payloads
    BY <1>2 DEF H!Payloads, H!Nothing, Cardinality, H!Cardinality
  <2>2. QED
    BY <2>1 DEF H!Init, H!TypeOK, H!At, H!CallSteps
<1>4. HomeShared
  BY DEF H!Init, HomeShared, H!FlightIsSingle, H!Working, H!At
<1>5. HomeNewest
  BY <1>1 DEF H!Init, HomeNewest, H!Working, H!Nothing
<1>6. QED
  BY <1>3, <1>4, <1>5 DEF HomeInv
-----------------------------------------------------------------------------
\* What a request gets or waits for, the computations as they are.
LEMMA VisitorKeeps ==
    ASSUME HomeInv, NEW r \in Visitors, NEW q,
           q \in [step : {"asks", "missed", "refreshes", "computes", "waits", "done"},
                  on : Visitors \cup {NoOne}, answer : H!Payloads],
           hReq' = [hReq EXCEPT ![r] = q],
           UNCHANGED <<hFresh, hStale, hFlights, hCall>>,
           q.step \in Asking => hReq[r].step \in Asking,
           q.step = "waits" => q.on \in Visitors /\ hCall[q.on].step # "none"
    PROVE  HomeInv'
<1>1. H!TypeOK'
  BY DEF HomeInv, H!TypeOK
<1>2. \A s \in Visitors : hReq'[s] = IF s = r THEN q ELSE hReq[s]
  BY DEF HomeInv, H!TypeOK
<1>3. HomeShared'
  BY <1>2 DEF HomeInv, HomeShared, H!FlightIsSingle, H!Working
<1>4. HomeNewest'
  BY DEF HomeInv, HomeNewest, H!Working, Computations, H!Started
<1>5. QED
  BY <1>1, <1>3, <1>4 DEF HomeInv

LEMMA VisitorSteps ==
    ASSUME IsFiniteSet(Visitors), HomeInv, NEW r \in Visitors,
           H!ReadFresh(r) \/ H!ReadStale(r) \/ H!Join(r) \/ H!Wake(r) \/ H!GiveUp(r)
    PROVE  HomeInv'
<1>1. /\ hFresh \in H!Payloads /\ hStale \in H!Payloads /\ H!Nothing \in H!Payloads
      /\ \A s \in Visitors : hCall[s].payload \in H!Payloads
  <2>1. H!Nothing \in H!Payloads
    BY CountType DEF H!Payloads, H!Nothing, Cardinality, H!Cardinality
  <2>2. QED
    BY <2>1 DEF HomeInv, H!TypeOK
<1>2. CASE H!ReadFresh(r)
  <2>1. PICK q \in {H!Gets(hFresh), H!At("missed")} : hReq' = [hReq EXCEPT ![r] = q]
    BY <1>2 DEF H!ReadFresh
  <2>2. hReq[r].step \in Asking /\ UNCHANGED <<hFresh, hStale, hFlights, hCall>>
    BY <1>2 DEF H!ReadFresh, Asking
  <2>3. q.step # "waits" /\ q \in [step : {"asks", "missed", "refreshes", "computes", "waits", "done"},
                  on : Visitors \cup {NoOne}, answer : H!Payloads]
    BY <1>1, <2>1 DEF H!Gets, H!At
  <2>4. QED
    BY <2>1, <2>2, <2>3, VisitorKeeps
<1>3. CASE H!ReadStale(r)
  <2>1. PICK q \in {H!At("refreshes"), H!At("computes")} : hReq' = [hReq EXCEPT ![r] = q]
    BY <1>3 DEF H!ReadStale
  <2>2. hReq[r].step \in Asking /\ UNCHANGED <<hFresh, hStale, hFlights, hCall>>
    BY <1>3 DEF H!ReadStale, Asking
  <2>3. q.step # "waits" /\ q \in [step : {"asks", "missed", "refreshes", "computes", "waits", "done"},
                  on : Visitors \cup {NoOne}, answer : H!Payloads]
    BY <1>1, <2>1 DEF H!At
  <2>4. QED
    BY <2>1, <2>2, <2>3, VisitorKeeps
<1>4. CASE H!Join(r)
  <2>1. hFlights \in Visitors /\ hCall[hFlights].step # "none"
    BY <1>4 DEF H!Join, H!NoFlight, HomeInv, H!TypeOK, HomeShared, H!FlightIsSingle, H!Working
  <2>2. /\ hReq' = [hReq EXCEPT ![r] = H!Waits(hFlights)]
        /\ UNCHANGED <<hFresh, hStale, hFlights, hCall>>
    BY <1>4 DEF H!Join
  <2>3. H!Waits(hFlights) = [step |-> "waits", on |-> hFlights, answer |-> H!Nothing]
    BY DEF H!Waits
  <2>4. QED
    BY <1>1, <2>1, <2>2, <2>3, VisitorKeeps DEF Asking
<1>5. CASE H!Wake(r) \/ H!GiveUp(r)
  <2>1. hReq[r].step = "waits" /\ UNCHANGED <<hFresh, hStale, hFlights, hCall>>
    BY <1>5 DEF H!Wake, H!GiveUp
  <2>2. PICK a \in H!Payloads : hReq' = [hReq EXCEPT ![r] = H!Gets(a)]
    <3>1. hCall[hReq[r].on].payload \in H!Payloads
      BY <1>1, <2>1 DEF HomeInv, HomeShared
    <3>2. QED
      BY <1>1, <1>5, <3>1 DEF H!Wake, H!GiveUp
  <2>3. H!Gets(a) = [step |-> "done", on |-> NoOne, answer |-> a]
    BY DEF H!Gets
  <2>4. QED
    BY <2>1, <2>2, <2>3, VisitorKeeps DEF Asking
<1>6. QED
  BY <1>2, <1>3, <1>4, <1>5

LEMMA LeadStep ==
    ASSUME IsFiniteSet(Visitors), NoOne \notin Visitors, HomeInv, NEW r \in Visitors, H!Lead(r)
    PROVE  HomeInv'
<1> DEFINE c == [step |-> "fetches", payload |-> [number |-> Computations + 1, whole |-> TRUE]]
<1>1. /\ hCall[r].step = "none" /\ hFlights = NoOne /\ hFlights' = r
      /\ hCall' = [hCall EXCEPT ![r] = c]
      /\ hReq' = [hReq EXCEPT ![r] = H!Waits(r)]
      /\ UNCHANGED <<hFresh, hStale>>
  BY DEF H!Lead, H!NoFlight, HomeInv, HomeShared, Asking, Computations,
         Cardinality, H!Cardinality
<1>2. Computations \in Nat /\ Cardinality(Visitors) \in Nat /\ Computations + 1 <= Cardinality(Visitors)
      /\ Cardinality(H!Started \cup {r}) = Computations + 1
  <2>1. r \notin H!Started
    BY <1>1 DEF H!Started
  <2>2. QED
    BY <2>1, CountType, CountStarts
<1>3. \A s \in Visitors : ~H!Working(s)
  BY <1>1 DEF HomeInv, HomeShared, H!FlightIsSingle
<1> DEFINE p == [number |-> Computations + 1, whole |-> TRUE]
<1>4. c = [step |-> "fetches", payload |-> p] /\ p \in H!Payloads /\ p.number = Computations + 1
  BY <1>2 DEF H!Payloads, Cardinality, H!Cardinality
<1>5. H!Waits(r) = [step |-> "waits", on |-> r, answer |-> H!Nothing] /\ H!Nothing \in H!Payloads
  BY <1>2 DEF H!Waits, H!Nothing, H!Payloads, Cardinality, H!Cardinality
<1> HIDE DEF p, c
<1>6. \A s \in Visitors : /\ hCall'[s] = IF s = r THEN c ELSE hCall[s]
                          /\ hReq'[s] = IF s = r THEN H!Waits(r) ELSE hReq[s]
  BY <1>1 DEF HomeInv, H!TypeOK
<1>7. H!TypeOK'
  BY <1>1, <1>4, <1>5 DEF HomeInv, H!TypeOK, H!CallSteps
<1>8. H!Started' = H!Started \cup {r} /\ Computations' = Computations + 1
  <2>1. H!Started' = H!Started \cup {r}
    BY <1>4, <1>6 DEF H!Started
  <2>2. QED
    BY <1>2, <2>1 DEF Computations
<1>9. \A s \in Visitors : H!Working(s)' <=> s = r
  BY <1>3, <1>4, <1>6 DEF H!Working
<1>10. HomeShared'
  BY <1>1, <1>4, <1>5, <1>6, <1>9 DEF HomeInv, HomeShared, H!FlightIsSingle, Asking
<1>11. HomeNewest'
  <2>1. hCall'[r].payload.number = Computations + 1
    BY <1>4, <1>6
  <2>2. hFresh.number \in Nat /\ hStale.number \in Nat
    BY <1>2 DEF HomeInv, H!TypeOK, H!Payloads
  <2>3. QED
    BY <1>1, <1>2, <1>8, <1>9, <2>1, <2>2 DEF HomeInv, HomeNewest
<1>12. QED
  BY <1>7, <1>10, <1>11 DEF HomeInv
-----------------------------------------------------------------------------
\* A computation that works goes on to another step.
LEMMA CallKeeps ==
    ASSUME IsFiniteSet(Visitors), HomeInv, NEW r \in Visitors, NEW c,
           H!Working(r),
           c \in [step : H!CallSteps, payload : H!Payloads], c.step # "none",
           c.payload.number = hCall[r].payload.number,
           hCall' = [hCall EXCEPT ![r] = c], hReq' = hReq,
           IF c.step = "ended" THEN hFlights' = NoOne ELSE hFlights' = hFlights,
           NoOne \notin Visitors,
           hFresh' \in {hFresh, hCall[r].payload}, hStale' \in {hStale, hCall[r].payload}
    PROVE  HomeInv'
<1>1. \A s \in Visitors : hCall'[s] = IF s = r THEN c ELSE hCall[s]
  BY DEF HomeInv, H!TypeOK
<1>2. H!TypeOK'
  BY DEF HomeInv, H!TypeOK
<1>3. H!Started' = H!Started /\ Computations' = Computations
  <2>1. H!Started' = H!Started
    BY <1>1 DEF H!Started, H!Working
  <2>2. QED
    BY <2>1 DEF Computations
<1>4. hFlights = r
  BY DEF HomeInv, HomeShared, H!FlightIsSingle
<1>5. HomeShared'
  BY <1>1, <1>4 DEF HomeInv, HomeShared, H!FlightIsSingle, H!Working, Asking
<1>6. HomeNewest'
  <2>1. hCall[r].payload.number = Computations /\ Computations \in Nat
    BY CountType DEF HomeInv, HomeNewest
  <2>2. hFresh'.number <= Computations /\ hStale'.number <= Computations
    BY <2>1 DEF HomeInv, HomeNewest
  <2>3. \A s \in Visitors : H!Working(s)' => hCall'[s].payload.number = Computations
    BY <1>1, <2>1 DEF HomeInv, HomeNewest, H!Working
  <2>4. QED
    BY <1>3, <2>2, <2>3 DEF HomeNewest
<1>7. QED
  BY <1>2, <1>5, <1>6 DEF HomeInv

LEMMA ComputationSteps ==
    ASSUME IsFiniteSet(Visitors), NoOne \notin Visitors, HomeInv, NEW r \in Visitors,
           H!Compute(r) \/ H!StoreFresh(r) \/ H!StoreStale(r) \/ H!Close(r) \/ H!Forget(r)
    PROVE  HomeInv'
<1>1. hCall[r] \in [step : H!CallSteps, payload : H!Payloads]
  BY DEF HomeInv, H!TypeOK
<1>2. CASE H!Compute(r)
  <2>1. PICK whole \in BOOLEAN :
          hCall' = [hCall EXCEPT ![r] = [step |-> "fresh",
                                       payload |-> [hCall[r].payload EXCEPT !.whole = whole]]]
    BY <1>2 DEF H!Compute
  <2> DEFINE p == [hCall[r].payload EXCEPT !.whole = whole]
             c == [step |-> "fresh", payload |-> p]
  <2>2. p \in H!Payloads /\ p.number = hCall[r].payload.number
    BY <1>1 DEF H!Payloads
  <2> HIDE DEF p
  <2>3. c \in [step : H!CallSteps, payload : H!Payloads] /\ c.step = "fresh" /\ c.payload = p
    BY <2>2 DEF H!CallSteps
  <2>4. hCall' = [hCall EXCEPT ![r] = c]
    BY <2>1 DEF p
  <2> HIDE DEF c
  <2>5. H!Working(r) /\ UNCHANGED <<hFresh, hStale, hFlights, hReq>>
    BY <1>2 DEF H!Compute, H!Working
  <2>6. QED
    BY <2>2, <2>3, <2>4, <2>5, CallKeeps
<1>3. CASE ~H!Compute(r)
  <2>1. PICK from \in H!CallSteps \ {"none", "ended"}, to \in H!CallSteps \ {"none"} :
          /\ H!Goes(r, from, to)
          /\ IF to = "ended" THEN hFlights' = NoOne ELSE hFlights' = hFlights
          /\ hFresh' \in {hFresh, hCall[r].payload} /\ hStale' \in {hStale, hCall[r].payload}
          /\ hReq' = hReq
    <3>1. CASE H!StoreFresh(r)
      <4>1. "fresh" \in H!CallSteps \ {"none", "ended"} /\ "stale" \in H!CallSteps \ {"none"}
        BY DEF H!CallSteps
      <4>2. H!Goes(r, "fresh", "stale")
        BY <3>1 DEF H!StoreFresh
      <4>3. QED
        BY <3>1, <4>1, <4>2 DEF H!StoreFresh
    <3>2. CASE H!StoreStale(r)
      <4>1. "stale" \in H!CallSteps \ {"none", "ended"} /\ "computed" \in H!CallSteps \ {"none"}
        BY DEF H!CallSteps
      <4>2. QED
        BY <3>2, <4>1 DEF H!StoreStale
    <3>3. CASE H!Close(r)
      <4>1. "computed" \in H!CallSteps \ {"none", "ended"} /\ "closed" \in H!CallSteps \ {"none"}
        BY DEF H!CallSteps
      <4>2. QED
        BY <3>3, <4>1 DEF H!Close
    <3>4. CASE H!Forget(r)
      <4>1. "closed" \in H!CallSteps \ {"none", "ended"} /\ "ended" \in H!CallSteps \ {"none"}
        BY DEF H!CallSteps
      <4>2. QED
        BY <3>4, <4>1 DEF H!Forget
    <3>5. QED
      BY <1>3, <3>1, <3>2, <3>3, <3>4
  <2> DEFINE c == [step |-> to, payload |-> hCall[r].payload]
  <2>2. hCall[r].step = from /\ hCall' = [hCall EXCEPT ![r].step = to]
    BY <2>1 DEF H!Goes
  <2>3. hCall' = [hCall EXCEPT ![r] = c]
    <3>1. [hCall[r] EXCEPT !.step = to] = c
      BY <1>1
    <3> HIDE DEF c
    <3>2. QED
      BY <2>2, <3>1
  <2>4. /\ c \in [step : H!CallSteps, payload : H!Payloads]
        /\ c.step = to /\ c.payload = hCall[r].payload
    BY <1>1, <2>1
  <2> HIDE DEF c
  <2>5. H!Working(r)
    BY <2>1, <2>2 DEF H!Working
  <2>6. QED
    BY <2>1, <2>3, <2>4, <2>5, CallKeeps
<1>4. QED
  BY <1>2, <1>3

LEMMA ExpireStep ==
    ASSUME IsFiniteSet(Visitors), HomeInv, H!Expire
    PROVE  HomeInv'
<1>1. H!Nothing \in H!Payloads /\ H!Nothing.number = 0 /\ Computations \in Nat
  BY CountType DEF H!Nothing, H!Payloads, Cardinality, H!Cardinality
<1>2. /\ hFresh' \in {hFresh, H!Nothing} /\ hStale' \in {hStale, H!Nothing}
      /\ UNCHANGED <<hFlights, hCall, hReq>>
  BY DEF H!Expire
<1>3. H!TypeOK'
  BY <1>1, <1>2 DEF HomeInv, H!TypeOK
<1>4. HomeShared'
  BY <1>2 DEF HomeInv, HomeShared, H!FlightIsSingle, H!Working
<1>5. Computations' = Computations /\ \A s \in Visitors : H!Working(s)' <=> H!Working(s)
  BY <1>2 DEF Computations, H!Started, H!Working
<1>6. HomeNewest'
  BY <1>1, <1>2, <1>5 DEF HomeInv, HomeNewest
<1>7. QED
  BY <1>3, <1>4, <1>6 DEF HomeInv

LEMMA HomeNext ==
    ASSUME IsFiniteSet(Visitors), NoOne \notin Visitors, HomeInv, [H!Next]_homeVars
    PROVE  HomeInv'
<1>1. ASSUME NEW r \in Visitors,
             H!ReadFresh(r) \/ H!ReadStale(r) \/ H!Join(r) \/ H!Wake(r) \/ H!GiveUp(r)
      PROVE  HomeInv'
  BY <1>1, VisitorSteps
<1>2. ASSUME NEW r \in Visitors, H!Lead(r)
      PROVE  HomeInv'
  BY <1>2, LeadStep
<1>3. ASSUME NEW r \in Visitors,
             H!Compute(r) \/ H!StoreFresh(r) \/ H!StoreStale(r) \/ H!Close(r) \/ H!Forget(r)
      PROVE  HomeInv'
  BY <1>3, ComputationSteps
<1>4. CASE H!Expire
  BY <1>4, ExpireStep
<1>5. CASE UNCHANGED homeVars
  BY <1>5 DEF homeVars, HomeInv, H!TypeOK, HomeShared, H!FlightIsSingle, HomeNewest, H!Working, Computations, H!Started
<1>6. QED
  BY <1>1, <1>2, <1>3, <1>4, <1>5 DEF H!Next

LEMMA HomeImplies ==
    ASSUME IsFiniteSet(Visitors), HomeInv
    PROVE  H!TypeOK /\ H!FlightIsSingle /\ H!StoresAreNewer
  BY CountType DEF HomeInv, HomeShared, HomeNewest, H!StoresAreNewer

\* singleflight in computeAndCache: whoever joins, leads or gives up, one computation
\* works at a time, nobody waits for one that was not started, and no copy in the cache
\* is replaced by an older one.
THEOREM HomepageShares ==
    ASSUME IsFiniteSet(Visitors), NoOne \notin Visitors
    PROVE  H!Spec => [](H!TypeOK /\ H!FlightIsSingle /\ H!StoresAreNewer)
<1>1. H!Init => HomeInv
  BY HomeInit
<1>2. HomeInv /\ [H!Next]_homeVars => HomeInv'
  BY HomeNext
<1>3. HomeInv => H!TypeOK /\ H!FlightIsSingle /\ H!StoresAreNewer
  BY HomeImplies
<1>4. QED
  BY <1>1, <1>2, <1>3, PTL DEF H!Spec, H!vars, homeVars
-----------------------------------------------------------------------------
(* Source data *)

FetchSteps == {"idle", "reads", "notes", "submits", "calls", "stores", "ended"}
Fetches == [step : FetchSteps, items : SUBSET Titles, later : BOOLEAN, stale : SUBSET Titles,
            new : SUBSET Titles, asked : SUBSET Titles, came : SUBSET Titles]
\* Ids are new to the table from the lock to the submission only.
FetchIsSound(f) ==
    /\ f \in Fetches
    /\ f.stale \cup f.new \cup f.asked \cup f.came \subseteq f.items
    /\ f.new # {} => f.step = "submits"

SourceTyped ==
    /\ sRows \in [Titles -> {"lacking", "stale", "fresh"}]
    /\ sRefreshing \subseteq Titles
    /\ sQueue \in Seq((SUBSET Titles) \ {{}})
    /\ DOMAIN sFetch = D!Threads /\ sFetch = [a \in D!Threads |-> sFetch[a]]
    /\ \A a \in D!Threads : FetchIsSound(sFetch[a])

Noters(i) == {a \in D!Threads : i \in sFetch[a].new}
Tasks(i) == {n \in DOMAIN sQueue : i \in sQueue[n]}
Takers(i) == {w \in Workers : i \in sFetch[w].items}

OneOf(S, T, U) == /\ \E x : S = {x}
                  /\ T = {} /\ U = {}
Held(i) ==
    IF i \in sRefreshing
    THEN \/ OneOf(Noters(i), Tasks(i), Takers(i))
         \/ OneOf(Tasks(i), Noters(i), Takers(i))
         \/ OneOf(Takers(i), Noters(i), Tasks(i))
    ELSE Noters(i) = {} /\ Tasks(i) = {} /\ Takers(i) = {}

SourceInv == SourceTyped /\ \A i \in Titles : Held(i)

LEMMA IdleIsSound == FetchIsSound(D!Idle) /\ D!Idle.new = {} /\ D!Idle.items = {} /\ D!Idle.step = "idle"
  BY DEF FetchIsSound, D!Idle, Fetches, FetchSteps

LEMMA SourceInit == D!Init => SourceInv
<1> SUFFICES ASSUME D!Init PROVE SourceInv
  OBVIOUS
<1>1. sFetch = [a \in D!Threads |-> D!Idle] /\ sRefreshing = {} /\ sQueue = <<>>
      /\ sRows \in [Titles -> {"lacking", "stale", "fresh"}]
  BY DEF D!Init
<1>2. \A a \in D!Threads : sFetch[a] = D!Idle
  BY <1>1
<1>3. SourceTyped
  BY <1>1, <1>2, IdleIsSound DEF SourceTyped
<1>4. ASSUME NEW i \in Titles PROVE Held(i)
  BY <1>1, <1>2, IdleIsSound DEF Held, Noters, Tasks, Takers, D!Threads
<1>5. QED
  BY <1>3, <1>4 DEF SourceInv
-----------------------------------------------------------------------------
\* One thread goes on.
LEMMA ThreadGoes ==
    ASSUME SourceTyped, NEW a \in D!Threads, NEW f, FetchIsSound(f), sFetch' = [sFetch EXCEPT ![a] = f]
    PROVE  /\ \A b \in D!Threads : sFetch'[b] = IF b = a THEN f ELSE sFetch[b]
           /\ \A b \in D!Threads : FetchIsSound(sFetch'[b])
           /\ DOMAIN sFetch' = D!Threads /\ sFetch' = [b \in D!Threads |-> sFetch'[b]]
<1>1. DOMAIN sFetch = D!Threads /\ \A b \in D!Threads : FetchIsSound(sFetch[b])
  BY DEF SourceTyped
<1> HIDE DEF SourceTyped
<1>2. \A b \in D!Threads : sFetch'[b] = IF b = a THEN f ELSE sFetch[b]
  BY <1>1
<1>3. DOMAIN sFetch' = D!Threads /\ sFetch' = [b \in D!Threads |-> sFetch'[b]]
  BY <1>1
<1>4. QED
  BY <1>1, <1>2, <1>3

\* A step that moves no id keeps every holder.
LEMMA HoldersStay ==
    ASSUME SourceInv, NEW a \in D!Threads, NEW f, FetchIsSound(f), sFetch' = [sFetch EXCEPT ![a] = f],
           f.new = sFetch[a].new, a \in Workers => f.items = sFetch[a].items,
           sRows' \in [Titles -> {"lacking", "stale", "fresh"}],
           UNCHANGED <<sRefreshing, sQueue>>
    PROVE  SourceInv'
<1>1. SourceTyped
  BY DEF SourceInv
<1>2. \A b \in D!Threads : sFetch'[b] = IF b = a THEN f ELSE sFetch[b]
  BY <1>1, ThreadGoes
<1>3. SourceTyped'
  BY <1>1, ThreadGoes DEF SourceTyped
<1>4. ASSUME NEW i \in Titles PROVE Held(i)'
  <2>1. Noters(i)' = Noters(i)
    BY <1>2 DEF Noters
  <2>2. Tasks(i)' = Tasks(i)
    BY DEF Tasks
  <2>3. Takers(i)' = Takers(i)
    BY <1>2 DEF Takers, D!Threads
  <2>4. Held(i)
    BY DEF SourceInv
  <2>5. QED
    BY <2>1, <2>2, <2>3, <2>4 DEF Held
<1>5. QED
  BY <1>3, <1>4 DEF SourceInv

LEMMA AskStep ==
    ASSUME SourceInv, Requests \cap Workers = {},
           NEW r \in Requests, NEW items \in (SUBSET Titles) \ {{}}, NEW later \in BOOLEAN,
           D!Ask(r, items, later)
    PROVE  SourceInv'
<1> DEFINE f == [D!Idle EXCEPT !.step = "reads", !.items = items, !.later = later]
<1>1. D!Idle \in Fetches /\ D!Idle.stale \cup D!Idle.asked \cup D!Idle.came \subseteq {} /\ D!Idle.new = {}
  BY IdleIsSound DEF FetchIsSound
<1>2. FetchIsSound(f) /\ f.new = {}
  BY <1>1 DEF FetchIsSound, Fetches, FetchSteps
<1>3. /\ sFetch[r].new = {} /\ sFetch' = [sFetch EXCEPT ![r] = f]
      /\ UNCHANGED <<sRows, sRefreshing, sQueue>>
  BY IdleIsSound DEF D!Ask, D!Goes
<1> HIDE DEF f
<1>4. QED
  BY <1>2, <1>3, HoldersStay DEF D!Threads, SourceInv, SourceTyped

\* What a thread does between two exchanges with the table and the sQueue.
LEMMA WorkStep ==
    ASSUME SourceInv, NEW a \in D!Threads,
           D!Classify(a) \/ D!CallProxy(a) \/ D!Persist(a) \/ D!End(a)
    PROVE  SourceInv'
<1> DEFINE g == sFetch[a]
<1>1. /\ g \in Fetches /\ g.stale \cup g.new \cup g.asked \cup g.came \subseteq g.items
      /\ g.new # {} => g.step = "submits"
      /\ sRows \in [Titles -> {"lacking", "stale", "fresh"}]
  BY DEF SourceInv, SourceTyped, FetchIsSound
<1>2. UNCHANGED <<sRefreshing, sQueue>>
  BY DEF D!Classify, D!CallProxy, D!Persist, D!End
<1>3. sRows' \in [Titles -> {"lacking", "stale", "fresh"}]
  BY <1>1 DEF D!Classify, D!CallProxy, D!Persist, D!End
<1>4. g.new = {}
  BY <1>1 DEF D!Classify, D!CallProxy, D!Persist, D!End
<1>5. ASSUME NEW f, FetchIsSound(f), sFetch' = [sFetch EXCEPT ![a] = f], f.new = {}, f.items = g.items
      PROVE  SourceInv'
  BY <1>2, <1>3, <1>4, <1>5, HoldersStay
<1>6. CASE D!Classify(a)
  <2>1. PICK step \in FetchSteps, stale \in SUBSET g.items, asked \in SUBSET g.items :
          sFetch' = [sFetch EXCEPT ![a] = [g EXCEPT !.step = step, !.stale = stale, !.asked = asked]]
    <3> DEFINE waits == IF g.later THEN {} ELSE D!Of(a, {"stale"})
               step == IF g.later THEN "notes" ELSE "calls"
    <3>1. D!Of(a, {"stale"}) \subseteq g.items /\ D!Of(a, {"lacking"}) \subseteq g.items
      BY DEF D!Of
    <3>2. step \in FetchSteps /\ waits \subseteq g.items
      BY <3>1 DEF FetchSteps
    <3>3. sFetch' = [sFetch EXCEPT ![a] = [g EXCEPT !.step = step,
                       !.stale = D!Of(a, {"stale"}) \ waits, !.asked = D!Of(a, {"lacking"}) \cup waits]]
      BY <1>6 DEF D!Classify, D!Goes
    <3> HIDE DEF step, waits
    <3>4. QED
      BY <3>1, <3>2, <3>3
  <2> DEFINE f == [g EXCEPT !.step = step, !.stale = stale, !.asked = asked]
  <2>2. FetchIsSound(f) /\ f.new = {} /\ f.items = g.items
    BY <1>1, <1>4 DEF FetchIsSound, Fetches
  <2> HIDE DEF f
  <2>3. QED
    BY <1>5, <2>1, <2>2 DEF f
<1>7. CASE D!CallProxy(a)
  <2>1. PICK came \in SUBSET g.asked :
          sFetch' = [sFetch EXCEPT ![a] = [g EXCEPT !.step = "stores", !.asked = {}, !.came = came]]
    BY <1>7 DEF D!CallProxy, D!Goes
  <2> DEFINE f == [g EXCEPT !.step = "stores", !.asked = {}, !.came = came]
  <2>2. FetchIsSound(f) /\ f.new = {} /\ f.items = g.items
    BY <1>1, <1>4 DEF FetchIsSound, Fetches, FetchSteps
  <2> HIDE DEF f
  <2>3. QED
    BY <1>5, <2>1, <2>2 DEF f
<1>8. CASE D!Persist(a)
  <2>1. PICK i \in g.came : sFetch' = [sFetch EXCEPT ![a] = [g EXCEPT !.came = @ \ {i}]]
    BY <1>8 DEF D!Persist, D!Goes
  <2> DEFINE f == [g EXCEPT !.came = @ \ {i}]
  <2>2. FetchIsSound(f) /\ f.new = {} /\ f.items = g.items
    BY <1>1, <1>4 DEF FetchIsSound, Fetches
  <2> HIDE DEF f
  <2>3. QED
    BY <1>5, <2>1, <2>2 DEF f
<1>9. CASE D!End(a)
  <2> DEFINE f == [D!Idle EXCEPT !.step = "ended", !.items = g.items]
  <2>1. sFetch' = [sFetch EXCEPT ![a] = f]
    BY <1>9 DEF D!End, D!Goes
  <2>2. /\ D!Idle \in Fetches /\ D!Idle.new = {}
        /\ D!Idle.stale \cup D!Idle.asked \cup D!Idle.came \subseteq {}
    BY IdleIsSound DEF FetchIsSound
  <2>3. FetchIsSound(f) /\ f.new = {} /\ f.items = g.items
    BY <1>1, <2>2 DEF FetchIsSound, Fetches, FetchSteps
  <2> HIDE DEF f
  <2>4. QED
    BY <1>5, <2>1, <2>3
<1>10. QED
  BY <1>6, <1>7, <1>8, <1>9

LEMMA LeaveStep ==
    ASSUME SourceInv, Requests \cap Workers = {}, NEW r \in Requests, D!Leave(r)
    PROVE  SourceInv'
<1>1. /\ sFetch[r].new = {} /\ sFetch' = [sFetch EXCEPT ![r] = D!Idle]
      /\ UNCHANGED <<sRows, sRefreshing, sQueue>>
  BY DEF D!Leave, D!Goes, SourceInv, SourceTyped, FetchIsSound, D!Threads
<1>2. QED
  BY <1>1, IdleIsSound, HoldersStay DEF D!Threads, SourceInv, SourceTyped
-----------------------------------------------------------------------------
\* _schedule_stale_refresh under the lock: the ids that were not noted get a holder.
LEMMA NoteStep ==
    ASSUME SourceInv, NEW a \in D!Threads, D!Note(a)
    PROVE  SourceInv'
<1> DEFINE g == sFetch[a]
           new == g.stale \ sRefreshing
           f == [g EXCEPT !.step = "submits", !.stale = {}, !.new = new]
<1>1. /\ g \in Fetches /\ g.stale \cup g.new \cup g.asked \cup g.came \subseteq g.items
      /\ g.new = {}
  BY DEF SourceInv, SourceTyped, FetchIsSound, D!Note
<1>2. /\ sFetch' = [sFetch EXCEPT ![a] = f] /\ sRefreshing' = sRefreshing \cup g.stale
      /\ UNCHANGED <<sRows, sQueue>>
  BY DEF D!Note, D!Goes, D!NotInFlight
<1>3. FetchIsSound(f) /\ f.new = new /\ f.items = g.items
  BY <1>1 DEF FetchIsSound, Fetches, FetchSteps
<1> HIDE DEF f
<1>4. \A b \in D!Threads : sFetch'[b] = IF b = a THEN f ELSE sFetch[b]
  BY <1>2, <1>3, ThreadGoes DEF SourceInv
<1>5. SourceTyped'
  <2>1. g.stale \subseteq Titles
    BY <1>1 DEF Fetches
  <2>2. QED
    BY <1>2, <1>3, <2>1, ThreadGoes DEF SourceInv, SourceTyped
<1>6. ASSUME NEW i \in Titles PROVE Held(i)'
  <2>1. Tasks(i)' = Tasks(i) /\ Takers(i)' = Takers(i)
    BY <1>2, <1>3, <1>4 DEF Tasks, Takers, D!Threads
  <2>2. Held(i)
    BY DEF SourceInv
  <2>3. CASE i \in new
    <3>1. Noters(i) = {} /\ Tasks(i) = {} /\ Takers(i) = {}
      BY <2>2, <2>3 DEF Held
    <3>2. Noters(i)' = {a}
      BY <1>3, <1>4, <2>3, <3>1 DEF Noters
    <3>3. i \in sRefreshing'
      BY <1>2, <2>3
    <3>4. QED
      BY <2>1, <3>1, <3>2, <3>3 DEF Held, OneOf
  <2>4. CASE i \notin new
    <3>1. Noters(i)' = Noters(i)
      BY <1>1, <1>3, <1>4, <2>4 DEF Noters
    <3>2. i \in sRefreshing' <=> i \in sRefreshing
      BY <1>2, <2>4
    <3>3. QED
      BY <2>1, <2>2, <3>1, <3>2 DEF Held
  <2>5. QED
    BY <2>3, <2>4
<1>7. QED
  BY <1>5, <1>6 DEF SourceInv

LEMMA SubmitStep ==
    ASSUME SourceInv, NEW a \in D!Threads, D!Submit(a)
    PROVE  SourceInv'
<1> DEFINE g == sFetch[a]
           f == [g EXCEPT !.step = "calls", !.new = {}]
<1>1. g \in Fetches /\ g.stale \cup g.new \cup g.asked \cup g.came \subseteq g.items
  BY DEF SourceInv, SourceTyped, FetchIsSound
<1>2. /\ sFetch' = [sFetch EXCEPT ![a] = f]
      /\ sQueue' = IF g.new = {} THEN sQueue ELSE Append(sQueue, g.new)
      /\ UNCHANGED <<sRows, sRefreshing>>
  BY DEF D!Submit, D!Goes
<1>3. FetchIsSound(f) /\ f.new = {} /\ f.items = g.items
  BY <1>1 DEF FetchIsSound, Fetches, FetchSteps
<1> HIDE DEF f
<1>4. \A b \in D!Threads : sFetch'[b] = IF b = a THEN f ELSE sFetch[b]
  BY <1>2, <1>3, ThreadGoes DEF SourceInv
<1>5. sQueue \in Seq((SUBSET Titles) \ {{}}) /\ g.new \subseteq Titles
  BY <1>1 DEF SourceInv, SourceTyped, Fetches
<1>6. SourceTyped'
  <2>1. sQueue' \in Seq((SUBSET Titles) \ {{}})
    <3>1. CASE g.new = {}
      BY <1>2, <1>5, <3>1
    <3>2. CASE g.new # {}
      <4>1. sQueue' = Append(sQueue, g.new)
        BY <1>2, <3>2
      <4>2. g.new \in (SUBSET Titles) \ {{}}
        BY <1>5, <3>2
      <4>3. QED
        BY <1>5, <4>1, <4>2
    <3>3. QED
      BY <3>1, <3>2
  <2>2. QED
    BY <1>2, <1>3, <2>1, ThreadGoes DEF SourceInv, SourceTyped
<1>7. ASSUME NEW i \in Titles PROVE Held(i)'
  <2>1. Takers(i)' = Takers(i) /\ Noters(i)' = Noters(i) \ {a}
    BY <1>3, <1>4 DEF Takers, Noters, D!Threads
  <2>2. Held(i) /\ (a \in Noters(i) <=> i \in g.new)
    BY DEF SourceInv, Noters
  <2>3. CASE i \in g.new
    <3>1. Noters(i) = {a} /\ Tasks(i) = {} /\ Takers(i) = {} /\ i \in sRefreshing
      BY <2>2, <2>3 DEF Held, OneOf
    <3>2. sQueue' = Append(sQueue, g.new)
      BY <1>2, <2>3
    <3>3. Tasks(i)' = {Len(sQueue) + 1}
      BY <1>5, <2>3, <3>1, <3>2 DEF Tasks
    <3>4. QED
      BY <1>2, <2>1, <3>1, <3>3 DEF Held, OneOf
  <2>4. CASE i \notin g.new
    <3>1. Tasks(i)' = Tasks(i)
      BY <1>2, <1>5, <2>4 DEF Tasks
    <3>2. Noters(i)' = Noters(i)
      BY <2>1, <2>2, <2>4
    <3>3. QED
      BY <1>2, <2>1, <2>2, <3>1, <3>2 DEF Held
  <2>5. QED
    BY <2>3, <2>4
<1>8. QED
  BY <1>6, <1>7 DEF SourceInv

LEMMA TakeStep ==
    ASSUME SourceInv, NEW w \in Workers, D!Take(w)
    PROVE  SourceInv'
<1> DEFINE f == [D!Idle EXCEPT !.step = "reads", !.items = Head(sQueue)]
<1>1. /\ sQueue \in Seq((SUBSET Titles) \ {{}}) /\ sQueue # <<>>
      /\ sQueue' = Tail(sQueue) /\ sFetch' = [sFetch EXCEPT ![w] = f]
      /\ UNCHANGED <<sRows, sRefreshing>>
      /\ sFetch[w].new = {} /\ sFetch[w].items = {} /\ w \in D!Threads
  BY IdleIsSound DEF SourceInv, SourceTyped, D!Take, D!Goes, D!Threads
<1>2. Head(sQueue) \in (SUBSET Titles) \ {{}} /\ Tail(sQueue) \in Seq((SUBSET Titles) \ {{}})
  BY <1>1
<1>3. D!Idle \in Fetches /\ D!Idle.stale \cup D!Idle.asked \cup D!Idle.came \subseteq {} /\ D!Idle.new = {}
  BY IdleIsSound DEF FetchIsSound
<1>4. FetchIsSound(f) /\ f.new = {} /\ f.items = Head(sQueue)
  BY <1>2, <1>3 DEF FetchIsSound, Fetches, FetchSteps
<1> HIDE DEF f
<1>5. \A b \in D!Threads : sFetch'[b] = IF b = w THEN f ELSE sFetch[b]
  BY <1>1, <1>4, ThreadGoes DEF SourceInv
<1>6. SourceTyped'
  BY <1>1, <1>2, <1>4, ThreadGoes DEF SourceInv, SourceTyped
<1>7. ASSUME NEW i \in Titles PROVE Held(i)'
  <2>1. /\ Noters(i)' = Noters(i)
        /\ Takers(i)' = IF i \in Head(sQueue) THEN Takers(i) \cup {w} ELSE Takers(i)
        /\ w \notin Takers(i)
    BY <1>1, <1>4, <1>5 DEF Noters, Takers, D!Threads
  <2>2. Held(i)
    BY DEF SourceInv
  <2>3. \A n : n \in Tasks(i)' <=> n \in Nat \ {0} /\ n + 1 \in Tasks(i)
    BY <1>1 DEF Tasks
  <2>4. 1 \in Tasks(i) <=> i \in Head(sQueue)
    BY <1>1 DEF Tasks
  <2>5. Tasks(i) \subseteq Nat \ {0}
    BY <1>1 DEF Tasks
  <2>6. CASE i \in Head(sQueue)
    <3>1. Tasks(i) = {1} /\ Noters(i) = {} /\ Takers(i) = {} /\ i \in sRefreshing
      BY <2>2, <2>4, <2>6 DEF Held, OneOf
    <3>2. Tasks(i)' = {}
      BY <2>3, <3>1
    <3>3. QED
      BY <1>1, <2>1, <2>6, <3>1, <3>2 DEF Held, OneOf
  <2>7. CASE i \notin Head(sQueue)
    <3>1. Tasks(i) = {} => Tasks(i)' = {}
      BY <2>3
    <3>2. ASSUME NEW n, Tasks(i) = {n} PROVE Tasks(i)' = {n - 1}
      <4>1. n \in Nat \ {0} /\ n # 1
        BY <2>4, <2>5, <2>7, <3>2
      <4>2. QED
        BY <2>3, <3>2, <4>1
    <3>3. QED
      BY <1>1, <2>1, <2>2, <2>7, <3>1, <3>2 DEF Held, OneOf
  <2>8. QED
    BY <2>6, <2>7
<1>8. QED
  BY <1>6, <1>7 DEF SourceInv

\* The finally of the task lets go of what its worker, and nobody else, holds.
LEMMA ReleaseStep ==
    ASSUME SourceInv, NEW w \in Workers, D!Release(w)
    PROVE  SourceInv'
<1> DEFINE g == sFetch[w]
<1>1. /\ sFetch' = [sFetch EXCEPT ![w] = D!Idle] /\ sRefreshing' = sRefreshing \ g.items
      /\ UNCHANGED <<sRows, sQueue>> /\ g.new = {} /\ w \in D!Threads
  BY DEF SourceInv, SourceTyped, FetchIsSound, D!Release, D!Goes, D!Threads
<1>2. \A b \in D!Threads : sFetch'[b] = IF b = w THEN D!Idle ELSE sFetch[b]
  BY <1>1, IdleIsSound, ThreadGoes DEF SourceInv
<1>3. SourceTyped'
  BY <1>1, IdleIsSound, ThreadGoes DEF SourceInv, SourceTyped
<1>4. ASSUME NEW i \in Titles PROVE Held(i)'
  <2>1. /\ Noters(i)' = Noters(i) /\ Tasks(i)' = Tasks(i)
        /\ Takers(i)' = Takers(i) \ {w}
        /\ w \in Takers(i) <=> i \in g.items
    BY <1>1, <1>2, IdleIsSound DEF Noters, Takers, Tasks, D!Threads
  <2>2. Held(i)
    BY DEF SourceInv
  <2>3. CASE i \in g.items
    <3>1. Takers(i) = {w} /\ Noters(i) = {} /\ Tasks(i) = {}
      BY <2>1, <2>2, <2>3 DEF Held, OneOf
    <3>2. QED
      BY <1>1, <2>1, <2>3, <3>1 DEF Held
  <2>4. CASE i \notin g.items
    <3>1. Takers(i)' = Takers(i)
      BY <2>1, <2>4
    <3>2. QED
      BY <1>1, <2>1, <2>2, <2>4, <3>1 DEF Held
  <2>5. QED
    BY <2>3, <2>4
<1>5. QED
  BY <1>3, <1>4 DEF SourceInv

LEMMA AgeStep ==
    ASSUME SourceInv, NEW i \in Titles, D!Age(i)
    PROVE  SourceInv'
<1>1. UNCHANGED <<sRefreshing, sQueue, sFetch>> /\ sRows' \in [Titles -> {"lacking", "stale", "fresh"}]
  BY DEF SourceInv, SourceTyped, D!Age
<1>2. QED
  BY <1>1 DEF SourceInv, SourceTyped, Held, Noters, Tasks, Takers

LEMMA RestartStep ==
    ASSUME SourceInv, D!Restart
    PROVE  SourceInv'
<1>1. /\ sFetch' = [a \in D!Threads |-> D!Idle] /\ sRefreshing' = {} /\ sQueue' = <<>>
      /\ sRows' \in [Titles -> {"lacking", "stale", "fresh"}]
  BY DEF SourceInv, SourceTyped, D!Restart
<1>2. \A a \in D!Threads : sFetch'[a] = D!Idle
  BY <1>1
<1>3. SourceTyped'
  BY <1>1, <1>2, IdleIsSound DEF SourceTyped
<1>4. ASSUME NEW i \in Titles PROVE Held(i)'
  BY <1>1, <1>2, IdleIsSound DEF Held, Noters, Tasks, Takers, D!Threads
<1>5. QED
  BY <1>3, <1>4 DEF SourceInv

LEMMA SourceNext ==
    ASSUME Requests \cap Workers = {}, SourceInv, [D!Next]_sourceVars
    PROVE  SourceInv'
<1>1. ASSUME NEW r \in Requests, NEW items \in (SUBSET Titles) \ {{}}, NEW later \in BOOLEAN,
             D!Ask(r, items, later)
      PROVE  SourceInv'
  BY <1>1, AskStep
<1>2. ASSUME NEW a \in D!Threads, D!Classify(a) \/ D!CallProxy(a) \/ D!Persist(a) \/ D!End(a)
      PROVE  SourceInv'
  BY <1>2, WorkStep
<1>3. ASSUME NEW a \in D!Threads, D!Note(a)
      PROVE  SourceInv'
  BY <1>3, NoteStep
<1>4. ASSUME NEW a \in D!Threads, D!Submit(a)
      PROVE  SourceInv'
  BY <1>4, SubmitStep
<1>5. ASSUME NEW r \in Requests, D!Leave(r)
      PROVE  SourceInv'
  BY <1>5, LeaveStep
<1>6. ASSUME NEW w \in Workers, D!Take(w)
      PROVE  SourceInv'
  BY <1>6, TakeStep
<1>7. ASSUME NEW w \in Workers, D!Release(w)
      PROVE  SourceInv'
  BY <1>7, ReleaseStep
<1>8. ASSUME NEW i \in Titles, D!Age(i)
      PROVE  SourceInv'
  BY <1>8, AgeStep
<1>9. CASE D!Restart
  BY <1>9, RestartStep
<1>10. CASE UNCHANGED sourceVars
  BY <1>10 DEF sourceVars, SourceInv, SourceTyped, Held, Noters, Tasks, Takers
<1>11. QED
  BY <1>1, <1>2, <1>3, <1>4, <1>5, <1>6, <1>7, <1>8, <1>9, <1>10 DEF D!Next

LEMMA SourceImplies == SourceInv => D!TypeOK /\ D!RefreshIsSingle
<1> SUFFICES ASSUME SourceInv PROVE D!TypeOK /\ D!RefreshIsSingle
  OBVIOUS
<1>1. D!TypeOK
  BY DEF SourceInv, SourceTyped, FetchIsSound, D!TypeOK, Fetches, FetchSteps
<1>2. ASSUME NEW i \in Titles
      PROVE  D!Holders(i) = IF i \in sRefreshing THEN 1 ELSE 0
  <2>1. D!Holders(i) = Cardinality(Noters(i)) + Cardinality(Tasks(i)) + Cardinality(Takers(i))
    BY DEF D!Holders, Noters, Tasks, Takers, D!Cardinality, Cardinality
  <2>2. Cardinality({}) = 0 /\ \A x : Cardinality({x}) = 1
    BY FS_EmptySet, FS_Singleton
  <2>3. Held(i)
    BY DEF SourceInv
  <2> DEFINE n == Cardinality(Noters(i))
             t == Cardinality(Tasks(i))
             u == Cardinality(Takers(i))
  <2>4. IF i \in sRefreshing THEN <<n, t, u>> \in {<<1, 0, 0>>, <<0, 1, 0>>, <<0, 0, 1>>}
                            ELSE <<n, t, u>> = <<0, 0, 0>>
    BY <2>2, <2>3 DEF Held, OneOf
  <2> HIDE DEF n, t, u
  <2>5. QED
    BY <2>1, <2>4 DEF n, t, u
<1>3. QED
  BY <1>1, <1>2 DEF D!RefreshIsSingle

\* _schedule_stale_refresh and the finally of its task: an id is refreshed in the
\* background once at a time and noted just as long, whatever fails, ends early or
\* restarts meanwhile.
THEOREM RefreshesAreSingle ==
    ASSUME Requests \cap Workers = {}
    PROVE  D!Spec => [](D!TypeOK /\ D!RefreshIsSingle)
<1>1. SourceInv /\ [D!Next]_sourceVars => SourceInv'
  BY SourceNext
<1>2. QED
  BY <1>1, SourceInit, SourceImplies, PTL DEF D!Spec, D!vars, sourceVars
-----------------------------------------------------------------------------
(* The scenes *)

ServicesInv ==
    /\ scene = "session" => SessionInv
    /\ scene = "list" => LP!Inv
    /\ scene = "home" => HomeInv
    /\ scene = "source" => SourceInv

ScenesAreOne == scene \in {"session", "list", "home", "source"}

LEMMA ServicesStart == ServicesInit => ScenesAreOne /\ ServicesInv
  BY SessionInit, ListInit, HomeInit, SourceInit, VisitorsAssumption
     DEF ServicesInit, ServicesInv, ScenesAreOne

LEMMA ServicesSteps ==
    ASSUME ScenesAreOne, ServicesInv, [ServicesNext]_allVars
    PROVE  /\ ScenesAreOne' /\ ServicesInv'
           /\ scene = "session" => IdentityStep
           /\ scene = "list" => L!StepIsMeant
<1>1. scene' = scene
  BY DEF ServicesNext, allVars
<1>2. CASE scene = "session"
  <2>1. [Next]_vars /\ SessionInv
    BY <1>2 DEF ServicesNext, allVars, ServicesInv
  <2>2. SessionInv' /\ IdentityStep
    BY <2>1, SessionNext
  <2>3. QED
    BY <1>1, <1>2, <2>2 DEF ServicesInv, ScenesAreOne
<1>3. CASE scene = "list"
  <2>1. [L!Next]_listVars /\ LP!Inv
    BY <1>3 DEF ServicesNext, allVars, ServicesInv
  <2>2. LP!Inv' /\ L!StepIsMeant
    BY <2>1, ListNext
  <2>3. QED
    BY <1>1, <1>3, <2>2 DEF ServicesInv, ScenesAreOne
<1>4. CASE scene = "home"
  <2>1. [H!Next]_homeVars /\ HomeInv
    BY <1>4 DEF ServicesNext, allVars, ServicesInv
  <2>2. HomeInv'
    BY <2>1, HomeNext, VisitorsAssumption
  <2>3. QED
    BY <1>1, <1>4, <2>2 DEF ServicesInv, ScenesAreOne
<1>5. CASE scene = "source"
  <2>1. [D!Next]_sourceVars /\ SourceInv
    BY <1>5 DEF ServicesNext, allVars, ServicesInv
  <2>2. SourceInv'
    BY <2>1, SourceNext, PoolAssumption
  <2>3. QED
    BY <1>1, <1>5, <2>2 DEF ServicesInv, ScenesAreOne
<1>6. QED
  BY <1>2, <1>3, <1>4, <1>5 DEF ScenesAreOne

LEMMA ServicesImply == ServicesInv => ServicesTypeOK /\ CookiesAreKept /\ SharedWorkIsSingle
  BY SessionImplies, ListImplies, HomeImplies, SourceImplies, VisitorsAssumption
     DEF ServicesInv, ServicesTypeOK, CookiesAreKept, SharedWorkIsSingle
-----------------------------------------------------------------------------
(* Theorems *)

\* The inductive invariant holds of every behaviour of the services.
THEOREM ServicesInvariance == ServicesSpec => [](ScenesAreOne /\ ServicesInv)
<1>1. (ScenesAreOne /\ ServicesInv) /\ [ServicesNext]_allVars => (ScenesAreOne /\ ServicesInv)'
  BY ServicesSteps
<1>2. QED
  BY ServicesStart, <1>1, PTL DEF ServicesSpec

\* What the variables of the four services hold, for any tabs, processes, requests,
\* tokens, visitors, titles and workers.
THEOREM ServicesTypes == ServicesSpec => []ServicesTypeOK
<1>1. ScenesAreOne /\ ServicesInv => ServicesTypeOK
  BY ServicesImply
<1>2. QED
  BY ServicesInvariance, <1>1, PTL

\* refreshAuthCookies, forwardCoreRequest and forwardPublicCoreRead: a timeout, a lost
\* answer or a 5xx never costs the cookies, and a public read never answers 401,
\* whatever rotations, logouts and late answers cross it.
THEOREM CookiesKept == ServicesSpec => []CookiesAreKept
<1>1. ScenesAreOne /\ ServicesInv => CookiesAreKept
  BY ServicesImply
<1>2. QED
  BY ServicesInvariance, <1>1, PTL

\* apiRequest and AuthSessionBootstrap: a tab forgets its user only for a logout, an
\* account that is not active, or a refresh token that is missing or blacklisted.
THEOREM IdentityKept == ServicesSpec => IdentityIsKept
<1>1. (ScenesAreOne /\ ServicesInv) /\ [ServicesNext]_allVars
        => [scene = "session" => IdentityStep]_allVars
  BY ServicesSteps
<1>2. QED
  BY ServicesInvariance, <1>1, PTL DEF ServicesSpec, IdentityIsKept

\* singleflight and _refreshing_ids: one computation of the homepage and one refresh of
\* a row at a time, and each is let go.
THEOREM SharedWorkSingle == ServicesSpec => []SharedWorkIsSingle
<1>1. ScenesAreOne /\ ServicesInv => SharedWorkIsSingle
  BY ServicesImply
<1>2. QED
  BY ServicesInvariance, <1>1, PTL

\* ListItemViewSet: in the scene of the list too, the order changes only as the one
\* request that ends was asked to change it, or by an update that undoes what was done to
\* its own row since it read it.
THEOREM OrderMeant == ServicesSpec => OrderIsMeant
<1>1. (ScenesAreOne /\ ServicesInv) /\ [ServicesNext]_allVars
        => [scene = "list" => L!StepIsMeant]_allVars
  BY ServicesSteps
<1>2. QED
  BY ServicesInvariance, <1>1, PTL DEF ServicesSpec, OrderIsMeant
=============================================================================
