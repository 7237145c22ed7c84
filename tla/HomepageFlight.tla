-------------------------- MODULE HomepageFlight --------------------------
(***************************************************************************)
(* The proxy's homepage aggregate for one cache key: a fresh copy for five  *)
(* minutes, a stale one for thirty, and one computation at a time, shared   *)
(* by those who miss both and by the background refreshes of those who got  *)
(* the stale copy.                                                          *)
(*                                                                          *)
(* An aggregate is its number, that of its computation, and whether all its *)
(* buckets came; one that lacks buckets is stored and answered like a whole *)
(* one.  A computation lives in a goroutine of its own but on the context   *)
(* of the request that started it.                                          *)
(***************************************************************************)
EXTENDS Naturals, FiniteSets

CONSTANTS Requests, NoOne

VARIABLES fresh, stale,  \* the two copies in the cache, or Nothing
          flights,       \* the request that leads the flight of the key, or NoOne
          call,          \* the computation each request started
          req            \* where each request, or the refresh it left behind, is
vars == <<fresh, stale, flights, call, req>>

Nothing == [number |-> 0, whole |-> FALSE]
Waits(on) == [step |-> "waits", on |-> on, answer |-> Nothing]
At(step) == [step |-> step, on |-> NoOne, answer |-> Nothing]
Gets(payload) == [step |-> "done", on |-> NoOne, answer |-> payload]

Started == {r \in Requests : call[r].step # "none"}
\* Those whose context is over: the answer is out, or the time, or the client.
Over(r) == req[r].step = "done"

Init ==
    /\ fresh = Nothing /\ stale = Nothing /\ flights = NoOne
    /\ call = [r \in Requests |-> [step |-> "none", payload |-> Nothing]]
    /\ req = [r \in Requests |-> At("asks")]

-----------------------------------------------------------------------------
(* Homepage *)

\* A cache that does not answer is a miss.
ReadFresh(r) ==
    /\ req[r].step = "asks"
    /\ \/ fresh # Nothing /\ req' = [req EXCEPT ![r] = Gets(fresh)]
       \/ req' = [req EXCEPT ![r] = At("missed")]
    /\ UNCHANGED <<fresh, stale, flights, call>>
\* The stale copy is answered at once; a refresh goes on under its own context.
ReadStale(r) ==
    /\ req[r].step = "missed"
    /\ \/ stale # Nothing /\ req' = [req EXCEPT ![r] = At("refreshes")]
       \/ req' = [req EXCEPT ![r] = At("computes")]
    /\ UNCHANGED <<fresh, stale, flights, call>>

\* singleflight: wait for the flight there is, or lead one.
NoFlight_unanswered == flights \in {r \in Requests : req[r].step = "done"} \cup {NoOne}
NoFlight == flights = NoOne
Join(r) ==
    /\ req[r].step \in {"refreshes", "computes"}
    /\ ~NoFlight
    /\ req' = [req EXCEPT ![r] = Waits(flights)]
    /\ UNCHANGED <<fresh, stale, flights, call>>
Lead(r) ==
    /\ req[r].step \in {"refreshes", "computes"}
    /\ NoFlight
    /\ flights' = r
    /\ call' = [call EXCEPT ![r] =
          [step |-> "fetches", payload |-> [number |-> Cardinality(Started) + 1, whole |-> TRUE]]]
    /\ req' = [req EXCEPT ![r] = Waits(r)]
    /\ UNCHANGED <<fresh, stale>>

Wake(r) ==
    /\ req[r].step = "waits" /\ call[req[r].on].step \in {"closed", "ended"}
    /\ req' = [req EXCEPT ![r] = Gets(call[req[r].on].payload)]
    /\ UNCHANGED <<fresh, stale, flights, call>>
\* The budget is exhausted or the client is gone.
GiveUp(r) ==
    /\ req[r].step = "waits"
    /\ req' = [req EXCEPT ![r] = Gets(Nothing)]
    /\ UNCHANGED <<fresh, stale, flights, call>>

-----------------------------------------------------------------------------
(* The goroutine of a flight: computeAndCache, close, delete *)

Goes(r, from, to) == call[r].step = from /\ call' = [call EXCEPT ![r].step = to]

\* A bucket that fails is an error in the aggregate, and with the leader's context all of
\* them do.
Compute(r) ==
    /\ call[r].step = "fetches"
    /\ \E whole \in BOOLEAN :
          /\ whole => ~Over(r)
          /\ call' = [call EXCEPT ![r] = [step |-> "fresh", payload |-> [@.payload EXCEPT !.whole = whole]]]
    /\ UNCHANGED <<fresh, stale, flights, req>>
\* A cache that fails is logged.
StoreFresh(r) ==
    /\ Goes(r, "fresh", "stale")
    /\ fresh' \in {fresh, call[r].payload}
    /\ UNCHANGED <<stale, flights, req>>
StoreStale(r) ==
    /\ Goes(r, "stale", "computed")
    /\ stale' \in {stale, call[r].payload}
    /\ UNCHANGED <<fresh, flights, req>>
Close(r) == Goes(r, "computed", "closed") /\ UNCHANGED <<fresh, stale, flights, req>>
Forget(r) ==
    /\ Goes(r, "closed", "ended")
    /\ flights' = NoOne
    /\ UNCHANGED <<fresh, stale, req>>

\* The copies run out (HomepageCacheTTL, HomepageStaleTTL).
Expire ==
    /\ \/ fresh # Nothing /\ fresh' = Nothing /\ UNCHANGED stale
       \/ stale # Nothing /\ stale' = Nothing /\ UNCHANGED fresh
    /\ UNCHANGED <<flights, call, req>>

Next ==
    \/ \E r \in Requests :
          \/ ReadFresh(r) \/ ReadStale(r) \/ Join(r) \/ Lead(r) \/ Wake(r) \/ GiveUp(r)
          \/ Compute(r) \/ StoreFresh(r) \/ StoreStale(r) \/ Close(r) \/ Forget(r)
    \/ Expire

Spec == Init /\ [][Next]_vars

-----------------------------------------------------------------------------
(* Properties *)

Payloads == [number : 0..Cardinality(Requests), whole : BOOLEAN]
CallSteps == {"none", "fetches", "fresh", "stale", "computed", "closed", "ended"}
\* What the caches, the flights and the requests may hold.
TypeOK ==
    /\ fresh \in Payloads /\ stale \in Payloads
    /\ flights \in Requests \cup {NoOne}
    /\ call \in [Requests -> [step : CallSteps, payload : Payloads]]
    /\ req \in [Requests -> [step : {"asks", "missed", "refreshes", "computes", "waits", "done"},
                             on : Requests \cup {NoOne}, answer : Payloads]]

Working(r) == call[r].step \notin {"none", "ended"}
\* Providers are asked by one computation at a time, the one in the map, and nobody waits
\* for one that will not end.
FlightIsSingle ==
    /\ \A r \in Requests : Working(r) <=> flights = r
    /\ \A r \in Requests : req[r].step = "waits" => call[req[r].on].step # "none"

\* Whoever crossed whom between the two reads and the lock, an aggregate never replaces a
\* newer one.
StoresAreNewer ==
    \A r \in Requests : Working(r) =>
       fresh.number <= call[r].payload.number /\ stale.number <= call[r].payload.number
=============================================================================
