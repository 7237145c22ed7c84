------------------------- MODULE ModerationLifecycle -------------------------
(***************************************************************************)
(* What the moderation outbox promises of each job identity, without its    *)
(* workers, leases or races: the graph of ContentModerationJob.Status, that *)
(* a done job has its judgment, and that a paid remote request is made by   *)
(* one holder at a time, begun only while the job is held (or has been held *)
(* and declared unknown).                                                   *)
(***************************************************************************)
EXTENDS Naturals

CONSTANT Identity

VARIABLES phase,     \* where each job is in its life
          results,   \* identities with a complete judgment
          requests   \* number of remote requests under way for each identity

vars == <<phase, results, requests>>

Phases == {"absent", "waiting", "held", "superseded", "done", "failed", "unknown"}

\* The edges of the life cycle.  done, failed and unknown have none out.
Moves ==
    { <<"absent", "waiting">>,
      <<"waiting", "held">>, <<"waiting", "superseded">>, <<"waiting", "done">>,
      <<"held", "waiting">>, <<"held", "superseded">>, <<"held", "done">>,
      <<"held", "failed">>, <<"held", "unknown">>,
      <<"superseded", "waiting">> }

Init ==
    /\ phase = [j \in Identity |-> "absent"]
    /\ results = {}
    /\ requests = [j \in Identity |-> 0]

\* One job's part of a step; a transaction may move several jobs at once.
JobStep(j) ==
    /\ phase'[j] # phase[j] =>
         /\ <<phase[j], phase'[j]>> \in Moves
         /\ phase'[j] = "done" => j \in results
    /\ \/ requests'[j] = 0
       \/ requests'[j] = requests[j]
       \/ /\ requests[j] = 0 /\ requests'[j] = 1
          /\ phase[j] \in {"held", "unknown"}

Next ==
    /\ phase' \in [Identity -> Phases]
    /\ results \subseteq results'
    /\ requests' \in [Identity -> {0, 1}]
    /\ \A j \in Identity : JobStep(j)

Spec == Init /\ [][Next]_vars
=============================================================================
