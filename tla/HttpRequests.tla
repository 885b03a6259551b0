---------------------------- MODULE HttpRequests ----------------------------
(***************************************************************************)
(* What webhooks.c, ota.c and config.c expect of httpclient_request(): it  *)
(* calls their callback exactly once, with the status of a response or     *)
(* with one that tells what went wrong, unless it refuses the URL or the   *)
(* device restarts.  HttpClient is shown to implement this, but for a      *)
(* request whose DNS query fails at once, of which the mapping counts the  *)
(* first call only.                                                        *)
(***************************************************************************)
CONSTANTS
    Requests,   \* the requests
    Outcomes    \* the statuses that a callback gets

VARIABLE outcome   \* of each request

Init == outcome = [r \in Requests |-> "none"]

Becomes(r, o) == outcome' = [outcome EXCEPT ![r] = o]

Issue(r)    == outcome[r] = "none" /\ Becomes(r, "pending")
Refuse(r)   == outcome[r] = "none" /\ Becomes(r, "refused")
AtOnce(r)   == outcome[r] = "none" /\ \E o \in Outcomes : Becomes(r, o)
Complete(r) == outcome[r] = "pending" /\ \E o \in Outcomes : Becomes(r, o)
Restart     == outcome' = [r \in Requests |-> "none"]

Next == Restart \/ \E r \in Requests : Issue(r) \/ Refuse(r) \/ AtOnce(r) \/ Complete(r)

\* A request that is pending does not stay so.
Answered == \A r \in Requests : outcome[r] = "pending" ~> outcome[r] # "pending"

\* One outcome at most for each request.
AtMostOnce == Init /\ [][Next]_outcome

Spec == AtMostOnce /\ Answered

=============================================================================
