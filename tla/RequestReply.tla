---------------------------- MODULE RequestReply ----------------------------
(***************************************************************************)
(* What `MpdClient::send_raw` promises its callers, whatever happens to    *)
(* the connection underneath: MPD processes a request at most once, and a  *)
(* caller that is given an answer is given MPD's verdict on its own        *)
(* request.  A caller that is told "unknown" (connection lost, timeout,    *)
(* caller gone) learns nothing: the request may still be processed later.  *)
(* A caller that leaves before its request is queued leaves no trace.      *)
(***************************************************************************)
CONSTANT Requests

VARIABLES effect,   \* effect[r]: MPD's verdict on r, "none" until it processes r
          outcome   \* outcome[r]: what the caller of r was told

vars == <<effect, outcome>>

Verdicts == {"OK", "ACK"}

Init == /\ effect = [r \in Requests |-> "none"]
        /\ outcome = [r \in Requests |-> "none"]

\* MPD processes a request, possibly after its caller has given up on it.
Process(r) == /\ effect[r] = "none"
              /\ outcome[r] \notin {"withdrawn"} \cup Verdicts
              /\ \E v \in Verdicts : effect' = [effect EXCEPT ![r] = v]
              /\ UNCHANGED outcome

Answer(r) == /\ outcome[r] = "none"
             /\ effect[r] # "none"
             /\ outcome' = [outcome EXCEPT ![r] = effect[r]]
             /\ UNCHANGED effect

GiveUp(r) == /\ outcome[r] = "none"
             /\ outcome' = [outcome EXCEPT ![r] = "unknown"]
             /\ UNCHANGED effect

Withdraw(r) == /\ outcome[r] = "none"
               /\ effect[r] = "none"
               /\ outcome' = [outcome EXCEPT ![r] = "withdrawn"]
               /\ UNCHANGED effect

Next == \E r \in Requests : Process(r) \/ Answer(r) \/ GiveUp(r) \/ Withdraw(r)

Spec == Init /\ [][Next]_vars
=============================================================================
