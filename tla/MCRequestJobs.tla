---------------------------- MODULE MCRequestJobs ----------------------------
(* Three requests for two slots.  Requests are alike, so they begin in order; *)
(* the third begins when the caller of the first has gone or has its answer.  *)
EXTENDS RequestJobs

CONSTANTS a, b, c

InOrder ==
    /\ caller[b] # "none" => caller[a] # "none"
    /\ caller[c] # "none" => caller[b] # "none" /\ caller[a] \in {"answered", "gone"}
=============================================================================
