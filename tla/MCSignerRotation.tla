-------------------------- MODULE MCSignerRotation --------------------------
(***************************************************************************)
(* One rotation looked at from three sides.  Each side bounds what callers *)
(* and the environment do; every state the run keeps is within one of them. *)
(* Of the steps fairness asks for, only a second identity is ever cut.     *)
(***************************************************************************)
EXTENDS SignerRotation

CONSTANT n1

NoLease == \A r \in Requests : request[r] = None
NoCoverage == \A v \in Members : meta.dispatch[v] = None
NoOthers == meta.referenced = {} /\ meta.enrolled \subseteq Members

\* Nobody has needed a second identity for a command.
FirstTry ==
    /\ \A op \in DOMAIN meta.ops : op.k = 1
    /\ \A n \in Members : inv[n] # None => inv[n].op.k = 1
    /\ \A p \in proposals : p.cmd.type \in {"AuthorizeSignerTrust", "Begin"} => p.cmd.op.k = 1

\* n1 leads, and its term changes only with a fault.
OneLeader == meta.leader = n1 /\ meta.term <= 1 + faults

\* Leases of two leaders race the rotation.
Leases == NoCoverage /\ NoOthers /\ FirstTry /\ faults = 0 /\ meta.epoch = 1

\* One leader, its coverage and the verifiers of other nodes.
Covering == NoLease /\ OneLeader /\ FirstTry /\ meta.epoch = 1

\* One leader through faults, a change of administrators, or a second identity.
Failing == NoLease /\ NoCoverage /\ NoOthers /\ OneLeader /\ (FirstTry \/ faults = 0)

Sides == Leases \/ Covering \/ Failing
=============================================================================
