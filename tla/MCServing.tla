----------------------------- MODULE MCServing -----------------------------
(* One tenant replaced from i1 to i2, with two processes that may run either. *)
EXTENDS Serving, TLC

CONSTANTS i1, i2, t1, n1, n2, alice

Cmd(id, action) == [id |-> id, tenant |-> t1, policy |-> 1, action |-> action]
ToI2     == [incarnation |-> i2, nodes |-> {n2}, checkpoint |-> i1]
Enroll   == Cmd("enroll", [kind |-> "Enroll", incarnation |-> i1, nodes |-> {n1}])
Fence    == Cmd("fence", [kind |-> "Fence", incarnation |-> i1, epoch |-> 1])
Prepare  == Cmd("prepare", [kind |-> "PrepareTarget", source |-> i1, epoch |-> 1,
                            target |-> ToI2])
Activate == Cmd("activate", [kind |-> "Activate", fence |-> "fence", target |-> ToI2])
StopT    == Cmd("stop", [kind |-> "StopTarget", source |-> i1, epoch |-> 1,
                         target |-> ToI2])

MCCommands == {Enroll, Fence, Prepare, Activate, StopT}
MCCapacity == [max_tenants |-> 1, max_state_bytes |-> 24, maintenance_reserve |-> 4]
MCCapacities == {MCCapacity}
MCIds == {c.id : c \in MCCommands}
Symmetry == Permutations(Processes)

----------------------------------------------------------------------------
(* The run keeps the states in which only the commands of one of these stories *)
(* have been proposed.                                                         *)

Used == {p.command.id : p \in proposals} \cup {k \in Ids : receipts[k] # None}
LongCredentials == \A p \in Processes : attempt[p] # None => attempt[p].lifetime # 2

\* No two processes for one incarnation.
Opposed == \A p, q \in Processes :
    p # q /\ boot[p] # None /\ boot[q] # None => boot[p].incarnation # boot[q].incarnation

\* Two processes through a replacement, with leader changes ...
Replacing ==
    /\ regressed = 0 /\ Opposed /\ LongCredentials
    /\ Used \subseteq {"enroll", "fence", "activate"}

\* ... or to a target that was prepared and is promoted.
Promoting ==
    /\ term = 1 /\ regressed = 0 /\ Opposed /\ LongCredentials
    /\ Used \subseteq {"enroll", "fence", "activate", "prepare"}

\* One process that prepares a target while it is stopped, by an issuer whose
\* clock jumps back.
Stopping ==
    /\ term + regressed <= IF LongCredentials THEN 2 ELSE 1
    /\ Cardinality({p \in Processes : boot[p] # None}) <= 1
    /\ Used \subseteq {"enroll", "prepare", "stop"}

Stories == Replacing \/ Promoting \/ Stopping
=============================================================================
