---------------------------- MODULE MCAuthority ----------------------------
(* One tenant whose source i1 may be replaced by i2, and i2 by i3 or by i1 again. *)
EXTENDS Authority

CONSTANTS i1, i2, i3, t1, n1, n2, alice, bob

Cmd(id, action) == [id |-> id, tenant |-> t1, policy |-> 1, action |-> action]
Target(i, ns, source) == [incarnation |-> i, nodes |-> ns, checkpoint |-> source]

Enroll   == Cmd("enroll", [kind |-> "Enroll", incarnation |-> i1, nodes |-> {n1}])
Fence1   == Cmd("fence1", [kind |-> "Fence", incarnation |-> i1, epoch |-> 1])
Fence2   == Cmd("fence2", [kind |-> "Fence", incarnation |-> i2, epoch |-> 2])
ToI2     == Target(i2, {n2}, i1)
Activate == Cmd("activate", [kind |-> "Activate", fence |-> "fence1", target |-> ToI2])
Onward   == Cmd("onward", [kind |-> "Activate", fence |-> "fence1",
                           target |-> Target(i3, {n1}, i2)])
Back     == Cmd("back", [kind |-> "Activate", fence |-> "fence2",
                         target |-> Target(i1, {n1}, i2)])
Prepare  == Cmd("prepare", [kind |-> "PrepareTarget", source |-> i1, epoch |-> 1,
                            target |-> Target(i2, {n1, n2}, i1)])
StopT    == Cmd("stop", [kind |-> "StopTarget", source |-> i1, epoch |-> 1,
                         target |-> ToI2])
StopT2   == Cmd("stop2", [kind |-> "StopTarget", source |-> i1, epoch |-> 1,
                          target |-> ToI2])
StopA    == Cmd("resolve", [kind |-> "StopActivation", original |-> Activate])
Admins   == Cmd("admins", [kind |-> "ReplaceAdministrators", administrators |-> {bob}])
Later    == [Fence1 EXCEPT !.policy = 2]

MCCommands == {Enroll, Fence1, Fence2, Activate, Onward, Back, Prepare,
               StopT, StopT2, StopA, Admins, Later}
MCIds == {c.id : c \in MCCommands}
MCRetried == {Activate}

Capacity(max) == [max_tenants |-> 1, max_state_bytes |-> max, maintenance_reserve |-> 4]
MCCapacity    == Capacity(14)
MCCapacities  == {Capacity(12), MCCapacity, Capacity(20)}

----------------------------------------------------------------------------
(* The run keeps the states in which only the commands of one of these stories *)
(* have been proposed.  A retried activation belongs to all of them.           *)

Used == {p.command.id : p \in proposals} \cup {k \in Ids : receipts[k] # None}
By(people) ==
    /\ \A p \in proposals : p.principal \in people
    /\ \A k \in Ids : receipts[k] # None => receipts[k].principal \in people
Steady == signing.generation = 1 /\ signing.phase = "Steady"
OneTerm == term = 1 /\ regressed = 0

\* Only a signer rotation writes operational records.
Undisturbed ==
    /\ operational.capacity = MCCapacity /\ operational.pending = None
    /\ operational.records = CASE signing.phase = "Steady"   -> 0
                               [] signing.phase = "Staged"   -> 2
                               [] signing.phase = "Retiring" -> 3
Plain == Steady /\ Undisturbed

Chain ==
    /\ OneTerm /\ Plain /\ By({alice})
    /\ Used \subseteq {"enroll", "fence1", "activate", "onward", "fence2", "back", "prepare", "stop"}
Stopping ==
    /\ OneTerm /\ Undisturbed /\ By({alice})
    /\ Used \subseteq IF Steady
          THEN {"enroll", "fence1", "activate", "prepare", "stop", "stop2", "resolve"}
          ELSE {"enroll", "fence1", "activate", "prepare", "stop"}
Policies ==
    /\ Plain /\ regressed = 0
    /\ Used \subseteq {"enroll", "fence1", "activate", "admins"}
Failing ==
    /\ Plain /\ By({alice})
    /\ Used \subseteq {"enroll", "fence1", "activate", "resolve"}

Alone ==
    /\ OneTerm /\ By({alice}) /\ Cardinality(proposals) <= 1
    /\ Used \subseteq {"enroll", "fence1", "activate"}

\* Maintenance fills a capacity made small around a fenced source, and a larger
\* one may be installed ...
Crowding ==
    /\ Alone /\ Steady /\ operational.records <= 4
    /\ operational.records \in 1 .. 2 => operational.capacity = Capacity(12)

\* ... or signer coverage fills a larger one.
Covering ==
    /\ Alone /\ operational.pending = None
    /\ IF Steady THEN operational.records <= 1
       ELSE operational.capacity = Capacity(20)
            /\ (signing.phase = "Staged" => operational.records <= 3)

Stories == Crowding \/ Covering \/ Chain \/ Stopping \/ Policies \/ Failing
=============================================================================
