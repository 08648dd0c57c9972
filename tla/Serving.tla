------------------------------ MODULE Serving ------------------------------
(***************************************************************************)
(* The independent authority together with the replica processes that      *)
(* serve a tenant under its leases: boots, acquisition attempts and gates  *)
(* (kasumi-serving/src/proof.rs, gate.rs; kasumi-server/src/serving_       *)
(* runtime.rs), lease issuance and target-stop observation                 *)
(* (kasumi-authority/src/service.rs, target_stop_service.rs).              *)
(*                                                                         *)
(* Each process and the issuer has its own clock; in one unit of time each *)
(* advances by any amount within the installed rate bound.  A process      *)
(* clock never runs backwards (the code stops the process), the issuer's   *)
(* may.  A lease is kept as the time it has `left`; 0 is expired or        *)
(* closed, which no access can tell apart.                                 *)
(***************************************************************************)
EXTENDS Authority

CONSTANTS
    Processes,            \* process lifetimes that may run at the same time
    CredentialLifetimes   \* what may remain of a caller's credential

ASSUME ServingAssumption == CredentialLifetimes \subseteq 1 .. MaxLease

Purposes == {"Serving", "RestorePreparation"}

VARIABLES
    boot,            \* identity and purpose discovered by a process
    attempt,         \* its one outstanding acquisition
    gate,            \* its ServingGate
    observed_stops   \* target incarnations with a signed drained observation

clients == <<boot, attempt, gate>>
vars == <<authorityVars, clients, observed_stops>>

Live(p) == gate[p] # None /\ gate[p].left > 0
check_serving(p) == Live(p) /\ gate[p].purpose = "Serving"

----------------------------------------------------------------------------
(* The authority's answers to replica processes *)

\* The preparation under which a target may be materialised: its source is
\* still the active incarnation, fenced or not.
PreparationCurrent(t, i) ==
    LET r == preparations[t][i]
    IN  r # None /\ IsCurrent(t, r.source, r.epoch)

\* Mutant: a permanently stopped target is still answered.
discover_Stopped(t, i, n, purpose) ==
    /\ tenant[t] # None
    /\ \/ /\ purpose = "Serving"
          /\ tenant[t].fence = None
          /\ tenant[t].incarnation = i /\ n \in tenant[t].nodes
       \/ /\ purpose = "RestorePreparation"
          /\ PreparationCurrent(t, i) /\ n \in preparations[t][i].target.nodes


\* Mutant: a node the activation does not name is answered.
discover_AnyNode(t, i, n, purpose) ==
    /\ tenant[t] # None
    /\ target_stops[t][i] = None
    /\ \/ purpose = "Serving" /\ tenant[t].fence = None /\ tenant[t].incarnation = i
       \/ /\ purpose = "RestorePreparation"
          /\ PreparationCurrent(t, i) /\ n \in preparations[t][i].target.nodes

discover(t, i, n, purpose) ==
    /\ tenant[t] # None
    /\ target_stops[t][i] = None
    /\ \/ /\ purpose = "Serving"
          /\ tenant[t].fence = None
          /\ tenant[t].incarnation = i /\ n \in tenant[t].nodes
       \/ /\ purpose = "RestorePreparation"
          /\ PreparationCurrent(t, i) /\ n \in preparations[t][i].target.nodes

discovered_epoch(t, i, purpose) ==
    IF purpose = "Serving" THEN tenant[t].authority_epoch ELSE preparations[t][i].epoch + 1

lease_view(b, purpose) ==
    /\ discover(b.tenant, b.incarnation, b.node, purpose)
    /\ b.epoch = discovered_epoch(b.tenant, b.incarnation, purpose)

\* LeaseMaterial: the receipt and the checkpoint a lease is bound to.
Material(b, purpose) ==
    IF purpose = "Serving"
    THEN [activation |-> tenant[b.tenant].activation,
          checkpoint |-> tenant[b.tenant].recovery_checkpoint]
    ELSE [activation |-> preparations[b.tenant][b.incarnation].receipt.command.id,
          checkpoint |-> preparations[b.tenant][b.incarnation].target.checkpoint]

\* acquire, up to its second barrier: view the state and sign.
IssueLease(p) ==
    /\ attempt[p] # None /\ attempt[p].phase = "Sent"
    /\ Ready /\ signing.phase # "Staged"
    /\ lease_view(boot[p], attempt[p].purpose)
    /\ \E life \in CredentialLifetimes :
           attempt' = [attempt EXCEPT ![p].phase = "Viewed", ![p].term = term,
                           ![p].generation = signing.generation, ![p].lifetime = life,
                           ![p].material = Material(boot[p], attempt[p].purpose)]
    /\ UNCHANGED <<authorityVars, boot, gate, observed_stops>>

\* The barrier in the same term and the response fence: view the state again.
ReleaseLease(p) ==
    /\ attempt[p] # None /\ attempt[p].phase = "Viewed"
    /\ Ready /\ attempt[p].term = term
    /\ signing.phase # "Staged" /\ signing.generation = attempt[p].generation
    /\ lease_view(boot[p], attempt[p].purpose)
    /\ attempt' = [attempt EXCEPT ![p].phase = "Granted"]
    /\ UNCHANGED <<authorityVars, boot, gate, observed_stops>>

\* verify_target_stop: the tombstone of this stop, and its own witness.
WitnessStop(k, principal) ==
    /\ Ready /\ principal \in administrators
    /\ receipts[k] # None /\ receipts[k].outcome.kind = "TargetStopped"
    /\ LET stop == target_stops[receipts[k].command.tenant]
                               [receipts[k].outcome.target.incarnation]
       IN  /\ stop # None /\ stop.outcome = receipts[k].outcome
           /\ drains' \in RequireDrainWitness(drains, stop.command.id, term)
    /\ UNCHANGED <<meta, signing, records, log, regressed, clients>>

VerifyTargetStop(k, principal) ==
    LET t == receipts[k].command.tenant
        i == receipts[k].outcome.target.incarnation
    IN  /\ WitnessStop(k, principal)
        /\ Complete(drains', target_stops[t][i].command.id)
        /\ observed_stops' = observed_stops \cup {<<t, i>>}

AwaitStopDrain(k, principal) ==
    WitnessStop(k, principal) /\ UNCHANGED observed_stops

----------------------------------------------------------------------------
(* A replica process *)

\* The clock is sampled before dispatch, under a fresh attempt nonce.
NewAttempt(purpose) ==
    [purpose |-> purpose, spent |-> 0, phase |-> "Sent", term |-> 0, generation |-> 0,
     lifetime |-> 0, material |-> None]

\* acquire_once: discover, create the boot, begin the first acquisition.
Boot(p, t, i, n, purpose) ==
    /\ boot[p] = None
    /\ Ready /\ discover(t, i, n, purpose)
    /\ boot' = [boot EXCEPT ![p] =
                   [tenant |-> t, incarnation |-> i, node |-> n,
                    epoch |-> discovered_epoch(t, i, purpose)]]
    /\ attempt' = [attempt EXCEPT ![p] = NewAttempt(purpose)]
    /\ UNCHANGED <<authorityVars, gate, observed_stops>>

\* A renewal asks for the gate's own purpose, a promotion for Serving.
BeginAcquisition(p, purpose) ==
    /\ Live(p) /\ attempt[p] = None
    /\ purpose \in {gate[p].purpose, "Serving"}
    /\ attempt' = [attempt EXCEPT ![p] = NewAttempt(purpose)]
    /\ UNCHANGED <<authorityVars, boot, gate, observed_stops>>

\* The same attempt, with its original clock sample, goes to another member.
RetryAttempt(p) ==
    /\ attempt[p] # None /\ attempt[p].phase # "Sent"
    /\ attempt' = [attempt EXCEPT ![p] =
                      [NewAttempt(attempt[p].purpose) EXCEPT !.spent = attempt[p].spent]]
    /\ UNCHANGED <<authorityVars, boot, gate, observed_stops>>

DropAttempt(p) ==
    /\ attempt[p] # None
    /\ attempt' = [attempt EXCEPT ![p] = None]
    /\ boot' = IF gate[p] = None THEN [boot EXCEPT ![p] = None] ELSE boot
    /\ UNCHANGED <<authorityVars, gate, observed_stops>>

\* Mutant: the lifetime counts from the arrival of the grant.
Remaining_FromArrival(a) == a.lifetime

\* What LeaseAttempt::verify makes of a grant: the deadline counts from the
\* sample taken before dispatch.
Remaining(a) == AtLeast(a.lifetime - a.spent, 0)

Verified(p) ==
    /\ attempt[p] # None /\ attempt[p].phase = "Granted"
    /\ (boot[p].epoch = 1) <=> (attempt[p].material.checkpoint = None)
    /\ Remaining(attempt[p]) > 0

Install(p) ==
    /\ gate' = [gate EXCEPT ![p] = [purpose |-> attempt[p].purpose,
                                    left |-> Remaining(attempt[p]),
                                    material |-> attempt[p].material]]
    /\ attempt' = [attempt EXCEPT ![p] = None]
    /\ UNCHANGED <<authorityVars, boot, observed_stops>>

OpenGate(p) ==
    /\ gate[p] = None /\ Verified(p)
    /\ Install(p)

\* Mutant: an expired gate takes a renewal.
RenewGate_Expired(p) ==
    /\ gate[p] # None /\ Verified(p)
    /\ attempt[p].material.activation = gate[p].material.activation
    /\ attempt[p].purpose = gate[p].purpose
    /\ Remaining(attempt[p]) >= gate[p].left
    /\ Install(p)

RenewGate(p) ==
    /\ Live(p) /\ Verified(p)
    /\ attempt[p].material.activation = gate[p].material.activation
    /\ attempt[p].purpose = gate[p].purpose
    /\ Remaining(attempt[p]) >= gate[p].left
    /\ Install(p)

PromotePrepared(p) ==
    /\ Live(p) /\ Verified(p)
    /\ gate[p].purpose = "RestorePreparation" /\ attempt[p].purpose = "Serving"
    /\ attempt[p].material.checkpoint = gate[p].material.checkpoint
    /\ Install(p)

CloseGate(p) ==
    /\ Live(p)
    /\ gate' = [gate EXCEPT ![p].left = 0]
    /\ UNCHANGED <<authorityVars, boot, attempt, observed_stops>>

Restart(p) ==
    /\ boot[p] # None
    /\ boot' = [boot EXCEPT ![p] = None]
    /\ attempt' = [attempt EXCEPT ![p] = None]
    /\ gate' = [gate EXCEPT ![p] = None]
    /\ UNCHANGED <<authorityVars, observed_stops>>

----------------------------------------------------------------------------
Tick ==
    /\ \E b \in Advance : drains' = Aged(drains, b)
    /\ \E adv \in [Processes -> Advance] :
         /\ attempt' = [p \in Processes |->
               IF attempt[p] = None THEN None
               ELSE [attempt[p] EXCEPT !.spent = AtMost(@ + adv[p], MaxLease)]]
         /\ gate' = [p \in Processes |->
               IF gate[p] = None THEN None
               ELSE [gate[p] EXCEPT !.left = AtLeast(@ - adv[p], 0)]]
    /\ UNCHANGED <<meta, signing, records, log, regressed, boot, observed_stops>>

Init ==
    /\ AuthorityInit
    /\ boot = [p \in Processes |-> None]
    /\ attempt = [p \in Processes |-> None]
    /\ gate = [p \in Processes |-> None]
    /\ observed_stops = {}

ProcessStep(p) ==
    \/ IssueLease(p) \/ ReleaseLease(p)
    \/ \E t \in Tenants, i \in Incarnations, n \in Nodes, u \in Purposes :
           Boot(p, t, i, n, u)
    \/ \E u \in Purposes : BeginAcquisition(p, u)
    \/ RetryAttempt(p) \/ DropAttempt(p)
    \/ OpenGate(p) \/ RenewGate(p) \/ PromotePrepared(p)
    \/ CloseGate(p) \/ Restart(p)

Next ==
    \/ AuthorityStep /\ UNCHANGED <<clients, observed_stops>>
    \/ \E k \in Ids, a \in Principals : VerifyTargetStop(k, a) \/ AwaitStopDrain(k, a)
    \/ \E p \in Processes : ProcessStep(p)
    \/ Tick

Spec == Init /\ [][Next]_vars

----------------------------------------------------------------------------
Boots == [tenant : Tenants, incarnation : Incarnations, node : Nodes, epoch : Nat]

ASSUME BootAssumption == None \notin Boots

Materials == [activation : Ids, checkpoint : Incarnations \cup {None}]
Attempts ==
    [purpose : Purposes, spent : 0 .. MaxLease, phase : {"Sent"}, term : {0},
     generation : {0}, lifetime : {0}, material : {None}]
    \cup [purpose : Purposes, spent : 0 .. MaxLease, phase : {"Viewed", "Granted"},
          term : Nat, generation : Nat, lifetime : 1 .. MaxLease, material : Materials]
Gates == [purpose : Purposes, left : 0 .. MaxLease, material : Materials]

ClientTypeOK ==
    /\ boot \in [Processes -> Boots \cup {None}]
    /\ attempt \in [Processes -> Attempts \cup {None}]
    /\ gate \in [Processes -> Gates \cup {None}]
    /\ \A p \in Processes : boot[p] = None => attempt[p] = None /\ gate[p] = None

\* Every variable has its type; a process holds an attempt or a gate only
\* under a boot.
TypeOK ==
    /\ AuthorityTypeOK
    /\ ClientTypeOK
    /\ observed_stops \subseteq Tenants \X Incarnations

----------------------------------------------------------------------------
(* Safety *)

\* No two processes may pass check_serving for different incarnations of one
\* tenant at the same time, whatever leases are in flight, however their
\* clocks drift and whichever leader or issuer process counted the drain.
NoSplitServing ==
    \A p, q \in Processes :
        check_serving(p) /\ check_serving(q) /\ boot[p].tenant = boot[q].tenant =>
            boot[p].incarnation = boot[q].incarnation

\* A signed target-stop observation is final: from then on no process holds a
\* live gate, serving or preparing, for that incarnation.
ObservedStopIsFinal ==
    \A p \in Processes :
        Live(p) => <<boot[p].tenant, boot[p].incarnation>> \notin observed_stops

\* A gate that was closed or expired never admits an access again: no renewal
\* or promotion that was in flight revives it.
GateNeverRevived ==
    [][\A p \in Processes :
          gate[p] # None /\ gate[p].left = 0 /\ gate'[p] # None => gate'[p].left = 0]_vars

\* Whoever serves the tenant's current incarnation does so at its epoch, under
\* the receipt that activated it and on a node that receipt names, whether its
\* gate was opened for service or promoted from a preparation.
ServedAsActivated ==
    \A p \in Processes :
        check_serving(p) /\ boot[p].incarnation = tenant[boot[p].tenant].incarnation =>
            /\ boot[p].epoch = tenant[boot[p].tenant].authority_epoch
            /\ gate[p].material.activation = tenant[boot[p].tenant].activation
            /\ boot[p].node \in tenant[boot[p].tenant].nodes

----------------------------------------------------------------------------
(* The abstract specification the leases implement *)

ServingIncarnations(t) ==
    {boot[p].incarnation : p \in {q \in Processes : check_serving(q) /\ boot[q].tenant = t}}

Owner == INSTANCE TenantOwner WITH
    owner   <- [t \in Tenants |-> IF tenant[t] = None THEN None ELSE tenant[t].incarnation],
    retired <- [t \in Tenants |-> {i \in Incarnations :
                   incarnations[t][i] # None /\ tenant[t].incarnation # i}],
    serving <- [t \in Tenants |-> ServingIncarnations(t)]

\* The authority, its leases, drifting clocks, drains and crashes together
\* implement exclusive ownership: service is only ever handed over after it
\* has ceased everywhere, and never back to a replaced incarnation.
ImplementsOwner == Owner!Spec
=============================================================================
