----------------------------- MODULE Authority -----------------------------
(***************************************************************************)
(* One partition of the independent serving authority: the replicated      *)
(* reducer of administrative commands (kasumi-authority/src/state.rs) and  *)
(* the leader's admission of commands and of drained activations           *)
(* (kasumi-authority/src/service.rs).                                      *)
(*                                                                         *)
(* The Raft group is seen as its ordered log: a proposal is applied at     *)
(* most once, in the term it was appended in, possibly long after its      *)
(* caller gave up, or it is lost.  A command stands for its own digest, an *)
(* Id for the pair (tenant, command_id), and a retained receipt is named   *)
(* by its command's Id wherever the code stores its digest.  The manifest  *)
(* has no lifecycle controls, so `Activate` is the activation command and  *)
(* no control epoch is ever open.                                          *)
(*                                                                         *)
(* The quota is counted in records of the maximum size.  Maintenance and   *)
(* signer coverage write to the same counter under bounds of their own;    *)
(* their entries appear here by what they write, reserve and require of    *)
(* the quota (their protocols are Maintenance and SignerRotation).         *)
(***************************************************************************)
EXTENDS DrainWitness

CONSTANTS
    Tenants, Incarnations, Nodes, Principals,
    Commands,           \* every AuthorityCommand anybody may submit
    Retried,            \* the activations whose callers retry until an answer
    InitialAdministrators,
    EnrolledVerifiers,  \* nodes whose verifier has a permanent enrollment
    MaxTerm,            \* bound: leader changes
    MaxProposals,       \* bound: entries in flight at once
    MaxOperational,     \* bound: maintenance and coverage records
    Capacities,         \* every AuthorityCapacity anybody may install
    InitialCapacity

Kinds == {"Enroll", "Fence", "PrepareTarget", "Activate", "StopTarget",
          "StopActivation", "ReplaceAdministrators"}

\* RecoveryTarget: the checkpoint is known by the incarnation it was taken of.
Targets == [incarnation : Incarnations, nodes : SUBSET Nodes,
            checkpoint : Incarnations]

\* What AuthorityCommand::validate establishes of every admitted command.
ValidCommand(c) ==
    LET a == c.action
    IN  CASE a.kind = "Enroll"  -> a.incarnation \in Incarnations /\ a.nodes \subseteq Nodes
          [] a.kind = "Fence"   -> a.incarnation \in Incarnations /\ a.epoch \in Nat \ {0}
          [] a.kind \in {"PrepareTarget", "StopTarget"} ->
                /\ a.source \in Incarnations /\ a.epoch \in Nat \ {0}
                /\ a.target \in Targets
                /\ a.target.incarnation # a.source
                /\ a.target.checkpoint = a.source
          [] a.kind = "Activate" ->
                /\ a.fence \in Ids /\ a.target \in Targets
                /\ a.target.incarnation # a.target.checkpoint
          [] a.kind = "StopActivation" ->
                /\ a.original \in Commands
                /\ a.original.action.kind = "Activate"
                /\ a.original.tenant = c.tenant
                /\ a.original.id # c.id
          [] a.kind = "ReplaceAdministrators" ->
                a.administrators \in (SUBSET Principals) \ {{}}
          [] OTHER -> FALSE

ASSUME AuthorityAssumption ==
    /\ InitialAdministrators \in (SUBSET Principals) \ {{}}
    /\ EnrolledVerifiers \subseteq Nodes
    /\ MaxTerm \in Nat \ {0} /\ MaxProposals \in Nat \ {0}
    /\ None \notin Incarnations
    /\ \A c \in Commands : /\ c.id \in Ids /\ c.tenant \in Tenants
                           /\ c.policy \in Nat \ {0}
                           /\ c.action.kind \in Kinds
                           /\ ValidCommand(c)
    /\ \A c, d \in Commands : c.id = d.id => c.tenant = d.tenant

ASSUME RetryAssumption ==
    Retried \subseteq {c \in Commands : c.action.kind = "Activate"}

\* AuthorityCapacity::validate: a MiB of maintenance reserve is four records.
ASSUME CapacityAssumption ==
    /\ MaxOperational \in Nat
    /\ InitialCapacity \in Capacities
    /\ Capacities \subseteq [max_tenants : Nat \ {0}, max_state_bytes : Nat,
                            maintenance_reserve : Nat]
    /\ \A c \in Capacities : 4 <= c.maintenance_reserve
                           /\ c.maintenance_reserve < c.max_state_bytes

VARIABLES
    \* the replicated application state: Meta and the keyed records
    revision, administrators, policy_epoch, active_fences, state_bytes, signing,
    operational,   \* capacity, phase of the pending operation, maintenance and
                   \* coverage records, dispatches still to acknowledge or permit
    tenant, receipts, preparations, incarnations, target_stops,
    \* the ordered log and its leader
    term, applied_term, proposals,
    \* the leader process: its drain witnesses and its clock
    drains, regressed

meta    == <<revision, administrators, policy_epoch, active_fences, state_bytes,
             operational>>
records == <<tenant, receipts, preparations, incarnations, target_stops>>
log     == <<term, applied_term, proposals>>
leader  == <<drains, regressed>>
authorityVars == <<meta, signing, records, log, leader>>

----------------------------------------------------------------------------
(* Reading the state *)

Prepared == [command : Commands, principal : Principals,
             term : 1 .. MaxTerm, drained : Ids \cup {None}]

Fenced(t) == tenant[t] # None /\ tenant[t].fence # None

IsCurrent(t, i, e) ==
    tenant[t] # None /\ tenant[t].incarnation = i /\ tenant[t].authority_epoch = e

Frozen == signing.phase # "Steady"

\* A linearizable barrier succeeds once this term's blank entry is applied.
Ready == applied_term = term

----------------------------------------------------------------------------
(* effect: what each command asks of the state it is applied to *)

EnrollOK(c) ==
    /\ ~Frozen
    /\ target_stops[c.tenant][c.action.incarnation] = None
    /\ tenant[c.tenant] = None

FenceOK(c) ==
    /\ IsCurrent(c.tenant, c.action.incarnation, c.action.epoch)
    /\ tenant[c.tenant].fence = None

PrepareOK(c) ==
    LET a == c.action
    IN  /\ ~Frozen
        /\ IsCurrent(c.tenant, a.source, a.epoch)
        /\ tenant[c.tenant].fence = None
        /\ target_stops[c.tenant][a.target.incarnation] = None
        /\ preparations[c.tenant][a.target.incarnation] = None
        /\ incarnations[c.tenant][a.target.incarnation] = None

\* A preparation, where there is one, must be of this target and this source.
PreparedAs(t, target, source, epoch) ==
    LET p == preparations[t][target.incarnation]
    IN  p # None => p.target = target /\ p.source = source /\ p.epoch = epoch

\* Mutants of ActivateOK: each drops one of its checks.
ActivateOK_Fence(p) ==
    LET c == p.command
        a == c.action
        r == tenant[c.tenant]
    IN  /\ Frozen => a.target.nodes \subseteq EnrolledVerifiers
        /\ r # None
        /\ a.target.incarnation # r.incarnation /\ a.target.checkpoint = r.incarnation
        /\ target_stops[c.tenant][a.target.incarnation] = None
        /\ incarnations[c.tenant][a.target.incarnation] = None
        /\ PreparedAs(c.tenant, a.target, r.incarnation, r.authority_epoch)
ActivateOK_Stop(p) ==
    LET c == p.command
        a == c.action
        r == tenant[c.tenant]
    IN  /\ Frozen => a.target.nodes \subseteq EnrolledVerifiers
        /\ Fenced(c.tenant) /\ r.fence = a.fence /\ p.drained = a.fence
        /\ a.target.incarnation # r.incarnation /\ a.target.checkpoint = r.incarnation
        /\ incarnations[c.tenant][a.target.incarnation] = None
        /\ PreparedAs(c.tenant, a.target, r.incarnation, r.authority_epoch)

ActivateOK(p) ==
    LET c == p.command
        a == c.action
        r == tenant[c.tenant]
    IN  /\ Frozen => a.target.nodes \subseteq EnrolledVerifiers
        /\ Fenced(c.tenant)
        /\ r.fence = a.fence /\ p.drained = a.fence
        /\ a.target.incarnation # r.incarnation
        /\ a.target.checkpoint = r.incarnation
        /\ target_stops[c.tenant][a.target.incarnation] = None
        /\ incarnations[c.tenant][a.target.incarnation] = None
        /\ PreparedAs(c.tenant, a.target, r.incarnation, r.authority_epoch)

\* The target was activated by exactly the replacement this stop names.
AlreadyActivated(c) ==
    LET a == c.action
        i == incarnations[c.tenant][a.target.incarnation]
    IN  /\ i # None
        /\ i.receipt.outcome = [kind |-> "Activated", target |-> a.target,
                                epoch |-> a.epoch + 1]

StopOutcome(c) == [kind |-> "TargetStopped", source |-> c.action.source,
                   epoch |-> c.action.epoch, target |-> c.action.target]

AlreadyStopped(c) ==
    LET s == target_stops[c.tenant][c.action.target.incarnation]
    IN  /\ incarnations[c.tenant][c.action.target.incarnation] = None
        /\ s # None /\ s.outcome = StopOutcome(c)

StopTargetOK(c) ==
    LET a == c.action
    IN  /\ incarnations[c.tenant][a.target.incarnation] = None
        /\ target_stops[c.tenant][a.target.incarnation] = None
        /\ IsCurrent(c.tenant, a.source, a.epoch)
        /\ PreparedAs(c.tenant, a.target, a.source, a.epoch)

\* The original identity is unused, or was used by exactly this activation.
StopActivationOK(c) ==
    LET r == receipts[c.action.original.id]
    IN  r # None => r.command = c.action.original

Accepted(p) ==
    LET c == p.command
    IN  CASE c.action.kind = "Enroll"         -> EnrollOK(c)
          [] c.action.kind = "Fence"          -> FenceOK(c)
          [] c.action.kind = "PrepareTarget"  -> PrepareOK(c)
          [] c.action.kind = "Activate"       -> ActivateOK(p)
          [] c.action.kind = "StopTarget"     ->
                 AlreadyActivated(c) \/ AlreadyStopped(c) \/ StopTargetOK(c)
          [] c.action.kind = "StopActivation" -> StopActivationOK(c)
          [] OTHER                            -> TRUE

----------------------------------------------------------------------------
(* reduce: ordering, receipts, accounting and quota *)

\* Mutant: a changed policy is not noticed.
Effective_Policy(p, entryTerm) ==
    /\ p \in proposals /\ entryTerm \in applied_term .. term
    /\ p.principal \in administrators /\ p.term = entryTerm
    /\ receipts[p.command.id] = None

\* The entry reaches its command's effect: current Admin, the term it was
\* prepared in, an unused identity and the current policy epoch.
Effective(p, entryTerm) ==
    /\ p \in proposals
    /\ entryTerm \in applied_term .. term
    /\ p.principal \in administrators
    /\ p.term = entryTerm
    /\ receipts[p.command.id] = None
    /\ p.command.policy = policy_epoch

\* New records of an accepted or rejected command; a receipt is always one.
Growth(p) ==
    LET c == p.command
    IN  IF ~Accepted(p) THEN 1
        ELSE CASE c.action.kind = "Enroll"        -> 3
               [] c.action.kind = "PrepareTarget" -> 2
               [] c.action.kind = "Activate"      -> 2
               [] c.action.kind = "StopTarget"    -> IF StopTargetOK(c) THEN 2 ELSE 1
               [] c.action.kind = "StopActivation" ->
                      IF receipts[c.action.original.id] = None THEN 2 ELSE 1
               [] OTHER -> 1

FenceChange(p) ==
    IF ~Accepted(p) THEN 0
    ELSE CASE p.command.action.kind = "Fence"    -> 1
           [] p.command.action.kind = "Activate" -> -1
           [] OTHER -> 0

TenantCount(p) ==
    Cardinality({t \in Tenants : tenant[t] # None})
    + (IF Accepted(p) /\ p.command.action.kind = "Enroll" THEN 1 ELSE 0)

\* Mutant: nothing is set aside for a fenced source.
completion_reserve_None(fences, op) == op.unacknowledged + 2 * op.unpermitted

\* A fenced source keeps room for its activation receipt, its tenant update and
\* its permanent incarnation record, a coverage dispatch for its acknowledgment
\* and for the two records of its permission.
completion_reserve(fences, op) == 3 * fences + op.unacknowledged + 2 * op.unpermitted

\* What an administrative command leaves to maintenance.
OrdinaryBytes == operational.capacity.max_state_bytes - operational.capacity.maintenance_reserve

WithinQuota(p) ==
    /\ TenantCount(p) <= operational.capacity.max_tenants
    /\ state_bytes + Growth(p)
           + completion_reserve(active_fences + FenceChange(p), operational)
       <= OrdinaryBytes

Receipt(p, outcome) ==
    [command |-> p.command, principal |-> p.principal, term |-> p.term,
     revision |-> revision + 1, outcome |-> outcome]

\* The joint publication of one effective entry and its retained receipts.
PublishWith(p, retained) ==
    /\ WithinQuota(p)
    /\ revision' = revision + 1
    /\ state_bytes' = state_bytes + Growth(p)
    /\ active_fences' = active_fences + FenceChange(p)
    /\ receipts' = retained
    /\ applied_term' = p.term
    /\ proposals' = proposals \ {p}
    /\ UNCHANGED <<term, signing, operational, leader>>

Publish(p, outcome) ==
    PublishWith(p, [receipts EXCEPT ![p.command.id] = Receipt(p, outcome)])

ApplyEnroll(p, entryTerm) ==
    LET c == p.command
        outcome == [kind |-> "Enrolled", incarnation |-> c.action.incarnation, epoch |-> 1]
    IN  /\ Effective(p, entryTerm) /\ c.action.kind = "Enroll" /\ EnrollOK(c)
        /\ Publish(p, outcome)
        /\ tenant' = [tenant EXCEPT ![c.tenant] =
                         [incarnation |-> c.action.incarnation, authority_epoch |-> 1,
                          nodes |-> c.action.nodes, activation |-> c.id,
                          recovery_checkpoint |-> None, fence |-> None]]
        /\ incarnations' = [incarnations EXCEPT ![c.tenant][c.action.incarnation] =
                               [epoch |-> 1, receipt |-> Receipt(p, outcome)]]
        /\ UNCHANGED <<administrators, policy_epoch, preparations, target_stops>>

ApplyFence(p, entryTerm) ==
    LET c == p.command
    IN  /\ Effective(p, entryTerm) /\ c.action.kind = "Fence" /\ FenceOK(c)
        /\ Publish(p, [kind |-> "Fenced", incarnation |-> c.action.incarnation,
                       epoch |-> c.action.epoch])
        /\ tenant' = [tenant EXCEPT ![c.tenant].fence = c.id]
        /\ UNCHANGED <<administrators, policy_epoch, preparations, incarnations,
                       target_stops>>

ApplyPrepareTarget(p, entryTerm) ==
    LET c == p.command
        a == c.action
        outcome == [kind |-> "TargetPrepared", target |-> a.target, epoch |-> a.epoch + 1]
    IN  /\ Effective(p, entryTerm) /\ a.kind = "PrepareTarget" /\ PrepareOK(c)
        /\ Publish(p, outcome)
        /\ preparations' = [preparations EXCEPT ![c.tenant][a.target.incarnation] =
                               [source |-> a.source, epoch |-> a.epoch,
                                target |-> a.target, receipt |-> Receipt(p, outcome)]]
        /\ UNCHANGED <<administrators, policy_epoch, tenant, incarnations, target_stops>>

ApplyActivate(p, entryTerm) ==
    LET c == p.command
        a == c.action
        next == tenant[c.tenant].authority_epoch + 1
        outcome == [kind |-> "Activated", target |-> a.target, epoch |-> next]
    IN  /\ Effective(p, entryTerm) /\ a.kind = "Activate" /\ ActivateOK(p)
        /\ Publish(p, outcome)
        /\ tenant' = [tenant EXCEPT ![c.tenant] =
                         [incarnation |-> a.target.incarnation, authority_epoch |-> next,
                          nodes |-> a.target.nodes, activation |-> c.id,
                          recovery_checkpoint |-> a.target.checkpoint, fence |-> None]]
        /\ incarnations' = [incarnations EXCEPT ![c.tenant][a.target.incarnation] =
                               [epoch |-> next, receipt |-> Receipt(p, outcome)]]
        /\ UNCHANGED <<administrators, policy_epoch, preparations, target_stops>>

\* Only the first stop of a target is recorded; an exact later one repeats it.
ApplyStopTarget(p, entryTerm) ==
    LET c == p.command
        i == c.action.target.incarnation
    IN  /\ Effective(p, entryTerm) /\ c.action.kind = "StopTarget"
        /\ \/ /\ AlreadyActivated(c)
              /\ Publish(p, [kind |-> "TargetAlreadyActivated",
                             original |-> incarnations[c.tenant][i].receipt])
              /\ UNCHANGED target_stops
           \/ /\ AlreadyStopped(c)
              /\ Publish(p, StopOutcome(c))
              /\ UNCHANGED target_stops
           \/ /\ StopTargetOK(c)
              /\ Publish(p, StopOutcome(c))
              /\ target_stops' = [target_stops EXCEPT ![c.tenant][i] =
                                     Receipt(p, StopOutcome(c))]
        /\ UNCHANGED <<administrators, policy_epoch, tenant, preparations, incarnations>>

\* The receipt an unaccepted original activation is stopped with.
Stopped(p) ==
    [Receipt(p, [kind |-> "ActivationStopped"]) EXCEPT !.command = p.command.action.original]

\* Mutant: a retained original is written again, as of the command that asks.
ApplyStopActivation_Rewrites(p, entryTerm) ==
    LET o == p.command.action.original
        original == IF receipts[o.id] # None
                    THEN [receipts[o.id] EXCEPT !.revision = revision + 1] ELSE Stopped(p)
        outcome  == [kind |-> "ActivationResolved", original |-> original]
    IN  /\ Effective(p, entryTerm) /\ p.command.action.kind = "StopActivation"
        /\ StopActivationOK(p.command)
        /\ PublishWith(p, [receipts EXCEPT ![o.id] = original,
                                           ![p.command.id] = Receipt(p, outcome)])
        /\ UNCHANGED <<administrators, policy_epoch, tenant, preparations, incarnations,
                       target_stops>>

ApplyStopActivation(p, entryTerm) ==
    LET o == p.command.action.original
        original == IF receipts[o.id] # None THEN receipts[o.id] ELSE Stopped(p)
        outcome  == [kind |-> "ActivationResolved", original |-> original]
    IN  /\ Effective(p, entryTerm) /\ p.command.action.kind = "StopActivation"
        /\ StopActivationOK(p.command)
        /\ PublishWith(p, [receipts EXCEPT ![o.id] = original,
                                           ![p.command.id] = Receipt(p, outcome)])
        /\ UNCHANGED <<administrators, policy_epoch, tenant, preparations, incarnations,
                       target_stops>>

ApplyReplaceAdministrators(p, entryTerm) ==
    LET c == p.command
    IN  /\ Effective(p, entryTerm) /\ c.action.kind = "ReplaceAdministrators"
        /\ Publish(p, [kind |-> "AdministratorsReplaced", epoch |-> policy_epoch + 1])
        /\ policy_epoch' = policy_epoch + 1
        /\ administrators' = c.action.administrators
        /\ UNCHANGED <<tenant, preparations, incarnations, target_stops>>

\* A business rejection is a permanent outcome too.
ApplyRejected(p, entryTerm) ==
    /\ Effective(p, entryTerm) /\ ~Accepted(p)
    /\ Publish(p, [kind |-> "Rejected"])
    /\ UNCHANGED <<administrators, policy_epoch, tenant, preparations, incarnations,
                   target_stops>>

\* A stale term, revoked principal, used identity, changed policy or exhausted
\* quota: the entry is consumed and writes nothing.
ApplyWithoutEffect(p, entryTerm) ==
    /\ p \in proposals
    /\ entryTerm \in applied_term .. term /\ p.term <= entryTerm
    /\ ~Effective(p, entryTerm) \/ ~WithinQuota(p)
    /\ applied_term' = entryTerm
    /\ proposals' = proposals \ {p}
    /\ UNCHANGED <<meta, signing, records, term, leader>>

Apply(p, entryTerm) ==
    \/ ApplyEnroll(p, entryTerm)
    \/ ApplyFence(p, entryTerm)
    \/ ApplyPrepareTarget(p, entryTerm)
    \/ ApplyActivate(p, entryTerm)
    \/ ApplyStopTarget(p, entryTerm)
    \/ ApplyStopActivation(p, entryTerm)
    \/ ApplyReplaceAdministrators(p, entryTerm)
    \/ ApplyRejected(p, entryTerm)
    \/ ApplyWithoutEffect(p, entryTerm)

----------------------------------------------------------------------------
(* Maintenance and signer coverage: the other writers of the quota *)

\* One operational entry grows by `growth` records and leaves `next`; `spare` is
\* kept free besides the reserve.  The capacity it is held against is the one it
\* leaves, without the maintenance reserve.  A refused entry writes nothing.
PublishOperational(growth, next, spare) ==
    /\ operational.records + growth <= MaxOperational
    /\ state_bytes + growth + completion_reserve(active_fences, next) + spare
           <= next.capacity.max_state_bytes
    /\ revision' = revision + 1
    /\ state_bytes' = state_bytes + growth
    /\ operational' = [next EXCEPT !.records = @ + growth]
    /\ UNCHANGED <<administrators, policy_epoch, active_fences, records, log, leader>>

\* A pending operation keeps one record free for its completion.
reduce_maintenance(growth, next) ==
    PublishOperational(growth, next, IF next.pending = None THEN 0 ELSE 1)

reduce_coverage(growth, next) == PublishOperational(growth, next, 0)

\* Begin of a change of members: pending until it is stopped or completed.
BeginMaintenance ==
    /\ operational.pending = None
    /\ reduce_maintenance(1, [operational EXCEPT !.pending = "Prepared"])
    /\ UNCHANGED signing

\* Begin of an operation that ends in the same entry: a rejected start or a
\* permission no dispatch waits for (its status), or the enrollment of a verifier
\* (and its registration).
CompleteAtOnce ==
    /\ operational.pending = None
    /\ \/ reduce_maintenance(1, operational)
       \/ ~Frozen /\ reduce_maintenance(2, operational)
    /\ UNCHANGED signing

\* The new capacity must hold every record, every reserve and its own
\* maintenance reserve.
SetCapacity(capacity) ==
    /\ operational.pending = None
    /\ Cardinality({t \in Tenants : tenant[t] # None}) <= capacity.max_tenants
    /\ state_bytes + completion_reserve(active_fences, operational)
           + capacity.maintenance_reserve <= capacity.max_state_bytes
    /\ reduce_maintenance(1, [operational EXCEPT !.capacity = capacity])
    /\ UNCHANGED signing

\* Global signer rotation, as far as it freezes admissions and issuance: an exact
\* successor is staged with the frozen roster, then activated.  Nothing ends the
\* retirement of its predecessor.
StageSignerGeneration ==
    /\ operational.pending = None /\ ~Frozen
    /\ reduce_maintenance(2, operational)
    /\ signing' = [signing EXCEPT !.phase = "Staged"]

ActivateSignerGeneration ==
    /\ operational.pending = None /\ signing.phase = "Staged"
    /\ reduce_maintenance(1, operational)
    /\ signing' = [generation |-> signing.generation + 1, phase |-> "Retiring"]

\* The permission an outstanding dispatch reserved for: its status and its marker.
PermitCoverage ==
    /\ operational.pending = None /\ operational.unpermitted > 0
    /\ reduce_maintenance(2, [operational EXCEPT !.unpermitted = @ - 1])
    /\ UNCHANGED signing

\* Dispatch, Finish and CompleteDrain of the pending operation rewrite its status;
\* a finished revocation drains first and leaves the identity of the member.  Only
\* a prepared operation can be stopped.
AdvanceMaintenance ==
    /\ \/ operational.pending = "Prepared"
          /\ \E phase \in {"Dispatched", None} :
                reduce_maintenance(0, [operational EXCEPT !.pending = phase])
       \/ operational.pending \in {"Dispatched", "Draining"}
          /\ reduce_maintenance(0, [operational EXCEPT !.pending = None])
       \/ operational.pending = "Dispatched"
          /\ reduce_maintenance(1, [operational EXCEPT !.pending = "Draining"])
    /\ UNCHANGED signing

\* A dispatch and its binding; when its permission is complete already, that
\* permission's marker too.
BeginCoverage ==
    /\ signing.phase = "Retiring"
    /\ \/ reduce_coverage(2, [operational EXCEPT !.unacknowledged = @ + 1,
                                                 !.unpermitted = @ + 1])
       \/ reduce_coverage(3, [operational EXCEPT !.unacknowledged = @ + 1])
    /\ UNCHANGED signing

\* A dispatch is acknowledged only after its permission.
AcknowledgeCoverage ==
    /\ operational.unacknowledged > operational.unpermitted
    /\ reduce_coverage(1, [operational EXCEPT !.unacknowledged = @ - 1])
    /\ UNCHANGED signing

ApplyOperational ==
    \/ BeginMaintenance \/ CompleteAtOnce \/ AdvanceMaintenance
    \/ \E c \in Capacities : SetCapacity(c)
    \/ StageSignerGeneration \/ ActivateSignerGeneration
    \/ PermitCoverage \/ BeginCoverage \/ AcknowledgeCoverage

----------------------------------------------------------------------------
(* The leader: consensus, admission and its drain witnesses *)

\* The blank entry of a new term, applied as Metadata.
ApplyMetadata ==
    /\ applied_term < term
    /\ applied_term' = term
    /\ revision' = revision + 1
    /\ UNCHANGED <<administrators, policy_epoch, active_fences, state_bytes, operational,
                   signing, records, term, proposals, leader>>

ChangeTerm ==
    /\ term < MaxTerm
    /\ term' = term + 1
    /\ UNCHANGED <<meta, signing, records, applied_term, proposals, leader>>

\* A newer leader truncates an entry that was never replicated to it.
LoseProposal(p) ==
    /\ p \in proposals /\ p.term < term
    /\ proposals' = proposals \ {p}
    /\ UNCHANGED <<meta, signing, records, term, applied_term, leader>>

\* Witnesses live in process memory only.
RestartLeader ==
    /\ \E k \in Ids : drains[k] # None
    /\ drains' = [k \in Ids |-> None]
    /\ UNCHANGED <<meta, signing, records, log, regressed>>

\* execute, up to the proposal: barrier, current Admin, no retained receipt.
\* A command past its deadline is one that is not executed any more.
Admitted(c, principal) ==
    /\ Ready
    /\ principal \in administrators
    /\ receipts[c.id] = None

Propose(c, principal, drained) ==
    LET p == [command |-> c, principal |-> principal, term |-> term, drained |-> drained]
    IN  /\ c.policy = policy_epoch
        /\ p \notin proposals /\ Cardinality(proposals) < MaxProposals
        /\ proposals' = proposals \cup {p}

Execute(c, principal) ==
    /\ c.action.kind # "Activate"
    /\ Admitted(c, principal)
    /\ Propose(c, principal, None)
    /\ UNCHANGED <<meta, signing, records, term, applied_term, leader>>

\* An activation looks at the witness of its exact fence, starting it if needed.
WitnessFence(c, principal) ==
    /\ c.action.kind = "Activate"
    /\ Admitted(c, principal)
    /\ Fenced(c.tenant) /\ tenant[c.tenant].fence = c.action.fence
    /\ drains' \in RequireDrainWitness(drains, c.action.fence, term)
    /\ UNCHANGED <<meta, signing, records, term, applied_term, regressed>>

\* It is proposed only when the witness is complete ...
ExecuteActivate(c, principal) ==
    /\ WitnessFence(c, principal)
    /\ Complete(drains', c.action.fence)
    /\ Propose(c, principal, c.action.fence)

\* ... and otherwise, or once late, its caller is told to retry.
AwaitFenceDrain(c, principal) ==
    /\ WitnessFence(c, principal)
    /\ UNCHANGED proposals

IssuerClockRegresses(j) ==
    /\ regressed + j <= MaxRegression
    /\ \E k \in Ids : drains[k] # None
    /\ regressed' = regressed + j
    /\ drains' = Aged(drains, -j)
    /\ UNCHANGED <<meta, signing, records, log>>

----------------------------------------------------------------------------
AuthorityInit ==
    /\ revision = 0 /\ administrators = InitialAdministrators /\ policy_epoch = 1
    /\ active_fences = 0 /\ state_bytes = 0 /\ signing = [generation |-> 1, phase |-> "Steady"]
    /\ operational = [capacity |-> InitialCapacity, pending |-> None, records |-> 0,
                      unacknowledged |-> 0, unpermitted |-> 0]
    /\ tenant = [t \in Tenants |-> None]
    /\ receipts = [k \in Ids |-> None]
    /\ preparations = [t \in Tenants |-> [i \in Incarnations |-> None]]
    /\ incarnations = [t \in Tenants |-> [i \in Incarnations |-> None]]
    /\ target_stops = [t \in Tenants |-> [i \in Incarnations |-> None]]
    /\ term = 1 /\ applied_term = 1 /\ proposals = {}
    /\ drains = [k \in Ids |-> None] /\ regressed = 0

AuthorityStep ==
    \/ \E p \in proposals, e \in 1 .. MaxTerm : Apply(p, e)
    \/ \E p \in proposals : LoseProposal(p)
    \/ ApplyMetadata \/ ChangeTerm \/ RestartLeader \/ ApplyOperational
    \/ \E c \in Commands, a \in Principals : 
           Execute(c, a) \/ ExecuteActivate(c, a) \/ AwaitFenceDrain(c, a)
    \/ \E j \in 1 .. MaxRegression : IssuerClockRegresses(j)

\* Time passes on the issuer's clock.
IssuerTick ==
    /\ \E b \in Advance : drains' = Aged(drains, b)
    /\ UNCHANGED <<meta, signing, records, log, regressed>>

AuthorityNext == AuthorityStep \/ IssuerTick

AuthoritySpec == AuthorityInit /\ [][AuthorityNext]_authorityVars

\* An administrator's retry of an activation before its deadline.
RetryActivate(c, principal) ==
    \/ ExecuteActivate(c, principal)
    \/ AwaitFenceDrain(c, principal) /\ ~Complete(drains', c.action.fence)

\* A live quorum applies what its leader proposed, each entry in its turn, the
\* issuer's clock advances and activations are retried, as the Unavailable answer
\* asks of the caller; the proposal lock is a fair mutex, so that commands refused
\* for quota and sent again do not keep the retry out.
AuthorityFairness ==
    /\ WF_authorityVars(IssuerTick)
    /\ WF_authorityVars(ApplyMetadata)
    /\ WF_authorityVars(\E p \in proposals, e \in 1 .. MaxTerm : Apply(p, e))
    /\ \A c \in Retried :
          /\ WF_authorityVars(\E p \in proposals, e \in 1 .. MaxTerm :
                                 p.command = c /\ Apply(p, e))
          /\ SF_authorityVars(\E a \in Principals : RetryActivate(c, a))

LiveAuthoritySpec == AuthoritySpec /\ AuthorityFairness

----------------------------------------------------------------------------
(* Types *)

PlainOutcomes ==
    [kind : {"Enrolled", "Fenced"}, incarnation : Incarnations, epoch : Nat]
    \cup [kind : {"TargetPrepared", "Activated"}, target : Targets, epoch : Nat]
    \cup [kind : {"TargetStopped"}, source : Incarnations, epoch : Nat, target : Targets]
    \cup [kind : {"AdministratorsReplaced"}, epoch : Nat]
    \cup [kind : {"ActivationStopped", "Rejected"}]

ReceiptsOf(outcomes) ==
    [command : Commands, principal : Principals, term : Nat, revision : Nat,
     outcome : outcomes]

Outcomes == PlainOutcomes \cup
    [kind : {"TargetAlreadyActivated", "ActivationResolved"},
     original : ReceiptsOf(PlainOutcomes)]

TenantRecords ==
    [incarnation : Incarnations, authority_epoch : Nat, nodes : SUBSET Nodes,
     activation : Ids, recovery_checkpoint : Incarnations \cup {None},
     fence : Ids \cup {None}]

IncarnationRecords == [epoch : Nat, receipt : ReceiptsOf(PlainOutcomes)]

PreparationRecords ==
    [source : Incarnations, epoch : Nat, target : Targets, receipt : ReceiptsOf(PlainOutcomes)]

OperationalStates ==
    [capacity : Capacities, pending : {None, "Prepared", "Dispatched", "Draining"},
     records : Nat, unacknowledged : Nat, unpermitted : Nat]

ASSUME RecordAssumption ==
    /\ None \notin ReceiptsOf(Outcomes) /\ None \notin TenantRecords
    /\ None \notin IncarnationRecords /\ None \notin PreparationRecords

MetaTypeOK ==
    /\ revision \in Nat /\ policy_epoch \in Nat
    /\ active_fences \in Int /\ state_bytes \in Nat
    /\ administrators \in (SUBSET Principals) \ {{}}
    /\ operational \in OperationalStates
    /\ signing \in [generation : Nat, phase : {"Steady", "Staged", "Retiring"}]

RecordsTypeOK ==
    /\ tenant \in [Tenants -> TenantRecords \cup {None}]
    /\ receipts \in [Ids -> ReceiptsOf(Outcomes) \cup {None}]
    /\ preparations \in [Tenants -> [Incarnations -> PreparationRecords \cup {None}]]
    /\ incarnations \in [Tenants -> [Incarnations -> IncarnationRecords \cup {None}]]
    /\ target_stops \in [Tenants -> [Incarnations ->
           ReceiptsOf(PlainOutcomes) \cup {None}]]

LogTypeOK ==
    /\ term \in 1 .. MaxTerm /\ applied_term \in 1 .. term
    /\ proposals \subseteq Prepared

LeaderTypeOK ==
    /\ drains \in [Ids -> Witness \cup {None}]
    /\ regressed \in 0 .. MaxRegression

\* Every variable of the authority has the shape its Rust type gives it, and
\* the applied position never runs ahead of the log's term.
AuthorityTypeOK == MetaTypeOK /\ RecordsTypeOK /\ LogTypeOK /\ LeaderTypeOK

----------------------------------------------------------------------------
(* What the reducer promises *)

\* An exact retry of any command can only ever see its original result: a
\* retained receipt is never replaced, whatever later entry is applied
\* (StopActivation writes under the identity of another command).
ReceiptsPermanent ==
    [][\A k \in Ids : receipts[k] # None => receipts'[k] = receipts[k]]_authorityVars

\* Meta's incremental counters agree with the records they summarise, so the
\* quota check reserves for exactly the sources that are really fenced.
AccountingExact ==
    /\ active_fences = Cardinality({t \in Tenants : Fenced(t)})
    /\ state_bytes =
           Cardinality({t \in Tenants : tenant[t] # None})
         + Cardinality({k \in Ids : receipts[k] # None})
         + Cardinality({x \in Tenants \X Incarnations : preparations[x[1]][x[2]] # None})
         + Cardinality({x \in Tenants \X Incarnations : incarnations[x[1]][x[2]] # None})
         + Cardinality({x \in Tenants \X Incarnations : target_stops[x[1]][x[2]] # None})
         + operational.records

\* Bytes and reserve together stay within the capacity whoever writes, as a
\* replica that installs the state as a snapshot demands.
CapacityHolds ==
    /\ Cardinality({t \in Tenants : tenant[t] # None}) <= operational.capacity.max_tenants
    /\ state_bytes + completion_reserve(active_fences, operational)
           <= operational.capacity.max_state_bytes

\* What a coverage dispatch still owes, its permission and its acknowledgment,
\* fits in what it reserved.
CoverageCanComplete ==
    /\ operational.unpermitted > 0 =>
           state_bytes + 2 + completion_reserve(active_fences,
                                 [operational EXCEPT !.unpermitted = @ - 1])
               <= operational.capacity.max_state_bytes
    /\ operational.unacknowledged > 0 =>
           state_bytes + 1 + completion_reserve(active_fences,
                                 [operational EXCEPT !.unacknowledged = @ - 1])
               <= operational.capacity.max_state_bytes

\* The maintenance reserve is untouched: the state is one an administrative
\* command could have left.
ReserveUntouched ==
    state_bytes + completion_reserve(active_fences, operational) <= OrdinaryBytes

\* A drained activation in the log is not refused by the quota.
FencedSourceCanComplete ==
    \A p \in proposals :
        p.command.action.kind = "Activate" /\ ActivateOK(p) => WithinQuota(p)

\* Every replacement moves to a new epoch and no incarnation comes back: the
\* permanent incarnation records carry distinct epochs, the active one is the
\* newest.
EpochsNameIncarnations ==
    \A t \in Tenants :
        LET held == {i \in Incarnations : incarnations[t][i] # None}
        IN  /\ held # {} => tenant[t] # None
            /\ tenant[t] # None =>
                  /\ tenant[t].incarnation \in held
                  /\ incarnations[t][tenant[t].incarnation].epoch = tenant[t].authority_epoch
                  /\ tenant[t].authority_epoch = Cardinality(held)
            /\ \A i, j \in held :
                  incarnations[t][i].epoch = incarnations[t][j].epoch => i = j

\* StopTarget and Activate race through the log: a target incarnation that was
\* permanently stopped is never the one activated, before or after.
StoppedTargetNeverActivated ==
    \A t \in Tenants, i \in Incarnations :
        target_stops[t][i] # None => incarnations[t][i] = None

\* StopActivation settles an unknown activation for good: what it reported of
\* the original is what the original's own identity retains, and an original it
\* stopped activated nothing.
ActivationResolvedOnce ==
    \A k \in Ids :
        receipts[k] # None /\ receipts[k].outcome.kind = "ActivationResolved" =>
            LET o == receipts[k].outcome.original
            IN  /\ receipts[o.command.id] = o
                /\ o.outcome.kind = "ActivationStopped" =>
                      \A t \in Tenants, i \in Incarnations :
                          incarnations[t][i] # None =>
                              incarnations[t][i].receipt.command # o.command

\* Each fence admits one replacement of exactly the source it froze.
FenceConsumedOnce ==
    LET activated == {k \in Ids : receipts[k] # None /\ receipts[k].outcome.kind = "Activated"}
        fence(k) == receipts[k].command.action.fence
    IN  /\ \A j, k \in activated : fence(j) = fence(k) => j = k
        /\ \A k \in activated :
              /\ receipts[fence(k)] # None
              /\ receipts[fence(k)].outcome =
                    [kind |-> "Fenced", incarnation |-> receipts[k].outcome.target.checkpoint,
                     epoch |-> receipts[k].outcome.epoch - 1]
              /\ receipts[fence(k)].revision < receipts[k].revision

\* A target that was prepared is activated only as the preparation named it: on
\* the same nodes, from the same source, at the source's next epoch.
PreparationBinds ==
    \A t \in Tenants, i \in Incarnations :
        preparations[t][i] # None /\ incarnations[t][i] # None =>
            incarnations[t][i].receipt.outcome =
                [kind |-> "Activated", target |-> preparations[t][i].target,
                 epoch |-> preparations[t][i].epoch + 1]

\* A command admitted under a policy that was replaced before it was ordered
\* leaves no outcome: every outcome was ordered under the policy it names.
PolicyOrdered ==
    \A k \in Ids :
        receipts[k] # None /\ receipts[k].outcome.kind # "ActivationStopped" =>
            receipts[k].command.policy =
                1 + Cardinality({r \in Ids :
                        /\ receipts[r] # None
                        /\ receipts[r].outcome.kind = "AdministratorsReplaced"
                        /\ receipts[r].revision < receipts[k].revision})

\* The quota keeps what it reserved: its counters are exact, bytes and reserve
\* never exceed the capacity, an outstanding coverage dispatch can always be
\* permitted and acknowledged, and as long as maintenance and coverage have not
\* entered the maintenance reserve a drained activation is never refused, however
\* administrative commands and changes of capacity spent the rest.
FenceReserveKept ==
    /\ AccountingExact /\ CapacityHolds /\ CoverageCanComplete
    /\ ReserveUntouched => FencedSourceCanComplete

\* The history of a tenant never forks: each epoch names one incarnation, each
\* fence admits one replacement, each disputed activation has one outcome.
ReplacementNeverForks ==
    EpochsNameIncarnations /\ FenceConsumedOnce /\ ActivationResolvedOnce

\* What a command was admitted under is checked again where it is ordered: its
\* outcome agrees with the policy and with the preparation in force there.
EffectsAsOrdered == PolicyOrdered /\ PreparationBinds

----------------------------------------------------------------------------
(* Liveness *)

\* The leader process is restarted finitely often (leader changes are bounded
\* by MaxTerm), so some witness is not lost again.
StableLeader == <>[][~RestartLeader]_authorityVars

\* A retried activation of this fenced source that nothing ordered before it
\* has made impossible, by maintenance records that spent its room either.
Completable(t) ==
    \E c \in Retried :
        LET p == [command |-> c, drained |-> c.action.fence]
        IN  /\ c.tenant = t /\ c.policy = policy_epoch /\ receipts[c.id] = None
            /\ ActivateOK(p) /\ WithinQuota(p)

\* No fenced source stays frozen: under a stable leader, retrying the exact
\* activation completes the drain and is accepted, although leader changes,
\* clock regressions and restarts each threw the witness away before; only an
\* entry that rules the activation out, or takes the room it needs, ends the wait.
FenceEventuallyCompletes ==
    StableLeader => \A t \in Tenants : Fenced(t) ~> ~Fenced(t) \/ ~Completable(t)
=============================================================================
