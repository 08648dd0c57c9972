--------------------------- MODULE ServingProofs ---------------------------
(***************************************************************************)
(* The authority and the replicas it serves.                               *)
(*                                                                         *)
(* The reducer and its leader: the permanence of receipts, stops that      *)
(* cannot be overtaken, one replacement per fence, effects as the log      *)
(* orders them and the reserve for open fences, for every set of tenants,  *)
(* commands and principals, every quota and every bound.                   *)
(*                                                                         *)
(* The leases: two incarnations of a tenant never serve at once, whoever   *)
(* serves does so as activated, an observed stop is final, a closed gate   *)
(* stays closed, and all of it implements exclusive ownership              *)
(* (TenantOwner): for every number of processes, lease length, rate error  *)
(* and clock regression, and whatever commands, leader changes and crashes *)
(* lie in between.                                                         *)
(***************************************************************************)
EXTENDS Serving, FiniteSetTheorems, TLAPS

(* Ageing and require_drain_witness, for every map and every constant.     *)

\* The rates are positive: a clock within the bound always advances.
LEMMA RatePositive == RateLo \in Nat \ {0} /\ RateHi \in Nat /\ RateLo <= RateHi
BY DrainAssumption DEF RateLo, RateHi

\* The drain interval is a natural number of ticks, and so is the horizon.
LEMMA DrainNatural == drain_ms \in Nat /\ Horizon \in Nat /\ drain_ms <= Horizon
<1>1. MaxLease * RateHi \in Nat
  BY RatePositive, DrainAssumption
<1>2. drain_ms \in Nat
  <2>1. MaxLease * RateHi + RateLo - 1 \in Nat
    BY <1>1, RatePositive
  <2> QED
    BY <2>1, RatePositive DEF drain_ms
<1> QED
  BY <1>2, DrainAssumption DEF Horizon

\* Ageing moves every witness of the map by the same amount, up to the horizon.
LEMMA AgedIs ==
    ASSUME NEW d \in [Ids -> Witness \cup {None}], NEW b \in Int
    PROVE  /\ Aged(d, b) \in [Ids -> Witness \cup {None}]
           /\ \A k \in Ids : Aged(d, b)[k] # None <=> d[k] # None
           /\ \A k \in Ids : d[k] # None =>
                 Aged(d, b)[k].elapsed = AtMost(d[k].elapsed + b, Horizon)
<1> USE DrainNatural
<1>1. ASSUME NEW k \in Ids, d[k] = None PROVE Aged(d, b)[k] = None
  BY <1>1 DEF Aged
<1>2. ASSUME NEW k \in Ids, d[k] # None
      PROVE  /\ Aged(d, b)[k] \in Witness /\ Aged(d, b)[k] # None
             /\ Aged(d, b)[k].elapsed = AtMost(d[k].elapsed + b, Horizon)
  <2>1. d[k] \in Witness
    BY <1>2
  <2>2. Aged(d, b)[k] = [term |-> d[k].term,
                         elapsed |-> AtMost(d[k].elapsed + b, Horizon),
                         since |-> AtMost(d[k].since + b, Horizon)]
    BY <1>2, <2>1 DEF Aged, Witness
  <2>3. /\ AtMost(d[k].elapsed + b, Horizon) \in Int
        /\ AtMost(d[k].since + b, Horizon) \in Int
        /\ d[k].term \in Nat
    BY <2>1 DEF Witness, AtMost
  <2>4. Aged(d, b)[k] \in Witness
    BY <2>2, <2>3 DEF Witness
  <2> QED
    BY <2>2, <2>4, NoneAssumption
<1>3. Aged(d, b) = [k \in Ids |-> Aged(d, b)[k]]
  BY DEF Aged
<1> QED
  BY <1>1, <1>2, <1>3

\* The interval outlasts a lease: while the fastest issuer counts drain_ms, the
\* slowest client has used up MaxLease.
LEMMA DrainCovers == drain_ms * RateLo >= MaxLease * RateHi
<1> DEFINE n == MaxLease * RateHi + RateLo - 1
<1>1. n \in Nat
  BY RatePositive, DrainAssumption
<1>2. drain_ms = n \div RateLo
  BY DEF drain_ms
<1> DEFINE m == MaxLease * RateHi
<1>3. m \in Nat /\ n = m + RateLo - 1
  BY RatePositive, DrainAssumption
<1> HIDE DEF n, m
<1>4. \A x \in Nat, y \in Nat \ {0} : y * (x \div y) + y > x
  OBVIOUS
<1>5. RateLo * drain_ms + RateLo > n
  BY <1>1, <1>2, <1>4, RatePositive
<1>6. RateLo * drain_ms = drain_ms * RateLo /\ drain_ms * RateLo \in Int
  BY RatePositive, DrainNatural
<1>7. drain_ms * RateLo >= m
  BY <1>3, <1>5, <1>6, RatePositive
<1> QED
  BY <1>7 DEF m

\* What is left of a map after other terms and a regression were noticed: each
\* witness is kept as it was, or starts again, or is gone.
LEMMA ObservedIs ==
    ASSUME NEW d \in [Ids -> Witness \cup {None}], NEW t \in Nat
    PROVE  /\ Observed(d, t) \in [Ids -> Witness \cup {None}]
           /\ \A k \in Ids : Observed(d, t)[k] # None =>
                 /\ d[k] # None
                 /\ Observed(d, t)[k].elapsed \in {0, d[k].elapsed}
<1>1. ASSUME NEW k \in Ids, d[k] = None \/ d[k].term # t
      PROVE  Observed(d, t)[k] = None
  BY <1>1 DEF Observed
<1>2. ASSUME NEW k \in Ids, d[k] # None, d[k].term = t
      PROVE  /\ Observed(d, t)[k] \in Witness
             /\ Observed(d, t)[k].elapsed \in {0, d[k].elapsed}
  <2>1. d[k] \in Witness
    BY <1>2
  <2>2. Observed(d, t)[k] = [term |-> t,
            elapsed |-> IF d[k].since < 0 THEN 0 ELSE d[k].elapsed, since |-> 0]
    BY <1>2 DEF Observed
  <2> QED
    BY <2>1, <2>2 DEF Witness
<1>3. Observed(d, t) = [k \in Ids |-> Observed(d, t)[k]]
  BY DEF Observed
<1> QED
  BY <1>1, <1>2, <1>3

\* Starting a witness leaves the others alone and the started one at zero.
LEMMA StartedIs ==
    ASSUME NEW d \in [Ids -> Witness \cup {None}], NEW k \in Ids, NEW t \in Nat
    PROVE  /\ Started(d, k, t) \in [Ids -> Witness \cup {None}]
           /\ \A j \in Ids : \/ Started(d, k, t)[j] = d[j]
                             \/ j = k /\ Started(d, k, t)[j].elapsed = 0
<1>1. Fresh(t) \in Witness /\ Fresh(t).elapsed = 0
  BY DEF Fresh, Witness
<1>2. CASE d[k] # None
  BY <1>2 DEF Started
<1>3. CASE d[k] = None
  <2>1. Started(d, k, t) = [d EXCEPT ![k] = Fresh(t)]
    BY <1>3 DEF Started
  <2> QED
    BY <1>1, <2>1
<1> QED
  BY <1>2, <1>3

\* After require_drain_witness, a witness stands where it stood or at zero, and
\* it is either the requested one or was in the map before.
LEMMA RequireIs ==
    ASSUME NEW d \in [Ids -> Witness \cup {None}], NEW k \in Ids, NEW t \in Nat,
           NEW r \in RequireDrainWitness(d, k, t)
    PROVE  /\ r \in [Ids -> Witness \cup {None}]
           /\ \A j \in Ids : r[j] # None =>
                 \/ d[j] # None /\ r[j].elapsed \in {0, d[j].elapsed}
                 \/ j = k /\ r[j].elapsed = 0
<1> DEFINE seen == Observed(d, t)
<1>1. /\ seen \in [Ids -> Witness \cup {None}]
      /\ \A j \in Ids : seen[j] # None =>
            d[j] # None /\ seen[j].elapsed \in {0, d[j].elapsed}
  BY ObservedIs
<1>2. \/ r = Started(seen, k, t)
      \/ r = seen
      \/ \E e \in Ids : r = Started([seen EXCEPT ![e] = None], k, t)
  BY DEF RequireDrainWitness
<1> HIDE DEF seen
<1>3. CASE r = Started(seen, k, t)
  <2>1. /\ r \in [Ids -> Witness \cup {None}]
        /\ \A j \in Ids : r[j] = seen[j] \/ (j = k /\ r[j].elapsed = 0)
    BY <1>1, <1>3, StartedIs
  <2> QED
    BY <1>1, <2>1
<1>4. CASE r = seen
  BY <1>1, <1>4
<1>5. ASSUME NEW e \in Ids, r = Started([seen EXCEPT ![e] = None], k, t)
      PROVE  /\ r \in [Ids -> Witness \cup {None}]
             /\ \A j \in Ids : r[j] # None =>
                   \/ d[j] # None /\ r[j].elapsed \in {0, d[j].elapsed}
                   \/ j = k /\ r[j].elapsed = 0
  <2> DEFINE s == [seen EXCEPT ![e] = None]
  <2>1. /\ s \in [Ids -> Witness \cup {None}]
        /\ \A j \in Ids : s[j] # None => s[j] = seen[j]
    BY <1>1
  <2> HIDE DEF s
  <2>2. r = Started(s, k, t)
    BY <1>5 DEF s
  <2>3. /\ r \in [Ids -> Witness \cup {None}]
        /\ \A j \in Ids : r[j] = s[j] \/ (j = k /\ r[j].elapsed = 0)
    BY <2>1, <2>2, StartedIs
  <2> QED
    BY <1>1, <2>1, <2>3
<1> QED
  BY <1>2, <1>3, <1>4, <1>5

----------------------------------------------------------------------------
\* What AuthorityCommand::validate establishes of every command.
LEMMA CommandFacts ==
    ASSUME NEW c \in Commands
    PROVE  c.id \in Ids /\ c.tenant \in Tenants /\ c.action.kind \in Kinds /\ ValidCommand(c)
BY AuthorityAssumption

\* An Enroll names an incarnation and its nodes.
LEMMA EnrollFacts ==
    ASSUME NEW c \in Commands, c.action.kind = "Enroll"
    PROVE  c.action.incarnation \in Incarnations /\ c.action.nodes \in SUBSET Nodes
BY CommandFacts DEF ValidCommand

\* A Fence names an incarnation and its epoch.
LEMMA FenceFacts ==
    ASSUME NEW c \in Commands, c.action.kind = "Fence"
    PROVE  c.action.incarnation \in Incarnations /\ c.action.epoch \in Nat
BY CommandFacts DEF ValidCommand

\* A preparation or a stop names a source and a target.
LEMMA TargetFacts ==
    ASSUME NEW c \in Commands, c.action.kind \in {"PrepareTarget", "StopTarget"}
    PROVE  /\ c.action.source \in Incarnations /\ c.action.epoch \in Nat
           /\ c.action.target \in Targets
BY CommandFacts DEF ValidCommand

\* An Activate names the fence it completes and its target.
LEMMA ActivateFacts ==
    ASSUME NEW c \in Commands, c.action.kind = "Activate"
    PROVE  c.action.fence \in Ids /\ c.action.target \in Targets
BY CommandFacts DEF ValidCommand

\* A StopActivation names the activation it settles, which is another command.
LEMMA StopActivationFacts ==
    ASSUME NEW c \in Commands, c.action.kind = "StopActivation"
    PROVE  /\ c.action.original \in Commands
           /\ c.action.original.action.kind = "Activate"
           /\ c.action.original.id # c.id
BY CommandFacts DEF ValidCommand

\* A new policy has at least one administrator.
LEMMA ReplaceFacts ==
    ASSUME NEW c \in Commands, c.action.kind = "ReplaceAdministrators"
    PROVE  c.action.administrators \in (SUBSET Principals) \ {{}}
BY CommandFacts DEF ValidCommand

\* A target's parts.
LEMMA TargetParts ==
    ASSUME NEW x \in Targets
    PROVE  x.incarnation \in Incarnations /\ x.nodes \in SUBSET Nodes /\ x.checkpoint \in Incarnations
BY DEF Targets

----------------------------------------------------------------------------
(* Types *)

\* An activation's own receipt is plain, so resolving it nests one level only.
ActivationReceiptsPlain ==
    \A k \in Ids :
        receipts[k] # None /\ receipts[k].command.action.kind = "Activate" =>
            receipts[k].outcome \in PlainOutcomes

TypeInv == AuthorityTypeOK /\ ActivationReceiptsPlain

\* The empty state of a new partition is well typed.
LEMMA TypeInit == AuthorityInit => TypeInv
<1> SUFFICES ASSUME AuthorityInit PROVE TypeInv
  OBVIOUS
<1>1. MetaTypeOK
  BY AuthorityAssumption, CapacityAssumption DEF AuthorityInit, MetaTypeOK, OperationalStates
<1>2. RecordsTypeOK
  BY DEF AuthorityInit, RecordsTypeOK
<1>3. LogTypeOK /\ LeaderTypeOK
  BY AuthorityAssumption, DrainAssumption DEF AuthorityInit, LogTypeOK, LeaderTypeOK
<1>4. ActivationReceiptsPlain
  BY DEF AuthorityInit, ActivationReceiptsPlain
<1> QED
  BY <1>1, <1>2, <1>3, <1>4 DEF TypeInv, AuthorityTypeOK

\* A proposal's parts.
LEMMA ProposalFacts ==
    ASSUME LogTypeOK, NEW p \in proposals
    PROVE  /\ p.command \in Commands /\ p.principal \in Principals
           /\ p.term \in 1 .. MaxTerm /\ p.drained \in Ids \cup {None}
BY DEF LogTypeOK, Prepared

\* A retained receipt has the receipt's shape and is never mistaken for none.
LEMMA ReceiptIs ==
    ASSUME MetaTypeOK, LogTypeOK, NEW p \in proposals, NEW outcomes, NEW o \in outcomes
    PROVE  /\ Receipt(p, o) \in ReceiptsOf(outcomes)
           /\ Receipt(p, o).command = p.command /\ Receipt(p, o).outcome = o
           /\ Receipt(p, o).revision = revision + 1
<1>1. p.term \in Nat
  BY ProposalFacts, AuthorityAssumption
<1> QED
  BY <1>1, ProposalFacts DEF Receipt, ReceiptsOf, MetaTypeOK

\* Plain receipts are receipts.
LEMMA PlainIsReceipt ==
    ASSUME NEW r \in ReceiptsOf(PlainOutcomes)
    PROVE  r \in ReceiptsOf(Outcomes) /\ r # None
BY RecordAssumption DEF ReceiptsOf, Outcomes

\* A joint publication leaves meta, log and leader well typed.
LEMMA PublishTypes ==
    ASSUME TypeInv, NEW p \in proposals, NEW e, Effective(p, e), NEW retained,
           PublishWith(p, retained)
    PROVE  /\ revision' \in Nat /\ active_fences' \in Int /\ state_bytes' \in Nat
           /\ signing' = signing /\ operational' = operational
           /\ LogTypeOK' /\ LeaderTypeOK'
<1> USE DEF TypeInv, AuthorityTypeOK
<1>1. Growth(p) \in Nat
  BY DEF Growth
<1>2. FenceChange(p) \in Int
  BY DEF FenceChange
<1>3. revision' \in Nat /\ active_fences' \in Int /\ state_bytes' \in Nat
  BY <1>1, <1>2 DEF PublishWith, MetaTypeOK
<1>4. LogTypeOK'
  BY DEF PublishWith, Effective, LogTypeOK
<1>5. LeaderTypeOK'
  BY DEF PublishWith, LeaderTypeOK, leader
<1> QED
  BY <1>3, <1>4, <1>5 DEF PublishWith
\* Publishing one receipt under an unused identity keeps the receipts typed.
LEMMA PublishReceipts ==
    ASSUME TypeInv, NEW p \in proposals, NEW e, Effective(p, e),
           NEW o \in Outcomes, Publish(p, o),
           p.command.action.kind = "Activate" => o \in PlainOutcomes
    PROVE  /\ receipts' \in [Ids -> ReceiptsOf(Outcomes) \cup {None}]
           /\ ActivationReceiptsPlain'
<1> USE DEF TypeInv, AuthorityTypeOK
<1>1. /\ Receipt(p, o) \in ReceiptsOf(Outcomes)
      /\ Receipt(p, o).command = p.command /\ Receipt(p, o).outcome = o
  BY ReceiptIs
<1>2. p.command \in Commands /\ p.command.id \in Ids
  BY ProposalFacts, CommandFacts
<1>3. receipts' = [receipts EXCEPT ![p.command.id] = Receipt(p, o)]
  BY DEF Publish, PublishWith
<1> HIDE DEF TypeInv
<1>4. receipts \in [Ids -> ReceiptsOf(Outcomes) \cup {None}]
  BY DEF TypeInv, RecordsTypeOK
<1>5. ActivationReceiptsPlain
  BY DEF TypeInv
<1> QED
  BY <1>1, <1>2, <1>3, <1>4, <1>5 DEF ActivationReceiptsPlain

\* Enrolling a tenant keeps the types.
LEMMA TypeEnroll ==
    ASSUME TypeInv, NEW p \in proposals, NEW e, ApplyEnroll(p, e) PROVE TypeInv'
<1> USE DEF TypeInv, AuthorityTypeOK
<1> DEFINE c == p.command
           o == [kind |-> "Enrolled", incarnation |-> c.action.incarnation, epoch |-> 1]
<1>1. /\ Effective(p, e) /\ c.action.kind = "Enroll" /\ Publish(p, o)
      /\ c \in Commands /\ c.id \in Ids /\ c.tenant \in Tenants
  BY ProposalFacts, CommandFacts DEF ApplyEnroll
<1>2. c.action.incarnation \in Incarnations /\ c.action.nodes \in SUBSET Nodes
  BY <1>1, EnrollFacts
<1>3. o \in PlainOutcomes /\ o \in Outcomes
  BY <1>2 DEF PlainOutcomes, Outcomes
<1>4. MetaTypeOK' /\ LogTypeOK' /\ LeaderTypeOK'
  BY <1>1, PublishTypes DEF Publish, ApplyEnroll, MetaTypeOK
<1>5. receipts' \in [Ids -> ReceiptsOf(Outcomes) \cup {None}] /\ ActivationReceiptsPlain'
  BY <1>1, <1>3, PublishReceipts
<1>6. Receipt(p, o) \in ReceiptsOf(PlainOutcomes)
  BY <1>3, ReceiptIs
<1>7. tenant' \in [Tenants -> TenantRecords \cup {None}]
  BY <1>1, <1>2 DEF ApplyEnroll, RecordsTypeOK, TenantRecords
<1>8. incarnations' \in [Tenants -> [Incarnations -> IncarnationRecords \cup {None}]]
  BY <1>1, <1>2, <1>6 DEF ApplyEnroll, RecordsTypeOK, IncarnationRecords
<1>9. preparations' = preparations /\ target_stops' = target_stops
  BY DEF ApplyEnroll
<1> QED
  BY <1>4, <1>5, <1>7, <1>8, <1>9 DEF RecordsTypeOK

\* Fencing the active source keeps the types.
LEMMA TypeFence ==
    ASSUME TypeInv, NEW p \in proposals, NEW e, ApplyFence(p, e) PROVE TypeInv'
<1> USE DEF TypeInv, AuthorityTypeOK
<1> DEFINE c == p.command
           o == [kind |-> "Fenced", incarnation |-> c.action.incarnation,
                 epoch |-> c.action.epoch]
<1>1. /\ Effective(p, e) /\ c.action.kind = "Fence" /\ Publish(p, o) /\ FenceOK(c)
      /\ c \in Commands /\ c.id \in Ids /\ c.tenant \in Tenants
  BY ProposalFacts, CommandFacts DEF ApplyFence
<1>2. o \in Outcomes
  BY <1>1, FenceFacts DEF PlainOutcomes, Outcomes
<1>3. MetaTypeOK' /\ LogTypeOK' /\ LeaderTypeOK'
  BY <1>1, PublishTypes DEF Publish, ApplyFence, MetaTypeOK
<1>4. receipts' \in [Ids -> ReceiptsOf(Outcomes) \cup {None}] /\ ActivationReceiptsPlain'
  BY <1>1, <1>2, PublishReceipts
<1>5. tenant[c.tenant] \in TenantRecords
  BY <1>1 DEF FenceOK, IsCurrent, RecordsTypeOK
<1>6. tenant' \in [Tenants -> TenantRecords \cup {None}]
  <2>1. [tenant[c.tenant] EXCEPT !.fence = c.id] \in TenantRecords
    BY <1>1, <1>5 DEF TenantRecords
  <2>2. tenant' = [tenant EXCEPT ![c.tenant] = [tenant[c.tenant] EXCEPT !.fence = c.id]]
    BY <1>1 DEF ApplyFence, RecordsTypeOK
  <2> QED
    BY <1>1, <2>1, <2>2 DEF RecordsTypeOK
<1>7. UNCHANGED <<preparations, incarnations, target_stops>>
  BY DEF ApplyFence
<1> QED
  BY <1>3, <1>4, <1>6, <1>7 DEF RecordsTypeOK

\* Preparing a target keeps the types.
LEMMA TypePrepare ==
    ASSUME TypeInv, NEW p \in proposals, NEW e, ApplyPrepareTarget(p, e) PROVE TypeInv'
<1> USE DEF TypeInv, AuthorityTypeOK
<1> DEFINE c == p.command
           a == c.action
           o == [kind |-> "TargetPrepared", target |-> a.target, epoch |-> a.epoch + 1]
<1>1. /\ Effective(p, e) /\ a.kind = "PrepareTarget" /\ Publish(p, o)
      /\ c \in Commands /\ c.id \in Ids /\ c.tenant \in Tenants
  BY ProposalFacts, CommandFacts DEF ApplyPrepareTarget
<1>2. a.source \in Incarnations /\ a.epoch \in Nat /\ a.target \in Targets
  BY <1>1, TargetFacts
<1>3. o \in PlainOutcomes /\ o \in Outcomes
  BY <1>2 DEF PlainOutcomes, Outcomes
<1>4. MetaTypeOK' /\ LogTypeOK' /\ LeaderTypeOK'
  BY <1>1, PublishTypes DEF Publish, ApplyPrepareTarget, MetaTypeOK
<1>5. receipts' \in [Ids -> ReceiptsOf(Outcomes) \cup {None}] /\ ActivationReceiptsPlain'
  BY <1>1, <1>3, PublishReceipts
<1>6. Receipt(p, o) \in ReceiptsOf(PlainOutcomes)
  BY <1>3, ReceiptIs
<1>7. preparations' \in [Tenants -> [Incarnations -> PreparationRecords \cup {None}]]
  BY <1>1, <1>2, <1>6, TargetParts DEF ApplyPrepareTarget, RecordsTypeOK, PreparationRecords
<1>8. UNCHANGED <<tenant, incarnations, target_stops>>
  BY DEF ApplyPrepareTarget
<1> QED
  BY <1>4, <1>5, <1>7, <1>8 DEF RecordsTypeOK

\* Activating a target keeps the types.
LEMMA TypeActivate ==
    ASSUME TypeInv, NEW p \in proposals, NEW e, ApplyActivate(p, e) PROVE TypeInv'
<1> USE DEF TypeInv, AuthorityTypeOK
<1> DEFINE c == p.command
           a == c.action
           n == tenant[c.tenant].authority_epoch + 1
           o == [kind |-> "Activated", target |-> a.target, epoch |-> n]
<1>1. /\ Effective(p, e) /\ a.kind = "Activate" /\ Publish(p, o) /\ ActivateOK(p)
      /\ c \in Commands /\ c.id \in Ids /\ c.tenant \in Tenants
  BY ProposalFacts, CommandFacts DEF ApplyActivate
<1>2. a.target \in Targets /\ n \in Nat
  <2>1. tenant[c.tenant] \in TenantRecords
    BY <1>1 DEF ActivateOK, Fenced, RecordsTypeOK
  <2> QED
    BY <1>1, <2>1, ActivateFacts DEF TenantRecords
<1>3. o \in PlainOutcomes /\ o \in Outcomes
  BY <1>2 DEF PlainOutcomes, Outcomes
<1>4. MetaTypeOK' /\ LogTypeOK' /\ LeaderTypeOK'
  BY <1>1, PublishTypes DEF Publish, ApplyActivate, MetaTypeOK
<1>5. receipts' \in [Ids -> ReceiptsOf(Outcomes) \cup {None}] /\ ActivationReceiptsPlain'
  BY <1>1, <1>3, PublishReceipts
<1>6. Receipt(p, o) \in ReceiptsOf(PlainOutcomes)
  BY <1>3, ReceiptIs
<1>7. tenant' \in [Tenants -> TenantRecords \cup {None}]
  BY <1>1, <1>2, TargetParts DEF ApplyActivate, RecordsTypeOK, TenantRecords
<1>8. incarnations' \in [Tenants -> [Incarnations -> IncarnationRecords \cup {None}]]
  BY <1>1, <1>2, <1>6, TargetParts DEF ApplyActivate, RecordsTypeOK, IncarnationRecords
<1>9. UNCHANGED <<preparations, target_stops>>
  BY DEF ApplyActivate
<1> QED
  BY <1>4, <1>5, <1>7, <1>8, <1>9 DEF RecordsTypeOK

\* Stopping a target keeps the types, on each of its three accepted outcomes.
LEMMA TypeStopTarget ==
    ASSUME TypeInv, NEW p \in proposals, NEW e, ApplyStopTarget(p, e) PROVE TypeInv'
<1> USE DEF TypeInv, AuthorityTypeOK
<1> DEFINE c == p.command
           i == c.action.target.incarnation
<1>1. /\ Effective(p, e) /\ c.action.kind = "StopTarget"
      /\ c \in Commands /\ c.id \in Ids /\ c.tenant \in Tenants
      /\ UNCHANGED <<administrators, policy_epoch, tenant, preparations, incarnations>>
  BY ProposalFacts, CommandFacts DEF ApplyStopTarget
<1>2. /\ c.action.source \in Incarnations /\ c.action.epoch \in Nat
      /\ c.action.target \in Targets /\ i \in Incarnations
  BY <1>1, TargetFacts, TargetParts
<1>3. StopOutcome(c) \in PlainOutcomes /\ StopOutcome(c) \in Outcomes
  BY <1>2 DEF StopOutcome, PlainOutcomes, Outcomes
<1>4. ASSUME NEW o \in Outcomes, Publish(p, o),
             target_stops' \in [Tenants -> [Incarnations ->
                                   ReceiptsOf(PlainOutcomes) \cup {None}]]
      PROVE  TypeInv'
  <2>1. MetaTypeOK' /\ LogTypeOK' /\ LeaderTypeOK'
    BY <1>1, <1>4, PublishTypes DEF Publish, MetaTypeOK
  <2>2. receipts' \in [Ids -> ReceiptsOf(Outcomes) \cup {None}] /\ ActivationReceiptsPlain'
    BY <1>1, <1>4, PublishReceipts
  <2> QED
    BY <1>1, <1>4, <2>1, <2>2 DEF RecordsTypeOK
<1>5. CASE /\ AlreadyActivated(c) /\ UNCHANGED target_stops
           /\ Publish(p, [kind |-> "TargetAlreadyActivated",
                          original |-> incarnations[c.tenant][i].receipt])
  <2>1. incarnations[c.tenant][i].receipt \in ReceiptsOf(PlainOutcomes)
    <3>1. incarnations[c.tenant][i] # None
      BY <1>5 DEF AlreadyActivated
    <3>2. incarnations[c.tenant][i] \in
              IncarnationRecords \cup {None}
      BY <1>1, <1>2 DEF RecordsTypeOK
    <3> QED
      BY <3>1, <3>2 DEF IncarnationRecords
  <2>2. [kind |-> "TargetAlreadyActivated", original |-> incarnations[c.tenant][i].receipt]
            \in Outcomes
    BY <2>1 DEF Outcomes
  <2> QED
    BY <1>4, <1>5, <2>2 DEF RecordsTypeOK
<1>6. CASE AlreadyStopped(c) /\ Publish(p, StopOutcome(c)) /\ UNCHANGED target_stops
  BY <1>3, <1>4, <1>6 DEF RecordsTypeOK
<1>7. CASE /\ StopTargetOK(c) /\ Publish(p, StopOutcome(c))
           /\ target_stops' = [target_stops EXCEPT ![c.tenant][i] =
                                  Receipt(p, StopOutcome(c))]
  <2>1. Receipt(p, StopOutcome(c)) \in ReceiptsOf(PlainOutcomes)
    BY <1>3, ReceiptIs
  <2>2. target_stops' \in [Tenants -> [Incarnations -> ReceiptsOf(PlainOutcomes) \cup {None}]]
    BY <1>1, <1>2, <1>7, <2>1 DEF RecordsTypeOK
  <2> QED
    BY <1>3, <1>4, <1>7, <2>2
<1> QED
  BY <1>5, <1>6, <1>7 DEF ApplyStopTarget

\* What a StopActivation reports of its original is that activation's own plain
\* receipt, whether it was retained before or is written now.
LEMMA OriginalIs ==
    ASSUME TypeInv, NEW p \in proposals, p.command.action.kind = "StopActivation",
           StopActivationOK(p.command)
    PROVE  LET o == p.command.action.original
               original == IF receipts[o.id] # None THEN receipts[o.id] ELSE Stopped(p)
           IN  /\ original \in ReceiptsOf(PlainOutcomes) /\ original.command = o
               /\ o \in Commands /\ o.id \in Ids /\ o.id # p.command.id
<1> DEFINE o == p.command.action.original
<1> USE DEF TypeInv, AuthorityTypeOK
<1>1. /\ o \in Commands /\ o.action.kind = "Activate" /\ o.id # p.command.id /\ o.id \in Ids
  BY ProposalFacts, CommandFacts, StopActivationFacts
<1>2. CASE receipts[o.id] # None
  <2>1. receipts[o.id].command = o /\ receipts[o.id] \in ReceiptsOf(Outcomes)
    BY <1>1, <1>2 DEF StopActivationOK, RecordsTypeOK
  <2>2. receipts[o.id].outcome \in PlainOutcomes
    BY <1>1, <1>2, <2>1 DEF ActivationReceiptsPlain
  <2>3. receipts[o.id] \in ReceiptsOf(PlainOutcomes)
    BY <2>1, <2>2 DEF ReceiptsOf
  <2> QED
    BY <1>1, <1>2, <2>1, <2>3
<1>3. CASE receipts[o.id] = None
  <2> DEFINE r == Receipt(p, [kind |-> "ActivationStopped"])
  <2>1. [kind |-> "ActivationStopped"] \in PlainOutcomes
    BY DEF PlainOutcomes
  <2>2. r \in ReceiptsOf(PlainOutcomes)
    BY <2>1, ReceiptIs
  <2>3. Stopped(p) = [r EXCEPT !.command = o]
    BY DEF Stopped
  <2> HIDE DEF r
  <2>4. Stopped(p) \in ReceiptsOf(PlainOutcomes) /\ Stopped(p).command = o
    BY <1>1, <2>2, <2>3 DEF ReceiptsOf
  <2> QED
    BY <1>1, <1>3, <2>4
<1> QED
  BY <1>2, <1>3

\* Settling an activation keeps the types although it writes two receipts.
LEMMA TypeStopActivation ==
    ASSUME TypeInv, NEW p \in proposals, NEW e, ApplyStopActivation(p, e) PROVE TypeInv'
<1> USE DEF TypeInv, AuthorityTypeOK
<1> DEFINE c == p.command
           o == c.action.original
           original == IF receipts[o.id] # None THEN receipts[o.id] ELSE Stopped(p)
           resolved == [kind |-> "ActivationResolved", original |-> original]
<1>1. /\ Effective(p, e) /\ c.action.kind = "StopActivation" /\ StopActivationOK(c)
      /\ PublishWith(p, [receipts EXCEPT ![o.id] = original, ![c.id] = Receipt(p, resolved)])
      /\ UNCHANGED <<administrators, policy_epoch, tenant, preparations, incarnations,
                     target_stops>>
      /\ c \in Commands /\ c.id \in Ids
  BY ProposalFacts, CommandFacts DEF ApplyStopActivation
<1>2. /\ original \in ReceiptsOf(PlainOutcomes) /\ original.command = o
      /\ o \in Commands /\ o.id \in Ids /\ o.id # c.id
  BY <1>1, OriginalIs
<1>3. receipts' = [receipts EXCEPT ![o.id] = original, ![c.id] = Receipt(p, resolved)]
  BY <1>1 DEF PublishWith
<1>4. MetaTypeOK' /\ LogTypeOK' /\ LeaderTypeOK'
  BY <1>1, PublishTypes DEF MetaTypeOK
<1> HIDE DEF original
<1>5. resolved \in Outcomes
  BY <1>2 DEF Outcomes
<1> HIDE DEF resolved
<1>6. /\ Receipt(p, resolved) \in ReceiptsOf(Outcomes)
      /\ Receipt(p, resolved).command = c
  BY <1>5, ReceiptIs
<1>7. original \in ReceiptsOf(Outcomes) /\ original.outcome \in PlainOutcomes
  BY <1>2, PlainIsReceipt DEF ReceiptsOf
<1>8. receipts \in [Ids -> ReceiptsOf(Outcomes) \cup {None}]
  BY DEF RecordsTypeOK
<1>9. receipts' \in [Ids -> ReceiptsOf(Outcomes) \cup {None}]
  BY <1>1, <1>2, <1>3, <1>6, <1>7, <1>8
<1>10. ActivationReceiptsPlain'
  <2> SUFFICES ASSUME NEW k \in Ids, receipts'[k] # None,
                      receipts'[k].command.action.kind = "Activate"
               PROVE  receipts'[k].outcome \in PlainOutcomes
    BY DEF ActivationReceiptsPlain
  <2>1. CASE k = c.id
    BY <1>1, <1>3, <1>6, <1>8, <2>1
  <2>2. CASE k # c.id /\ k = o.id
    BY <1>2, <1>3, <1>7, <1>8, <2>2
  <2>3. CASE k # c.id /\ k # o.id
    BY <1>3, <1>8, <2>3 DEF ActivationReceiptsPlain
  <2> QED
    BY <2>1, <2>2, <2>3
<1> QED
  BY <1>1, <1>4, <1>9, <1>10 DEF RecordsTypeOK

\* Replacing the administrators keeps the types.
LEMMA TypeReplace ==
    ASSUME TypeInv, NEW p \in proposals, NEW e, ApplyReplaceAdministrators(p, e)
    PROVE  TypeInv'
<1> USE DEF TypeInv, AuthorityTypeOK
<1> DEFINE o == [kind |-> "AdministratorsReplaced", epoch |-> policy_epoch + 1]
<1>1. /\ Effective(p, e) /\ Publish(p, o)
      /\ p.command.action.kind = "ReplaceAdministrators"
      /\ p.command.action.administrators \in (SUBSET Principals) \ {{}}
  BY ProposalFacts, ReplaceFacts DEF ApplyReplaceAdministrators
<1>2. o \in Outcomes
  BY DEF PlainOutcomes, Outcomes, MetaTypeOK
<1>3. MetaTypeOK' /\ LogTypeOK' /\ LeaderTypeOK'
  BY <1>1, PublishTypes DEF Publish, ApplyReplaceAdministrators, MetaTypeOK
<1>4. receipts' \in [Ids -> ReceiptsOf(Outcomes) \cup {None}] /\ ActivationReceiptsPlain'
  BY <1>1, <1>2, PublishReceipts
<1> QED
  BY <1>3, <1>4 DEF ApplyReplaceAdministrators, RecordsTypeOK

\* Retaining a rejection keeps the types.
LEMMA TypeRejected ==
    ASSUME TypeInv, NEW p \in proposals, NEW e, ApplyRejected(p, e) PROVE TypeInv'
<1> USE DEF TypeInv, AuthorityTypeOK
<1> DEFINE o == [kind |-> "Rejected"]
<1>1. Effective(p, e) /\ Publish(p, o)
  BY DEF ApplyRejected
<1>2. o \in Outcomes /\ o \in PlainOutcomes
  BY DEF PlainOutcomes, Outcomes
<1>3. MetaTypeOK' /\ LogTypeOK' /\ LeaderTypeOK'
  BY <1>1, PublishTypes DEF Publish, ApplyRejected, MetaTypeOK
<1>4. receipts' \in [Ids -> ReceiptsOf(Outcomes) \cup {None}] /\ ActivationReceiptsPlain'
  BY <1>1, <1>2, PublishReceipts
<1> QED
  BY <1>3, <1>4 DEF ApplyRejected, RecordsTypeOK

\* An entry without effect, and the log's own steps, keep the types.
LEMMA TypeLog ==
    ASSUME TypeInv,
           \/ \E p \in proposals, e \in 1 .. MaxTerm : ApplyWithoutEffect(p, e)
           \/ \E p \in proposals : LoseProposal(p)
           \/ ApplyMetadata \/ ChangeTerm
    PROVE  TypeInv'
<1> USE DEF TypeInv, AuthorityTypeOK
<1>1. UNCHANGED <<signing, administrators, policy_epoch, active_fences, state_bytes, operational>>
  BY DEF ApplyWithoutEffect, LoseProposal, ApplyMetadata, ChangeTerm, meta
<1>2. UNCHANGED <<tenant, receipts, preparations, incarnations, target_stops, drains, regressed>>
  BY DEF ApplyWithoutEffect, LoseProposal, ApplyMetadata, ChangeTerm, records, leader
<1>3. revision' \in Nat
  BY DEF ApplyWithoutEffect, LoseProposal, ApplyMetadata, ChangeTerm, meta, MetaTypeOK
<1>4. LogTypeOK'
  BY AuthorityAssumption
     DEF ApplyWithoutEffect, LoseProposal, ApplyMetadata, ChangeTerm, LogTypeOK
<1>5. MetaTypeOK' /\ LeaderTypeOK'
  BY <1>1, <1>2, <1>3 DEF MetaTypeOK, LeaderTypeOK
<1>6. RecordsTypeOK' /\ ActivationReceiptsPlain'
  BY <1>2 DEF RecordsTypeOK, ActivationReceiptsPlain
<1> QED
  BY <1>4, <1>5, <1>6

\* Admission appends well-formed proposals.
LEMMA TypePropose ==
    ASSUME LogTypeOK, NEW c \in Commands, NEW a \in Principals, NEW d \in Ids \cup {None},
           Propose(c, a, d), UNCHANGED <<term, applied_term>>
    PROVE  LogTypeOK'
BY DEF Propose, LogTypeOK, Prepared

\* The leader's own steps keep the types.
LEMMA TypeLeader ==
    ASSUME TypeInv,
           \/ RestartLeader \/ IssuerTick
           \/ \E c \in Commands, a \in Principals :
                 Execute(c, a) \/ ExecuteActivate(c, a) \/ AwaitFenceDrain(c, a)
           \/ \E j \in 1 .. MaxRegression : IssuerClockRegresses(j)
    PROVE  TypeInv'
<1> USE DEF TypeInv, AuthorityTypeOK
<1>1. UNCHANGED <<meta, records>>
  BY DEF RestartLeader, IssuerTick, Execute, ExecuteActivate, AwaitFenceDrain,
         WitnessFence, IssuerClockRegresses
<1>2. RecordsTypeOK' /\ ActivationReceiptsPlain'
  BY <1>1 DEF records, RecordsTypeOK, ActivationReceiptsPlain
<1>3. CASE RestartLeader
  BY <1>1, <1>2, <1>3 DEF RestartLeader, meta, log, MetaTypeOK, LogTypeOK, LeaderTypeOK
<1>5. CASE IssuerTick
  <2>1. PICK b \in Advance : drains' = Aged(drains, b)
    BY <1>5 DEF IssuerTick
  <2>2. b \in Int
    BY RatePositive DEF Advance
  <2>3. LeaderTypeOK'
    BY <1>5, <2>1, <2>2, AgedIs DEF IssuerTick, LeaderTypeOK
  <2> QED
    BY <1>1, <1>2, <1>5, <2>3 DEF IssuerTick, meta, log, MetaTypeOK, LogTypeOK
<1>6. ASSUME NEW j \in 1 .. MaxRegression, IssuerClockRegresses(j) PROVE TypeInv'
  <2>1. LeaderTypeOK'
    BY <1>6, AgedIs, DrainAssumption DEF IssuerClockRegresses, LeaderTypeOK
  <2> QED
    BY <1>1, <1>2, <1>6, <2>1 DEF IssuerClockRegresses, meta, log, MetaTypeOK, LogTypeOK
<1>7. ASSUME NEW c \in Commands, NEW a \in Principals, Execute(c, a) PROVE TypeInv'
  <2>1. LogTypeOK'
    BY <1>7, TypePropose DEF Execute
  <2> QED
    BY <1>1, <1>2, <1>7, <2>1 DEF Execute, meta, leader, MetaTypeOK, LeaderTypeOK
<1>8. ASSUME NEW c \in Commands, NEW a \in Principals, WitnessFence(c, a)
      PROVE  LeaderTypeOK' /\ MetaTypeOK' /\ c.action.fence \in Ids
  <2>1. c.action.fence \in Ids /\ term \in Nat
    BY <1>8, ActivateFacts, AuthorityAssumption DEF WitnessFence, LogTypeOK
  <2>2. drains' \in [Ids -> Witness \cup {None}]
    BY <1>8, <2>1, RequireIs DEF WitnessFence, LeaderTypeOK
  <2> QED
    BY <1>1, <1>8, <2>1, <2>2 DEF WitnessFence, meta, MetaTypeOK, LeaderTypeOK
<1>9. ASSUME NEW c \in Commands, NEW a \in Principals, ExecuteActivate(c, a) PROVE TypeInv'
  <2>1. WitnessFence(c, a) /\ UNCHANGED <<term, applied_term>>
    BY <1>9 DEF ExecuteActivate, WitnessFence
  <2>2. LogTypeOK'
    BY <1>8, <1>9, <2>1, TypePropose DEF ExecuteActivate
  <2> QED
    BY <1>2, <1>8, <2>1, <2>2
<1>10. ASSUME NEW c \in Commands, NEW a \in Principals, AwaitFenceDrain(c, a) PROVE TypeInv'
  <2>1. WitnessFence(c, a) /\ UNCHANGED <<term, applied_term, proposals>>
    BY <1>10 DEF AwaitFenceDrain, WitnessFence
  <2>2. LogTypeOK'
    BY <2>1 DEF LogTypeOK
  <2> QED
    BY <1>2, <1>8, <2>1, <2>2
<1> QED
  BY <1>3, <1>5, <1>6, <1>7, <1>9, <1>10

\* What an operational entry may do: it adds the records it is charged for and
\* stays within the capacity it leaves, whose tenants fit.
Operated ==
    /\ UNCHANGED <<administrators, policy_epoch, active_fences, records, log, leader>>
    /\ revision' = revision + 1
    /\ operational' \in OperationalStates
    /\ state_bytes' \in Nat
    /\ state_bytes' - operational'.records = state_bytes - operational.records
    /\ state_bytes' + completion_reserve(active_fences, operational')
           <= operational'.capacity.max_state_bytes

\* The bound of an operational entry is one on what it leaves.
LEMMA PublishOperationalIs ==
    ASSUME MetaTypeOK, NEW growth \in Nat, NEW next \in OperationalStates,
           next.records = operational.records, NEW spare \in Nat,
           PublishOperational(growth, next, spare)
    PROVE  Operated /\ operational'.capacity = next.capacity
<1>1. /\ state_bytes \in Nat /\ active_fences \in Int /\ operational.records \in Nat
      /\ next.unacknowledged \in Nat /\ next.unpermitted \in Nat
      /\ next.capacity.max_state_bytes \in Nat
  BY CapacityAssumption DEF MetaTypeOK, OperationalStates
<1>2. /\ operational' = [next EXCEPT !.records = next.records + growth]
      /\ state_bytes' = state_bytes + growth
  BY DEF PublishOperational
<1>3. /\ operational' \in OperationalStates /\ operational'.records = next.records + growth
      /\ operational'.capacity = next.capacity
      /\ operational'.unacknowledged = next.unacknowledged
      /\ operational'.unpermitted = next.unpermitted
  BY <1>1, <1>2 DEF OperationalStates
<1>4. /\ UNCHANGED <<administrators, policy_epoch, active_fences, records, log, leader>>
      /\ revision' = revision + 1
      /\ state_bytes + growth + completion_reserve(active_fences, next) + spare
             <= next.capacity.max_state_bytes
  BY DEF PublishOperational
<1>5. completion_reserve(active_fences, operational') = completion_reserve(active_fences, next)
  BY <1>3 DEF completion_reserve
<1>6. completion_reserve(active_fences, next) \in Int
  BY <1>1 DEF completion_reserve
<1>7. state_bytes' + completion_reserve(active_fences, operational')
          <= operational'.capacity.max_state_bytes
  BY <1>1, <1>2, <1>3, <1>4, <1>5, <1>6
<1> QED
  BY <1>1, <1>2, <1>3, <1>4, <1>7 DEF Operated

\* A maintenance entry is an operational entry.
LEMMA ReduceMaintenanceIs ==
    ASSUME MetaTypeOK, NEW growth \in Nat, NEW next \in OperationalStates,
           next.records = operational.records, reduce_maintenance(growth, next)
    PROVE  Operated /\ operational'.capacity = next.capacity
BY PublishOperationalIs DEF reduce_maintenance

\* So is a coverage entry.
LEMMA ReduceCoverageIs ==
    ASSUME MetaTypeOK, NEW growth \in Nat, NEW next \in OperationalStates,
           next.records = operational.records, reduce_coverage(growth, next)
    PROVE  Operated /\ operational'.capacity = next.capacity
BY PublishOperationalIs DEF reduce_coverage

\* Every maintenance and coverage entry respects its bound; only SetCapacity
\* changes the capacity, to one whose tenants fit.
LEMMA OperationalIs ==
    ASSUME MetaTypeOK, ApplyOperational
    PROVE  /\ Operated
           /\ \/ operational'.capacity = operational.capacity
              \/ Cardinality({t \in Tenants : tenant[t] # None})
                     <= operational'.capacity.max_tenants
           /\ signing' \in [generation : Nat, phase : {"Steady", "Staged", "Retiring"}]
<1>1. operational \in OperationalStates /\ signing \in
        [generation : Nat, phase : {"Steady", "Staged", "Retiring"}]
  BY DEF MetaTypeOK
<1> DEFINE At(phase) == [operational EXCEPT !.pending = phase]
<1>2. \A phase \in {None, "Prepared", "Dispatched", "Draining"} :
        /\ At(phase) \in OperationalStates /\ At(phase).records = operational.records
        /\ At(phase).capacity = operational.capacity
  BY <1>1 DEF OperationalStates
<1>3. CASE BeginMaintenance
  <2>1. reduce_maintenance(1, At("Prepared")) /\ signing' = signing
    BY <1>3 DEF BeginMaintenance
  <2> QED
    BY <1>1, <1>2, <2>1, ReduceMaintenanceIs
<1>4. CASE CompleteAtOnce
  BY <1>1, <1>4, ReduceMaintenanceIs DEF CompleteAtOnce
<1>5. CASE AdvanceMaintenance
  <2>1. signing' = signing /\ \E g \in Nat, phase \in {None, "Dispatched", "Draining"} :
            reduce_maintenance(g, At(phase))
    BY <1>5 DEF AdvanceMaintenance
  <2> QED
    BY <1>1, <1>2, <2>1, ReduceMaintenanceIs
<1>6. ASSUME NEW c \in Capacities, SetCapacity(c)
      PROVE  Operated /\ signing' = signing
             /\ Cardinality({t \in Tenants : tenant[t] # None})
                    <= operational'.capacity.max_tenants
  <2> DEFINE next == [operational EXCEPT !.capacity = c]
  <2>1. next \in OperationalStates /\ next.records = operational.records /\ next.capacity = c
    BY <1>1 DEF OperationalStates
  <2>2. /\ reduce_maintenance(1, next) /\ signing' = signing
        /\ Cardinality({t \in Tenants : tenant[t] # None}) <= c.max_tenants
    BY <1>6 DEF SetCapacity
  <2>3. Operated /\ operational'.capacity = c
    BY <2>1, <2>2, ReduceMaintenanceIs
  <2> QED
    BY <2>2, <2>3
<1>7. CASE StageSignerGeneration
  <2>1. signing' = [signing EXCEPT !.phase = "Staged"] /\ reduce_maintenance(2, operational)
    BY <1>7 DEF StageSignerGeneration
  <2> QED
    BY <1>1, <2>1, ReduceMaintenanceIs
<1>8. CASE ActivateSignerGeneration
  <2>1. /\ signing' = [generation |-> signing.generation + 1, phase |-> "Retiring"]
        /\ reduce_maintenance(1, operational)
    BY <1>8 DEF ActivateSignerGeneration
  <2> QED
    BY <1>1, <2>1, ReduceMaintenanceIs
<1>9. CASE PermitCoverage
  <2> DEFINE next == [operational EXCEPT !.unpermitted = operational.unpermitted - 1]
  <2>1. reduce_maintenance(2, next) /\ signing' = signing /\ operational.unpermitted > 0
    BY <1>9 DEF PermitCoverage
  <2>2. /\ next \in OperationalStates /\ next.records = operational.records
        /\ next.capacity = operational.capacity
    BY <1>1, <2>1 DEF OperationalStates
  <2> QED
    BY <1>1, <2>1, <2>2, ReduceMaintenanceIs
<1>10. CASE BeginCoverage
  <2> DEFINE one == [operational EXCEPT !.unacknowledged = operational.unacknowledged + 1,
                                        !.unpermitted = operational.unpermitted + 1]
             two == [operational EXCEPT !.unacknowledged = operational.unacknowledged + 1]
  <2>1. (reduce_coverage(2, one) \/ reduce_coverage(3, two)) /\ signing' = signing
    BY <1>10 DEF BeginCoverage
  <2>2. /\ two \in OperationalStates /\ two.records = operational.records
        /\ two.capacity = operational.capacity /\ two.unpermitted = operational.unpermitted
    BY <1>1 DEF OperationalStates
  <2>3. one = [two EXCEPT !.unpermitted = operational.unpermitted + 1]
    BY <1>1, Zenon
  <2> HIDE DEF one, two
  <2>4. operational.unpermitted + 1 \in Nat
    BY <1>1 DEF OperationalStates
  <2>5. /\ one \in OperationalStates /\ one.records = operational.records
        /\ one.capacity = operational.capacity
    BY <2>2, <2>3, <2>4 DEF OperationalStates
  <2>6. Operated /\ operational'.capacity = operational.capacity
    BY <2>1, <2>2, <2>5, ReduceCoverageIs
  <2> QED
    BY <1>1, <2>1, <2>6
<1>11. CASE AcknowledgeCoverage
  <2> DEFINE next == [operational EXCEPT !.unacknowledged = operational.unacknowledged - 1]
  <2>1. /\ reduce_coverage(1, next) /\ signing' = signing
        /\ operational.unacknowledged > operational.unpermitted
    BY <1>11 DEF AcknowledgeCoverage
  <2>2. /\ next \in OperationalStates /\ next.records = operational.records
        /\ next.capacity = operational.capacity
    BY <1>1, <2>1 DEF OperationalStates
  <2> QED
    BY <1>1, <2>1, <2>2, ReduceCoverageIs
<1> QED
  BY <1>1, <1>3, <1>4, <1>5, <1>6, <1>7, <1>8, <1>9, <1>10, <1>11 DEF ApplyOperational

\* Operational entries keep the types.
LEMMA TypeOperational ==
    ASSUME TypeInv, ApplyOperational
    PROVE  TypeInv'
<1> USE DEF TypeInv, AuthorityTypeOK
<1>1. Operated /\ signing' \in [generation : Nat, phase : {"Steady", "Staged", "Retiring"}]
  BY OperationalIs
<1>2. MetaTypeOK'
  BY <1>1 DEF Operated, MetaTypeOK
<1>3. RecordsTypeOK' /\ ActivationReceiptsPlain' /\ LogTypeOK' /\ LeaderTypeOK'
  BY <1>1 DEF Operated, records, log, leader, RecordsTypeOK, ActivationReceiptsPlain, LogTypeOK,
              LeaderTypeOK
<1> QED
  BY <1>2, <1>3

\* Every step of the authority keeps the types.
LEMMA TypeNext == TypeInv /\ [AuthorityNext]_authorityVars => TypeInv'
<1> SUFFICES ASSUME TypeInv, [AuthorityNext]_authorityVars PROVE TypeInv'
  OBVIOUS
<1>1. CASE UNCHANGED authorityVars
  <2>1. UNCHANGED <<revision, administrators, policy_epoch, active_fences, state_bytes, signing,
                    operational,
                    tenant, receipts, preparations, incarnations, target_stops,
                    term, applied_term, proposals, drains, regressed>>
    BY <1>1 DEF authorityVars, meta, records, log, leader
  <2> QED
    BY <2>1 DEF TypeInv, AuthorityTypeOK, MetaTypeOK, RecordsTypeOK, LogTypeOK, LeaderTypeOK,
                ActivationReceiptsPlain
<1>2. ASSUME NEW p \in proposals, NEW e \in 1 .. MaxTerm, Apply(p, e) PROVE TypeInv'
  BY <1>2, TypeEnroll, TypeFence, TypePrepare, TypeActivate, TypeStopTarget,
     TypeStopActivation, TypeReplace, TypeRejected, TypeLog DEF Apply
<1> QED
  BY <1>1, <1>2, TypeLog, TypeLeader, TypeOperational DEF AuthorityNext, AuthorityStep

\* Every reachable state of the authority is well typed, and its applied
\* position never runs ahead of the log's term.
THEOREM AuthorityTypeSafe == AuthoritySpec => []AuthorityTypeOK
<1>1. TypeInv => AuthorityTypeOK
  BY DEF TypeInv
<1> QED
  BY <1>1, TypeInit, TypeNext, PTL DEF AuthoritySpec

----------------------------------------------------------------------------
(* Receipts are permanent *)

\* Each kind of applied entry either publishes one receipt under its own unused
\* identity, or settles an activation, or writes no receipt.
LEMMA ApplyKinds ==
    ASSUME NEW p, NEW e, Apply(p, e)
    PROVE  \/ Effective(p, e) /\ \E o : Publish(p, o)
           \/ ApplyStopActivation(p, e)
           \/ UNCHANGED records
<1>1. CASE ApplyEnroll(p, e)
  BY <1>1 DEF ApplyEnroll
<1>2. CASE ApplyFence(p, e)
  BY <1>2 DEF ApplyFence
<1>3. CASE ApplyPrepareTarget(p, e)
  BY <1>3 DEF ApplyPrepareTarget
<1>4. CASE ApplyActivate(p, e)
  BY <1>4 DEF ApplyActivate
<1>5. CASE ApplyStopTarget(p, e)
  BY <1>5 DEF ApplyStopTarget
<1>6. CASE ApplyReplaceAdministrators(p, e)
  BY <1>6 DEF ApplyReplaceAdministrators
<1>7. CASE ApplyRejected(p, e)
  BY <1>7 DEF ApplyRejected
<1>8. CASE ApplyWithoutEffect(p, e)
  BY <1>8 DEF ApplyWithoutEffect
<1> QED
  BY <1>1, <1>2, <1>3, <1>4, <1>5, <1>6, <1>7, <1>8 DEF Apply

\* No applied entry replaces a retained receipt.
LEMMA ApplyKeepsReceipts ==
    ASSUME TypeInv, NEW p \in proposals, NEW e, Apply(p, e), NEW k \in Ids, receipts[k] # None
    PROVE  receipts'[k] = receipts[k]
<1> USE DEF TypeInv, AuthorityTypeOK
<1>1. receipts \in [Ids -> ReceiptsOf(Outcomes) \cup {None}]
  BY DEF RecordsTypeOK
<1>2. p.command.id \in Ids
  BY ProposalFacts, CommandFacts
<1>3. ASSUME Effective(p, e), NEW o, Publish(p, o) PROVE receipts'[k] = receipts[k]
  <2>1. receipts[p.command.id] = None
    BY <1>3 DEF Effective
  <2>2. receipts' = [receipts EXCEPT ![p.command.id] = Receipt(p, o)]
    BY <1>3 DEF Publish, PublishWith
  <2> QED
    BY <1>1, <2>1, <2>2
<1>4. CASE ApplyStopActivation(p, e)
  <2> DEFINE o == p.command.action.original
             original == IF receipts[o.id] # None THEN receipts[o.id] ELSE Stopped(p)
             r == Receipt(p, [kind |-> "ActivationResolved", original |-> original])
  <2>1. receipts[p.command.id] = None
    BY <1>4 DEF ApplyStopActivation, Effective
  <2>2. receipts' = [receipts EXCEPT ![o.id] = original, ![p.command.id] = r]
    BY <1>4 DEF ApplyStopActivation, PublishWith
  <2> HIDE DEF r
  <2>3. CASE k = o.id
    BY <1>1, <1>2, <2>1, <2>2, <2>3
  <2>4. CASE k # o.id
    BY <1>1, <1>2, <2>1, <2>2, <2>4
  <2> QED
    BY <2>3, <2>4
<1>5. CASE UNCHANGED records
  BY <1>5 DEF records
<1> QED
  BY <1>3, <1>4, <1>5, ApplyKinds

\* Operational entries touch neither the administrative records nor the log nor
\* the leader.
LEMMA OperationalKeeps ==
    ASSUME ApplyOperational
    PROVE  UNCHANGED <<records, log, leader>>
BY DEF ApplyOperational, BeginMaintenance, CompleteAtOnce, AdvanceMaintenance, SetCapacity,
       StageSignerGeneration, ActivateSignerGeneration, PermitCoverage, BeginCoverage,
       AcknowledgeCoverage, reduce_maintenance, reduce_coverage, PublishOperational

\* Everything but an applied command leaves the records alone.
LEMMA OnlyApplyWrites ==
    ASSUME [AuthorityNext]_authorityVars,
           ~ \E p \in proposals, e \in 1 .. MaxTerm : Apply(p, e)
    PROVE  UNCHANGED records
BY OperationalKeeps
   DEF AuthorityNext, AuthorityStep, LoseProposal, ApplyMetadata, ChangeTerm, RestartLeader,
       Execute, ExecuteActivate, AwaitFenceDrain, WitnessFence,
       IssuerClockRegresses, IssuerTick, authorityVars

\* An exact retry of any command can only ever see its original result.
THEOREM ReceiptsArePermanent == AuthoritySpec => ReceiptsPermanent
<1>1. TypeInv /\ [AuthorityNext]_authorityVars =>
        [\A k \in Ids : receipts[k] # None => receipts'[k] = receipts[k]]_authorityVars
  <2> SUFFICES ASSUME TypeInv, [AuthorityNext]_authorityVars
               PROVE  \A k \in Ids : receipts[k] # None => receipts'[k] = receipts[k]
    OBVIOUS
  <2>1. ASSUME NEW p \in proposals, NEW e \in 1 .. MaxTerm, Apply(p, e)
        PROVE  \A k \in Ids : receipts[k] # None => receipts'[k] = receipts[k]
    BY <2>1, ApplyKeepsReceipts
  <2>2. ASSUME UNCHANGED records
        PROVE  \A k \in Ids : receipts[k] # None => receipts'[k] = receipts[k]
    BY <2>2 DEF records
  <2> QED
    BY <2>1, <2>2, OnlyApplyWrites
<1> QED
  BY <1>1, TypeInit, TypeNext, PTL DEF AuthoritySpec, ReceiptsPermanent

----------------------------------------------------------------------------
(* A stopped target is never activated *)

\* Whichever of StopTarget and Activate (or Enroll) is ordered first, the other
\* finds its record and does not write its own.
LEMMA StoppedNext ==
    TypeInv /\ StoppedTargetNeverActivated /\ [AuthorityNext]_authorityVars
        => StoppedTargetNeverActivated'
<1> SUFFICES ASSUME TypeInv, StoppedTargetNeverActivated, [AuthorityNext]_authorityVars,
                    NEW t \in Tenants, NEW i \in Incarnations, target_stops'[t][i] # None
             PROVE  incarnations'[t][i] = None
  BY DEF StoppedTargetNeverActivated
<1> USE DEF TypeInv, AuthorityTypeOK
<1>1. CASE UNCHANGED records
  BY <1>1 DEF records, StoppedTargetNeverActivated
<1>2. ASSUME NEW p \in proposals, NEW e \in 1 .. MaxTerm, Apply(p, e)
      PROVE  incarnations'[t][i] = None
  <2> DEFINE c == p.command
  <2>1. c \in Commands /\ c.tenant \in Tenants
    BY ProposalFacts, CommandFacts
  <2>2. CASE ApplyEnroll(p, e)
    <3>1. /\ target_stops' = target_stops
          /\ target_stops[c.tenant][c.action.incarnation] = None
      BY <2>2 DEF ApplyEnroll, EnrollOK
    <3>2. c.action.incarnation \in Incarnations
      BY <2>1, <2>2, EnrollFacts DEF ApplyEnroll
    <3>3. t = c.tenant => i # c.action.incarnation
      BY <3>1
    <3>4. incarnations'[t][i] = incarnations[t][i]
      BY <2>1, <2>2, <3>2, <3>3 DEF ApplyEnroll, RecordsTypeOK
    <3> QED
      BY <3>1, <3>4 DEF StoppedTargetNeverActivated
  <2>3. CASE ApplyActivate(p, e)
    <3>1. /\ target_stops' = target_stops
          /\ target_stops[c.tenant][c.action.target.incarnation] = None
      BY <2>3 DEF ApplyActivate, ActivateOK
    <3>2. c.action.target.incarnation \in Incarnations
      BY <2>1, <2>3, ActivateFacts, TargetParts DEF ApplyActivate
    <3>3. t = c.tenant => i # c.action.target.incarnation
      BY <3>1
    <3>4. incarnations'[t][i] = incarnations[t][i]
      BY <2>1, <2>3, <3>2, <3>3 DEF ApplyActivate, RecordsTypeOK
    <3> QED
      BY <3>1, <3>4 DEF StoppedTargetNeverActivated
  <2>4. CASE ApplyStopTarget(p, e)
    <3> DEFINE x == c.action.target.incarnation
    <3>1. incarnations' = incarnations
      BY <2>4 DEF ApplyStopTarget
    <3>2. CASE target_stops' = target_stops
      BY <3>1, <3>2 DEF StoppedTargetNeverActivated
    <3>3. ASSUME NEW r, StopTargetOK(c), target_stops' = [target_stops EXCEPT ![c.tenant][x] = r]
          PROVE  incarnations[t][i] = None
      <4>1. incarnations[c.tenant][x] = None
        BY <3>3 DEF StopTargetOK
      <4>2. x \in Incarnations
        BY <2>1, <2>4, TargetFacts, TargetParts DEF ApplyStopTarget
      <4>3. ~(t = c.tenant /\ i = x) => target_stops'[t][i] = target_stops[t][i]
        BY <2>1, <3>3, <4>2 DEF RecordsTypeOK
      <4> QED
        BY <4>1, <4>3 DEF StoppedTargetNeverActivated
    <3> QED
      BY <2>4, <3>1, <3>2, <3>3 DEF ApplyStopTarget
  <2>5. CASE UNCHANGED <<incarnations, target_stops>>
    BY <2>5 DEF StoppedTargetNeverActivated
  <2> QED
    BY <1>2, <2>2, <2>3, <2>4, <2>5
       DEF Apply, ApplyFence, ApplyPrepareTarget, ApplyStopActivation,
           ApplyReplaceAdministrators, ApplyRejected, ApplyWithoutEffect, records
<1> QED
  BY <1>1, <1>2, OnlyApplyWrites

\* A permanently stopped target incarnation is never the one activated.
THEOREM StoppedNeverActivated == AuthoritySpec => []StoppedTargetNeverActivated
<1>1. AuthorityInit => StoppedTargetNeverActivated
  BY DEF AuthorityInit, StoppedTargetNeverActivated
<1> QED
  BY <1>1, TypeInit, TypeNext, StoppedNext, PTL DEF AuthoritySpec

----------------------------------------------------------------------------
(* What one applied entry does to the records *)

\* One receipt is filed, under the identity of the proposal's own command, which
\* was unused, at the next revision and under the policy in force.
Files(p, outcome) ==
    /\ receipts[p.command.id] = None
    /\ receipts' = [receipts EXCEPT ![p.command.id] = Receipt(p, outcome)]
    /\ Receipt(p, outcome) # None /\ Receipt(p, outcome).command = p.command
    /\ Receipt(p, outcome).outcome = outcome
    /\ Receipt(p, outcome).revision = revision + 1
    /\ revision' = revision + 1
    /\ p.command.policy = policy_epoch

\* Publishing an effective entry files one receipt.
LEMMA PublishFiles ==
    ASSUME TypeInv, NEW p \in proposals, NEW e, Effective(p, e), NEW o \in Outcomes, Publish(p, o)
    PROVE  Files(p, o)
<1>1. MetaTypeOK /\ LogTypeOK
  BY DEF TypeInv, AuthorityTypeOK
<1>2. /\ Receipt(p, o) \in ReceiptsOf(Outcomes)
      /\ Receipt(p, o).command = p.command /\ Receipt(p, o).outcome = o
      /\ Receipt(p, o).revision = revision + 1
  BY <1>1, ReceiptIs
<1>3. Receipt(p, o) # None
  BY <1>2, RecordAssumption
<1>4. /\ receipts' = [receipts EXCEPT ![p.command.id] = Receipt(p, o)]
      /\ revision' = revision + 1
  BY DEF Publish, PublishWith
<1> QED
  BY <1>2, <1>3, <1>4 DEF Files, Effective

\* What the filed receipt is, and that every other one stays.
LEMMA FiledReceipt ==
    ASSUME TypeInv, NEW p \in proposals, NEW o, Files(p, o)
    PROVE  /\ p.command.id \in Ids
           /\ receipts[p.command.id] = None /\ receipts'[p.command.id] # None
           /\ receipts'[p.command.id].command = p.command
           /\ receipts'[p.command.id].outcome = o
           /\ receipts'[p.command.id].revision = revision + 1
           /\ \A k \in Ids : k # p.command.id => receipts'[k] = receipts[k]
<1>1. p.command.id \in Ids
  BY ProposalFacts, CommandFacts DEF TypeInv, AuthorityTypeOK
<1>2. receipts \in [Ids -> ReceiptsOf(Outcomes) \cup {None}]
  BY DEF TypeInv, AuthorityTypeOK, RecordsTypeOK
<1> QED
  BY <1>1, <1>2 DEF Files

EnrolledAs(c) == [kind |-> "Enrolled", incarnation |-> c.action.incarnation, epoch |-> 1]
FencedAs(c) == [kind |-> "Fenced", incarnation |-> c.action.incarnation, epoch |-> c.action.epoch]
PreparedFor(c) ==
    [kind |-> "TargetPrepared", target |-> c.action.target, epoch |-> c.action.epoch + 1]
ActivatedAs(c) ==
    [kind |-> "Activated", target |-> c.action.target,
     epoch |-> tenant[c.tenant].authority_epoch + 1]
ReplacedAs == [kind |-> "AdministratorsReplaced", epoch |-> policy_epoch + 1]

\* Enroll files a receipt and the first incarnation of a tenant that had none.
LEMMA EnrollView ==
    ASSUME TypeInv, NEW p \in proposals, NEW e, ApplyEnroll(p, e)
    PROVE  LET c == p.command
               i == c.action.incarnation
           IN  /\ Files(p, EnrolledAs(c)) /\ p.command.action.kind = "Enroll"
               /\ c.tenant \in Tenants /\ i \in Incarnations
               /\ tenant[c.tenant] = None /\ target_stops[c.tenant][i] = None
               /\ tenant'[c.tenant] # None
               /\ tenant'[c.tenant].incarnation = i /\ tenant'[c.tenant].authority_epoch = 1
               /\ tenant'[c.tenant].fence = None
               /\ \A t \in Tenants : t # c.tenant => tenant'[t] = tenant[t]
               /\ incarnations'[c.tenant][i] # None
               /\ incarnations'[c.tenant][i].epoch = 1
               /\ incarnations'[c.tenant][i].receipt = receipts'[c.id]
               /\ \A t \in Tenants, j \in Incarnations :
                     t # c.tenant \/ j # i => incarnations'[t][j] = incarnations[t][j]
               /\ UNCHANGED <<administrators, policy_epoch, preparations, target_stops>>
<1> DEFINE c == p.command
           i == c.action.incarnation
<1>1. /\ Effective(p, e) /\ c.action.kind = "Enroll" /\ Publish(p, EnrolledAs(c)) /\ EnrollOK(c)
      /\ c \in Commands /\ c.tenant \in Tenants
      /\ UNCHANGED <<administrators, policy_epoch, preparations, target_stops>>
  BY ProposalFacts, CommandFacts DEF ApplyEnroll, EnrolledAs, TypeInv, AuthorityTypeOK
<1>2. i \in Incarnations /\ c.action.nodes \in SUBSET Nodes
  BY <1>1, EnrollFacts
<1>3. EnrolledAs(c) \in Outcomes
  BY <1>2 DEF EnrolledAs, PlainOutcomes, Outcomes
<1>4. Files(p, EnrolledAs(c))
  BY <1>1, <1>3, PublishFiles
<1>5. RecordsTypeOK
  BY DEF TypeInv, AuthorityTypeOK
<1>6. TypeInv'
  BY TypeEnroll
<1>7. receipts'[c.id] = Receipt(p, EnrolledAs(c)) /\ c.id \in Ids
  BY <1>1, <1>4, <1>5, CommandFacts DEF Files, RecordsTypeOK
<1>8. /\ tenant[c.tenant] = None /\ target_stops[c.tenant][i] = None
  BY <1>1 DEF EnrollOK
<1> DEFINE new == [incarnation |-> i, authority_epoch |-> 1,
                   nodes |-> c.action.nodes, activation |-> c.id,
                   recovery_checkpoint |-> None, fence |-> None]
           rec == [epoch |-> 1, receipt |-> Receipt(p, EnrolledAs(c))]
<1>9. /\ tenant' = [tenant EXCEPT ![c.tenant] = new]
      /\ incarnations' = [incarnations EXCEPT ![c.tenant][i] = rec]
  BY DEF ApplyEnroll, EnrolledAs
<1>10. new \in TenantRecords /\ new # None
  BY <1>1, <1>2, <1>7, RecordAssumption DEF TenantRecords
<1>11. rec # None
  <2>1. Receipt(p, EnrolledAs(c)) \in ReceiptsOf(PlainOutcomes)
    BY <1>2, ReceiptIs DEF EnrolledAs, PlainOutcomes, TypeInv, AuthorityTypeOK
  <2> QED
    BY <2>1, RecordAssumption DEF IncarnationRecords
<1> QED
  BY <1>1, <1>2, <1>4, <1>5, <1>7, <1>8, <1>9, <1>10, <1>11 DEF RecordsTypeOK

\* Fence files its receipt and names it in the tenant's record.
LEMMA FenceView ==
    ASSUME TypeInv, NEW p \in proposals, NEW e, ApplyFence(p, e)
    PROVE  LET c == p.command
           IN  /\ Files(p, FencedAs(c)) /\ c.action.kind = "Fence"
               /\ c.tenant \in Tenants /\ c.id \in Ids
               /\ tenant[c.tenant] # None /\ tenant[c.tenant].fence = None
               /\ tenant[c.tenant].incarnation = c.action.incarnation
               /\ tenant[c.tenant].authority_epoch = c.action.epoch
               /\ tenant'[c.tenant] # None /\ tenant'[c.tenant].fence = c.id
               /\ tenant'[c.tenant].incarnation = tenant[c.tenant].incarnation
               /\ tenant'[c.tenant].authority_epoch = tenant[c.tenant].authority_epoch
               /\ \A t \in Tenants : t # c.tenant => tenant'[t] = tenant[t]
               /\ UNCHANGED <<administrators, policy_epoch, preparations, incarnations,
                              target_stops>>
<1> DEFINE c == p.command
<1>1. /\ Effective(p, e) /\ c.action.kind = "Fence" /\ Publish(p, FencedAs(c)) /\ FenceOK(c)
      /\ c \in Commands /\ c.tenant \in Tenants /\ c.id \in Ids
      /\ tenant' = [tenant EXCEPT ![c.tenant].fence = c.id]
      /\ UNCHANGED <<administrators, policy_epoch, preparations, incarnations, target_stops>>
  BY ProposalFacts, CommandFacts DEF ApplyFence, FencedAs, TypeInv, AuthorityTypeOK
<1>2. FencedAs(c) \in Outcomes
  BY <1>1, FenceFacts DEF FencedAs, PlainOutcomes, Outcomes
<1>3. Files(p, FencedAs(c))
  BY <1>1, <1>2, PublishFiles
<1>4. /\ tenant[c.tenant] # None /\ tenant[c.tenant].fence = None
      /\ tenant[c.tenant].incarnation = c.action.incarnation
      /\ tenant[c.tenant].authority_epoch = c.action.epoch
  BY <1>1 DEF FenceOK, IsCurrent
<1>5. tenant \in [Tenants -> TenantRecords \cup {None}]
  BY DEF TypeInv, AuthorityTypeOK, RecordsTypeOK
<1> DEFINE new == [tenant[c.tenant] EXCEPT !.fence = c.id]
<1>6. /\ new \in TenantRecords /\ new.fence = c.id
      /\ new.incarnation = tenant[c.tenant].incarnation
      /\ new.authority_epoch = tenant[c.tenant].authority_epoch
  BY <1>1, <1>4, <1>5 DEF TenantRecords
<1>7. tenant' = [tenant EXCEPT ![c.tenant] = new]
  BY <1>1, <1>5
<1> HIDE DEF new
<1>8. new # None
  BY <1>6, RecordAssumption
<1> QED
  BY <1>1, <1>3, <1>4, <1>5, <1>6, <1>7, <1>8

\* PrepareTarget files its receipt and the preparation of an unused incarnation.
LEMMA PrepareView ==
    ASSUME TypeInv, NEW p \in proposals, NEW e, ApplyPrepareTarget(p, e)
    PROVE  LET c == p.command
               i == c.action.target.incarnation
           IN  /\ Files(p, PreparedFor(c)) /\ c.action.kind = "PrepareTarget"
               /\ c.tenant \in Tenants /\ i \in Incarnations
               /\ tenant[c.tenant] # None
               /\ preparations[c.tenant][i] = None /\ incarnations[c.tenant][i] = None
               /\ preparations'[c.tenant][i] # None
               /\ \A t \in Tenants, j \in Incarnations :
                     t # c.tenant \/ j # i => preparations'[t][j] = preparations[t][j]
               /\ UNCHANGED <<administrators, policy_epoch, tenant, incarnations, target_stops>>
<1> DEFINE c == p.command
           i == c.action.target.incarnation
<1>1. /\ Effective(p, e) /\ c.action.kind = "PrepareTarget" /\ Publish(p, PreparedFor(c))
      /\ PrepareOK(c) /\ c \in Commands /\ c.tenant \in Tenants
      /\ UNCHANGED <<administrators, policy_epoch, tenant, incarnations, target_stops>>
  BY ProposalFacts, CommandFacts DEF ApplyPrepareTarget, PreparedFor, TypeInv, AuthorityTypeOK
<1>2. /\ c.action.source \in Incarnations /\ c.action.epoch \in Nat
      /\ c.action.target \in Targets /\ i \in Incarnations
  BY <1>1, TargetFacts, TargetParts
<1>3. PreparedFor(c) \in PlainOutcomes /\ PreparedFor(c) \in Outcomes
  BY <1>2 DEF PreparedFor, PlainOutcomes, Outcomes
<1>4. Files(p, PreparedFor(c))
  BY <1>1, <1>3, PublishFiles
<1>5. /\ tenant[c.tenant] # None
      /\ preparations[c.tenant][i] = None /\ incarnations[c.tenant][i] = None
  BY <1>1 DEF PrepareOK, IsCurrent
<1> DEFINE rec == [source |-> c.action.source, epoch |-> c.action.epoch,
                   target |-> c.action.target, receipt |-> Receipt(p, PreparedFor(c))]
<1>6. preparations' = [preparations EXCEPT ![c.tenant][i] = rec]
  BY DEF ApplyPrepareTarget, PreparedFor
<1>7. rec # None
  <2>1. Receipt(p, PreparedFor(c)) \in ReceiptsOf(PlainOutcomes)
    BY <1>3, ReceiptIs DEF TypeInv, AuthorityTypeOK
  <2> QED
    BY <1>2, <2>1, RecordAssumption DEF PreparationRecords
<1>8. RecordsTypeOK
  BY DEF TypeInv, AuthorityTypeOK
<1> QED
  BY <1>1, <1>2, <1>4, <1>5, <1>6, <1>7, <1>8 DEF RecordsTypeOK

\* Activate files its receipt and the permanent record of its target, and moves
\* the fenced tenant to it at the next epoch.
LEMMA ActivateView ==
    ASSUME TypeInv, NEW p \in proposals, NEW e, ApplyActivate(p, e)
    PROVE  LET c == p.command
               i == c.action.target.incarnation
               n == tenant[c.tenant].authority_epoch + 1
           IN  /\ Files(p, ActivatedAs(c)) /\ c.action.kind = "Activate"
               /\ c.tenant \in Tenants /\ i \in Incarnations /\ c.action.fence \in Ids
               /\ Fenced(c.tenant) /\ tenant[c.tenant].fence = c.action.fence
               /\ c.action.target.checkpoint = tenant[c.tenant].incarnation
               /\ incarnations[c.tenant][i] = None
               /\ PreparedAs(c.tenant, c.action.target, tenant[c.tenant].incarnation,
                             tenant[c.tenant].authority_epoch)
               /\ tenant[c.tenant].authority_epoch \in Nat
               /\ tenant'[c.tenant] # None
               /\ tenant'[c.tenant].incarnation = i /\ tenant'[c.tenant].authority_epoch = n
               /\ tenant'[c.tenant].fence = None
               /\ \A t \in Tenants : t # c.tenant => tenant'[t] = tenant[t]
               /\ incarnations'[c.tenant][i] # None
               /\ incarnations'[c.tenant][i].epoch = n
               /\ incarnations'[c.tenant][i].receipt = receipts'[c.id]
               /\ \A t \in Tenants, j \in Incarnations :
                     t # c.tenant \/ j # i => incarnations'[t][j] = incarnations[t][j]
               /\ UNCHANGED <<administrators, policy_epoch, preparations, target_stops>>
<1> DEFINE c == p.command
           i == c.action.target.incarnation
           n == tenant[c.tenant].authority_epoch + 1
<1>1. /\ Effective(p, e) /\ c.action.kind = "Activate" /\ Publish(p, ActivatedAs(c))
      /\ ActivateOK(p) /\ c \in Commands /\ c.tenant \in Tenants /\ c.id \in Ids
      /\ UNCHANGED <<administrators, policy_epoch, preparations, target_stops>>
  BY ProposalFacts, CommandFacts DEF ApplyActivate, ActivatedAs, TypeInv, AuthorityTypeOK
<1>2. c.action.fence \in Ids /\ c.action.target \in Targets
  BY <1>1, ActivateFacts
<1>3. RecordsTypeOK
  BY DEF TypeInv, AuthorityTypeOK
<1>4. /\ Fenced(c.tenant) /\ tenant[c.tenant].fence = c.action.fence
      /\ c.action.target.checkpoint = tenant[c.tenant].incarnation
      /\ incarnations[c.tenant][i] = None
      /\ PreparedAs(c.tenant, c.action.target, tenant[c.tenant].incarnation,
                    tenant[c.tenant].authority_epoch)
  BY <1>1 DEF ActivateOK
<1>5. tenant[c.tenant].authority_epoch \in Nat /\ n \in Nat
  <2>1. tenant[c.tenant] \in TenantRecords
    BY <1>1, <1>3, <1>4 DEF Fenced, RecordsTypeOK
  <2> QED
    BY <2>1 DEF TenantRecords
<1>6. /\ i \in Incarnations /\ c.action.target.nodes \in SUBSET Nodes
      /\ c.action.target.checkpoint \in Incarnations
  BY <1>2, TargetParts
<1>7. ActivatedAs(c) \in PlainOutcomes /\ ActivatedAs(c) \in Outcomes
  BY <1>2, <1>5 DEF ActivatedAs, PlainOutcomes, Outcomes
<1>8. Files(p, ActivatedAs(c))
  BY <1>1, <1>7, PublishFiles
<1>9. receipts'[c.id] = Receipt(p, ActivatedAs(c))
  BY <1>1, <1>3, <1>8 DEF Files, RecordsTypeOK
<1> DEFINE new == [incarnation |-> i, authority_epoch |-> n,
                   nodes |-> c.action.target.nodes, activation |-> c.id,
                   recovery_checkpoint |-> c.action.target.checkpoint, fence |-> None]
           rec == [epoch |-> n, receipt |-> Receipt(p, ActivatedAs(c))]
<1>10. /\ tenant' = [tenant EXCEPT ![c.tenant] = new]
       /\ incarnations' = [incarnations EXCEPT ![c.tenant][i] = rec]
  BY DEF ApplyActivate, ActivatedAs
<1>11. new \in TenantRecords /\ new # None
  BY <1>1, <1>5, <1>6, RecordAssumption DEF TenantRecords
<1>12. rec # None
  <2>1. Receipt(p, ActivatedAs(c)) \in ReceiptsOf(PlainOutcomes)
    BY <1>7, ReceiptIs DEF TypeInv, AuthorityTypeOK
  <2> QED
    BY <1>5, <2>1, RecordAssumption DEF IncarnationRecords
<1> QED
  BY <1>1, <1>2, <1>3, <1>4, <1>5, <1>6, <1>8, <1>9, <1>10, <1>11, <1>12 DEF RecordsTypeOK

\* The original of a settled activation: its retained receipt, or the one that
\* stops it now.
OriginalOf(p) ==
    IF receipts[p.command.action.original.id] # None
    THEN receipts[p.command.action.original.id] ELSE Stopped(p)

\* StopActivation files its own receipt and, unless it is retained already, that
\* of the activation it settles.
LEMMA SettleView ==
    ASSUME TypeInv, NEW p \in proposals, NEW e, ApplyStopActivation(p, e)
    PROVE  LET c == p.command
               o == c.action.original
           IN  /\ c.id \in Ids /\ o.id \in Ids /\ o.id # c.id
               /\ c.action.kind = "StopActivation"
               /\ receipts[c.id] = None /\ receipts'[c.id] # None
               /\ receipts'[c.id].command = c
               /\ receipts'[c.id].outcome = [kind |-> "ActivationResolved", original |-> OriginalOf(p)]
               /\ receipts'[c.id].outcome.kind = "ActivationResolved"
               /\ receipts'[c.id].revision = revision + 1
               /\ receipts'[o.id] = OriginalOf(p) /\ OriginalOf(p).command = o
               /\ OriginalOf(p) # None
               /\ receipts[o.id] # None => receipts'[o.id] = receipts[o.id]
               /\ receipts[o.id] = None =>
                     /\ receipts'[o.id].outcome.kind = "ActivationStopped"
                     /\ receipts'[o.id].revision = revision + 1
               /\ \A k \in Ids : k # c.id /\ k # o.id => receipts'[k] = receipts[k]
               /\ revision' = revision + 1 /\ c.policy = policy_epoch
               /\ UNCHANGED <<administrators, policy_epoch, tenant, preparations, incarnations,
                              target_stops>>
<1> DEFINE c == p.command
           o == c.action.original
           resolved == [kind |-> "ActivationResolved", original |-> OriginalOf(p)]
<1>1. /\ Effective(p, e) /\ c.action.kind = "StopActivation" /\ StopActivationOK(c)
      /\ PublishWith(p, [receipts EXCEPT ![o.id] = OriginalOf(p), ![c.id] = Receipt(p, resolved)])
      /\ UNCHANGED <<administrators, policy_epoch, tenant, preparations, incarnations,
                     target_stops>>
      /\ c \in Commands /\ c.id \in Ids
  BY ProposalFacts, CommandFacts DEF ApplyStopActivation, OriginalOf, TypeInv, AuthorityTypeOK
<1>2. /\ OriginalOf(p) \in ReceiptsOf(PlainOutcomes) /\ OriginalOf(p).command = o
      /\ o \in Commands /\ o.id \in Ids /\ o.id # c.id
  BY <1>1, OriginalIs DEF OriginalOf
<1>3. /\ receipts' = [receipts EXCEPT ![o.id] = OriginalOf(p), ![c.id] = Receipt(p, resolved)]
      /\ revision' = revision + 1 /\ c.policy = policy_epoch /\ receipts[c.id] = None
  BY <1>1 DEF PublishWith, Effective
<1>4. resolved \in Outcomes
  BY <1>2 DEF Outcomes
<1>5. /\ Receipt(p, resolved) \in ReceiptsOf(Outcomes)
      /\ Receipt(p, resolved).command = c /\ Receipt(p, resolved).outcome = resolved
      /\ Receipt(p, resolved).revision = revision + 1
  BY <1>4, ReceiptIs DEF TypeInv, AuthorityTypeOK
<1>6. Receipt(p, resolved) # None /\ OriginalOf(p) # None
  BY <1>2, <1>5, PlainIsReceipt, RecordAssumption
<1>7. receipts \in [Ids -> ReceiptsOf(Outcomes) \cup {None}]
  BY DEF TypeInv, AuthorityTypeOK, RecordsTypeOK
<1>8. /\ receipts'[c.id] = Receipt(p, resolved) /\ receipts'[o.id] = OriginalOf(p)
      /\ \A k \in Ids : k # c.id /\ k # o.id => receipts'[k] = receipts[k]
  BY <1>1, <1>2, <1>3, <1>7
<1>9. receipts[o.id] = None =>
          /\ OriginalOf(p).outcome.kind = "ActivationStopped"
          /\ OriginalOf(p).revision = revision + 1
  BY DEF OriginalOf, Stopped, Receipt
<1>10. receipts[o.id] # None => OriginalOf(p) = receipts[o.id]
  BY DEF OriginalOf
<1>11. /\ receipts'[c.id].outcome = resolved
       /\ receipts'[c.id].outcome.kind = "ActivationResolved"
  BY <1>5, <1>8
<1> QED
  BY <1>1, <1>2, <1>3, <1>5, <1>6, <1>8, <1>9, <1>10, <1>11

\* A stop of a target and a rejection file one receipt and leave the tenants,
\* the preparations and the incarnations alone.
LEMMA PlainView ==
    ASSUME TypeInv, NEW p \in proposals, NEW e, ApplyStopTarget(p, e) \/ ApplyRejected(p, e)
    PROVE  \E o : /\ Files(p, o)
                  /\ o.kind \in {"TargetAlreadyActivated", "TargetStopped", "Rejected"}
                  /\ UNCHANGED <<administrators, policy_epoch, tenant, preparations, incarnations>>
<1> DEFINE c == p.command
           i == c.action.target.incarnation
<1>1. CASE ApplyRejected(p, e)
  <2>1. [kind |-> "Rejected"] \in Outcomes
    BY DEF PlainOutcomes, Outcomes
  <2>2. Files(p, [kind |-> "Rejected"])
    BY <1>1, <2>1, PublishFiles DEF ApplyRejected
  <2> QED
    BY <1>1, <2>2 DEF ApplyRejected
<1>2. CASE ApplyStopTarget(p, e)
  <2>1. /\ Effective(p, e) /\ c.action.kind = "StopTarget"
        /\ c \in Commands /\ c.tenant \in Tenants
        /\ UNCHANGED <<administrators, policy_epoch, tenant, preparations, incarnations>>
    BY <1>2, ProposalFacts, CommandFacts DEF ApplyStopTarget, TypeInv, AuthorityTypeOK
  <2>2. /\ c.action.source \in Incarnations /\ c.action.epoch \in Nat
        /\ c.action.target \in Targets /\ i \in Incarnations
    BY <2>1, TargetFacts, TargetParts
  <2>3. StopOutcome(c) \in Outcomes /\ StopOutcome(c).kind = "TargetStopped"
    BY <2>2 DEF StopOutcome, PlainOutcomes, Outcomes
  <2>4. CASE Publish(p, StopOutcome(c))
    BY <2>1, <2>3, <2>4, PublishFiles
  <2>5. CASE /\ AlreadyActivated(c)
             /\ Publish(p, [kind |-> "TargetAlreadyActivated",
                            original |-> incarnations[c.tenant][i].receipt])
    <3> DEFINE o == [kind |-> "TargetAlreadyActivated",
                     original |-> incarnations[c.tenant][i].receipt]
    <3>1. incarnations[c.tenant][i] \in IncarnationRecords \cup {None}
      BY <2>1, <2>2 DEF TypeInv, AuthorityTypeOK, RecordsTypeOK
    <3>2. incarnations[c.tenant][i] # None
      BY <2>5 DEF AlreadyActivated
    <3>3. o \in Outcomes
      BY <3>1, <3>2 DEF IncarnationRecords, Outcomes
    <3>4. Files(p, o)
      BY <2>1, <2>5, <3>3, PublishFiles
    <3> QED
      BY <2>1, <3>4
  <2> QED
    BY <1>2, <2>4, <2>5 DEF ApplyStopTarget
<1> QED
  BY <1>1, <1>2

\* ReplaceAdministrators files its receipt and opens the next policy epoch.
LEMMA ReplaceView ==
    ASSUME TypeInv, NEW p \in proposals, NEW e, ApplyReplaceAdministrators(p, e)
    PROVE  /\ Files(p, ReplacedAs) /\ policy_epoch' = policy_epoch + 1
           /\ UNCHANGED <<tenant, preparations, incarnations, target_stops>>
<1>1. ReplacedAs \in Outcomes
  BY DEF ReplacedAs, PlainOutcomes, Outcomes, TypeInv, AuthorityTypeOK, MetaTypeOK
<1>2. Effective(p, e) /\ Publish(p, ReplacedAs)
  BY DEF ApplyReplaceAdministrators, ReplacedAs
<1> QED
  BY <1>1, <1>2, PublishFiles DEF ApplyReplaceAdministrators

\* Every other step leaves the policy and the records alone, the revision never
\* goes back, and only an operational entry writes to the quota.
Quiet ==
    /\ UNCHANGED <<tenant, receipts, preparations, incarnations, target_stops>>
    /\ UNCHANGED <<policy_epoch, active_fences>>
    /\ UNCHANGED <<state_bytes, operational>> \/ ApplyOperational
    /\ revision' \in {revision, revision + 1}

\* The kinds of step the records' invariants distinguish.
LEMMA StepKinds ==
    ASSUME TypeInv, [AuthorityNext]_authorityVars
    PROVE  \/ \E p \in proposals, e \in 1 .. MaxTerm :
                 \/ ApplyEnroll(p, e) \/ ApplyFence(p, e) \/ ApplyPrepareTarget(p, e)
                 \/ ApplyActivate(p, e) \/ ApplyStopTarget(p, e) \/ ApplyStopActivation(p, e)
                 \/ ApplyReplaceAdministrators(p, e) \/ ApplyRejected(p, e)
           \/ Quiet
<1>1. ASSUME UNCHANGED <<meta, records>> PROVE Quiet
  BY <1>1 DEF meta, records, Quiet
<1>2. CASE UNCHANGED authorityVars
  BY <1>1, <1>2 DEF authorityVars
<1>3. ASSUME NEW p \in proposals, NEW e \in 1 .. MaxTerm, ApplyWithoutEffect(p, e) PROVE Quiet
  BY <1>1, <1>3 DEF ApplyWithoutEffect
<1>4. CASE ApplyMetadata
  BY <1>4 DEF ApplyMetadata, records, Quiet
<1>5. CASE \/ \E p \in proposals : LoseProposal(p)
           \/ ChangeTerm \/ RestartLeader \/ IssuerTick
           \/ \E c \in Commands, a \in Principals :
                 Execute(c, a) \/ ExecuteActivate(c, a) \/ AwaitFenceDrain(c, a)
           \/ \E j \in 1 .. MaxRegression : IssuerClockRegresses(j)
  BY <1>1, <1>5 DEF LoseProposal, ChangeTerm, RestartLeader, IssuerTick, Execute,
                    ExecuteActivate, AwaitFenceDrain, WitnessFence, IssuerClockRegresses
<1>6. CASE ApplyOperational
  <2>1. Operated
    BY <1>6, OperationalIs DEF TypeInv, AuthorityTypeOK
  <2> QED
    BY <1>6, <2>1 DEF Operated, records, Quiet
<1> QED
  BY <1>2, <1>3, <1>4, <1>5, <1>6 DEF AuthorityNext, AuthorityStep, Apply

----------------------------------------------------------------------------
(* Each receipt is filed once, under its own identity and revision *)

\* A receipt is filed under the identity of its command, at a revision that has
\* been reached.
ReceiptsFiled ==
    \A k \in Ids : receipts[k] # None =>
        receipts[k].command.id = k /\ receipts[k].revision <= revision

\* Whatever a step files is new, of this revision, and under its own identity;
\* what is not of the proposal's own command is an activation it stops.
LEMMA ReceiptStep ==
    ASSUME TypeInv, [AuthorityNext]_authorityVars
    PROVE  /\ revision' \in Nat /\ revision <= revision'
           /\ \A k \in Ids : receipts'[k] # receipts[k] =>
                 /\ receipts[k] = None /\ receipts'[k] # None
                 /\ receipts'[k].command.id = k
                 /\ receipts'[k].revision = revision + 1 /\ revision' = revision + 1
                 /\ \/ receipts'[k].command.policy = policy_epoch
                    \/ receipts'[k].outcome.kind = "ActivationStopped"
<1>1. revision \in Nat
  BY DEF TypeInv, AuthorityTypeOK, MetaTypeOK
<1>2. CASE Quiet
  BY <1>1, <1>2 DEF Quiet
<1>3. ASSUME NEW p \in proposals, NEW o, Files(p, o)
      PROVE  /\ revision' = revision + 1
             /\ \A k \in Ids : receipts'[k] # receipts[k] =>
                   /\ receipts[k] = None /\ receipts'[k] # None
                   /\ receipts'[k].command.id = k
                   /\ receipts'[k].revision = revision + 1
                   /\ receipts'[k].command.policy = policy_epoch
  BY <1>3, FiledReceipt DEF Files
<1>4. ASSUME NEW p \in proposals, NEW e, ApplyStopActivation(p, e)
      PROVE  /\ revision' = revision + 1
             /\ \A k \in Ids : receipts'[k] # receipts[k] =>
                   /\ receipts[k] = None /\ receipts'[k] # None
                   /\ receipts'[k].command.id = k
                   /\ receipts'[k].revision = revision + 1
                   /\ \/ receipts'[k].command.policy = policy_epoch
                      \/ receipts'[k].outcome.kind = "ActivationStopped"
  <2> DEFINE c == p.command
             o == c.action.original
  <2>1. /\ receipts[c.id] = None /\ receipts'[c.id] # None
        /\ receipts'[c.id].command = c /\ receipts'[c.id].revision = revision + 1
        /\ \A k \in Ids : k # c.id /\ k # o.id => receipts'[k] = receipts[k]
        /\ revision' = revision + 1 /\ c.policy = policy_epoch
    BY <1>4, SettleView
  <2>2. /\ receipts'[o.id] # None /\ receipts'[o.id].command = o
        /\ receipts[o.id] # None => receipts'[o.id] = receipts[o.id]
        /\ receipts[o.id] = None =>
              /\ receipts'[o.id].outcome.kind = "ActivationStopped"
              /\ receipts'[o.id].revision = revision + 1
    BY <1>4, SettleView
  <2> QED
    BY <2>1, <2>2
<1>5. ASSUME NEW p \in proposals, NEW e \in 1 .. MaxTerm,
             \/ ApplyEnroll(p, e) \/ ApplyFence(p, e) \/ ApplyPrepareTarget(p, e)
             \/ ApplyActivate(p, e) \/ ApplyStopTarget(p, e)
             \/ ApplyReplaceAdministrators(p, e) \/ ApplyRejected(p, e)
      PROVE  \E o : Files(p, o)
  BY <1>5, EnrollView, FenceView, PrepareView, ActivateView, PlainView, ReplaceView
<1> QED
  BY <1>1, <1>2, <1>3, <1>4, <1>5, StepKinds

\* Every step keeps the receipts filed.
LEMMA FiledNext ==
    TypeInv /\ ReceiptsFiled /\ [AuthorityNext]_authorityVars => ReceiptsFiled'
<1> SUFFICES ASSUME TypeInv, ReceiptsFiled, [AuthorityNext]_authorityVars,
                    NEW k \in Ids, receipts'[k] # None
             PROVE  receipts'[k].command.id = k /\ receipts'[k].revision <= revision'
  BY DEF ReceiptsFiled
<1>1. revision \in Nat /\ revision' \in Nat /\ revision <= revision'
  BY ReceiptStep DEF TypeInv, AuthorityTypeOK, MetaTypeOK
<1>2. CASE receipts'[k] # receipts[k]
  BY <1>1, <1>2, ReceiptStep
<1>3. CASE receipts'[k] = receipts[k]
  <2>1. receipts[k].revision \in Nat
    BY <1>3 DEF TypeInv, AuthorityTypeOK, RecordsTypeOK, ReceiptsOf
  <2> QED
    BY <1>1, <1>3, <2>1 DEF ReceiptsFiled
<1> QED
  BY <1>2, <1>3

\* A retained receipt stays as it is.
LEMMA ReceiptKept ==
    ASSUME TypeInv, [AuthorityNext]_authorityVars, NEW k \in Ids, receipts[k] # None
    PROVE  receipts'[k] = receipts[k]
BY ReceiptStep

----------------------------------------------------------------------------
(* Each fence admits one replacement *)

ActivatedReceipts ==
    {k \in Ids : receipts[k] # None /\ receipts[k].outcome.kind = "Activated"}

\* Only an activation reports that it activated its target.
ActivatedByActivate ==
    \A k \in ActivatedReceipts : receipts[k].command.action.kind = "Activate"

\* The fence of a fenced tenant is the retained receipt that froze its current
\* incarnation and epoch, and no activation has consumed it.
FencesOpen ==
    \A t \in Tenants : Fenced(t) =>
        LET f == tenant[t].fence
        IN  /\ receipts[f] # None
            /\ receipts[f].command.tenant = t
            /\ receipts[f].outcome =
                  [kind |-> "Fenced", incarnation |-> tenant[t].incarnation,
                   epoch |-> tenant[t].authority_epoch]
            /\ \A k \in ActivatedReceipts : receipts[k].command.action.fence # f

\* The fence an activated receipt consumed is an identity.
LEMMA ConsumedFence ==
    ASSUME TypeInv, ActivatedByActivate, NEW k \in ActivatedReceipts
    PROVE  k \in Ids /\ receipts[k] # None /\ receipts[k].command.action.fence \in Ids
<1>1. k \in Ids /\ receipts[k] # None /\ receipts[k].command.action.kind = "Activate"
  BY DEF ActivatedByActivate, ActivatedReceipts
<1>2. receipts[k].command \in Commands
  BY <1>1 DEF TypeInv, AuthorityTypeOK, RecordsTypeOK, ReceiptsOf
<1> QED
  BY <1>1, <1>2, ActivateFacts

\* The set of activated receipts grows by one activation at a time.
LEMMA ActivatedStep ==
    ASSUME TypeInv, [AuthorityNext]_authorityVars
    PROVE  /\ \A k \in ActivatedReceipts : receipts'[k] = receipts[k]
           /\ \/ ActivatedReceipts' = ActivatedReceipts
              \/ \E p \in proposals, e \in 1 .. MaxTerm :
                    /\ ApplyActivate(p, e)
                    /\ ActivatedReceipts' = ActivatedReceipts \cup {p.command.id}
<1>1. \A k \in ActivatedReceipts : receipts'[k] = receipts[k]
  BY ReceiptKept DEF ActivatedReceipts
<1>2. ASSUME NEW p \in proposals, NEW o, Files(p, o), o.kind # "Activated"
      PROVE  ActivatedReceipts' = ActivatedReceipts
  BY <1>2, FiledReceipt DEF ActivatedReceipts
<1>3. CASE Quiet
  BY <1>3 DEF Quiet, ActivatedReceipts
<1>4. ASSUME NEW p \in proposals, NEW e, ApplyStopActivation(p, e)
      PROVE  ActivatedReceipts' = ActivatedReceipts
  <2> DEFINE c == p.command
             o == c.action.original
  <2>1. /\ receipts[c.id] = None /\ receipts'[c.id].outcome.kind = "ActivationResolved"
        /\ \A k \in Ids : k # c.id /\ k # o.id => receipts'[k] = receipts[k]
    BY <1>4, SettleView
  <2>2. /\ receipts[o.id] # None => receipts'[o.id] = receipts[o.id]
        /\ receipts[o.id] = None => receipts'[o.id].outcome.kind = "ActivationStopped"
    BY <1>4, SettleView
  <2> QED
    BY <2>1, <2>2 DEF ActivatedReceipts
<1>5. ASSUME NEW p \in proposals, NEW e, ApplyActivate(p, e)
      PROVE  ActivatedReceipts' = ActivatedReceipts \cup {p.command.id}
  <2>1. Files(p, ActivatedAs(p.command)) /\ ActivatedAs(p.command).kind = "Activated"
    BY <1>5, ActivateView DEF ActivatedAs
  <2> QED
    BY <2>1, FiledReceipt DEF ActivatedReceipts
<1>6. ASSUME NEW p \in proposals, NEW e,
             \/ ApplyEnroll(p, e) \/ ApplyFence(p, e) \/ ApplyPrepareTarget(p, e)
             \/ ApplyStopTarget(p, e) \/ ApplyReplaceAdministrators(p, e) \/ ApplyRejected(p, e)
      PROVE  \E o : Files(p, o) /\ o.kind # "Activated"
  <2>1. /\ EnrolledAs(p.command).kind # "Activated" /\ FencedAs(p.command).kind # "Activated"
        /\ PreparedFor(p.command).kind # "Activated" /\ ReplacedAs.kind # "Activated"
    BY DEF EnrolledAs, FencedAs, PreparedFor, ReplacedAs
  <2> QED
    BY <1>6, <2>1, EnrollView, FenceView, PrepareView, PlainView, ReplaceView
<1> QED
  BY <1>1, <1>2, <1>3, <1>4, <1>5, <1>6, StepKinds

\* Every step keeps activated receipts to activations.
LEMMA ActivatedByNext ==
    TypeInv /\ ActivatedByActivate /\ [AuthorityNext]_authorityVars => ActivatedByActivate'
<1> SUFFICES ASSUME TypeInv, ActivatedByActivate, [AuthorityNext]_authorityVars
             PROVE  ActivatedByActivate'
  OBVIOUS
<1>1. CASE ActivatedReceipts' = ActivatedReceipts
  BY <1>1, ActivatedStep DEF ActivatedByActivate
<1>2. ASSUME NEW p \in proposals, NEW e, ApplyActivate(p, e),
             ActivatedReceipts' = ActivatedReceipts \cup {p.command.id}
      PROVE  ActivatedByActivate'
  <2>1. receipts'[p.command.id].command.action.kind = "Activate"
    BY <1>2, ActivateView, FiledReceipt
  <2> QED
    BY <1>2, <2>1, ActivatedStep DEF ActivatedByActivate
<1> QED
  BY <1>1, <1>2, ActivatedStep

FenceInv == ReceiptsFiled /\ ActivatedByActivate /\ FencesOpen /\ FenceConsumedOnce

\* An activation consumes the open fence of its source, which nothing consumed
\* before; no other step consumes one.
LEMMA ConsumedNext ==
    TypeInv /\ FenceInv /\ [AuthorityNext]_authorityVars => FenceConsumedOnce'
<1> SUFFICES ASSUME TypeInv, FenceInv, [AuthorityNext]_authorityVars PROVE FenceConsumedOnce'
  OBVIOUS
<1> USE DEF FenceInv
<1> DEFINE fence(k) == receipts[k].command.action.fence
           Froze(k) ==
              /\ receipts[fence(k)] # None
              /\ receipts[fence(k)].outcome =
                    [kind |-> "Fenced", incarnation |-> receipts[k].outcome.target.checkpoint,
                     epoch |-> receipts[k].outcome.epoch - 1]
              /\ receipts[fence(k)].revision < receipts[k].revision
<1>1. /\ \A j, k \in ActivatedReceipts : fence(j) = fence(k) => j = k
      /\ \A k \in ActivatedReceipts : Froze(k)
  BY DEF FenceConsumedOnce, ActivatedReceipts
<1>2. ASSUME NEW k \in ActivatedReceipts
      PROVE  fence(k)' = fence(k) /\ Froze(k)'
  <2>1. receipts'[k] = receipts[k]
    BY ActivatedStep
  <2>2. fence(k) \in Ids
    BY ConsumedFence
  <2>3. receipts'[fence(k)] = receipts[fence(k)]
    BY <1>1, <2>2, ReceiptKept
  <2> QED
    BY <1>1, <2>1, <2>3
<1>3. CASE ActivatedReceipts' = ActivatedReceipts
  <2>1. /\ \A j, k \in ActivatedReceipts' : fence(j)' = fence(k)' => j = k
        /\ \A k \in ActivatedReceipts' : Froze(k)'
    <3> HIDE DEF Froze, fence
    <3> QED
      BY <1>1, <1>2, <1>3
  <2> QED
    BY <2>1 DEF FenceConsumedOnce, ActivatedReceipts
<1>4. ASSUME NEW p \in proposals, NEW e, ApplyActivate(p, e),
             ActivatedReceipts' = ActivatedReceipts \cup {p.command.id}
      PROVE  FenceConsumedOnce'
  <2> DEFINE c == p.command
             f == c.action.fence
  <2>1. /\ Files(p, ActivatedAs(c)) /\ c.tenant \in Tenants /\ f \in Ids
        /\ Fenced(c.tenant) /\ tenant[c.tenant].fence = f
        /\ c.action.target.checkpoint = tenant[c.tenant].incarnation
        /\ tenant[c.tenant].authority_epoch \in Nat
    BY <1>4, ActivateView
  <2>2. /\ receipts'[c.id].command = c /\ receipts'[c.id].revision = revision + 1
        /\ receipts'[c.id].outcome = ActivatedAs(c)
    BY <2>1, FiledReceipt
  <2>3. /\ receipts[f] # None
        /\ receipts[f].outcome = [kind |-> "Fenced", incarnation |-> c.action.target.checkpoint,
                                  epoch |-> tenant[c.tenant].authority_epoch]
        /\ \A k \in ActivatedReceipts : fence(k) # f
    BY <2>1 DEF FencesOpen
  <2>4. receipts'[f] = receipts[f]
    BY <2>1, <2>3, ReceiptKept
  <2>5. receipts[f].revision < revision + 1
    <3>1. receipts[f].revision \in Nat /\ revision \in Nat
      BY <2>1, <2>3 DEF TypeInv, AuthorityTypeOK, RecordsTypeOK, MetaTypeOK, ReceiptsOf
    <3>2. receipts[f].revision <= revision
      BY <2>1, <2>3 DEF ReceiptsFiled
    <3> QED
      BY <3>1, <3>2
  <2>6. /\ ActivatedAs(c).target = c.action.target
        /\ ActivatedAs(c).epoch - 1 = tenant[c.tenant].authority_epoch
    BY <2>1 DEF ActivatedAs
  <2>7. fence(c.id)' = f /\ Froze(c.id)'
    BY <2>2, <2>3, <2>4, <2>5, <2>6
  <2>8. /\ \A j, k \in ActivatedReceipts' : fence(j)' = fence(k)' => j = k
        /\ \A k \in ActivatedReceipts' : Froze(k)'
    <3> HIDE DEF Froze, fence
    <3> QED
      BY <1>1, <1>2, <1>4, <2>3, <2>7
  <2> QED
    BY <2>8 DEF FenceConsumedOnce, ActivatedReceipts
<1> QED
  BY <1>3, <1>4, ActivatedStep

\* Which step changes a tenant's record, and how.
LEMMA TenantStep ==
    ASSUME TypeInv, [AuthorityNext]_authorityVars, NEW t \in Tenants
    PROVE  \/ tenant'[t] = tenant[t]
           \/ \E p \in proposals, e \in 1 .. MaxTerm :
                 /\ p.command.tenant = t
                 /\ ApplyEnroll(p, e) \/ ApplyFence(p, e) \/ ApplyActivate(p, e)
<1>1. CASE Quiet
  BY <1>1 DEF Quiet
<1>2. ASSUME NEW p \in proposals, NEW e,
             ApplyPrepareTarget(p, e) \/ ApplyStopTarget(p, e) \/ ApplyStopActivation(p, e)
                \/ ApplyReplaceAdministrators(p, e) \/ ApplyRejected(p, e)
      PROVE  tenant' = tenant
  BY <1>2, PrepareView, PlainView, SettleView, ReplaceView
<1>3. ASSUME NEW p \in proposals, NEW e, p.command.tenant # t,
             ApplyEnroll(p, e) \/ ApplyFence(p, e) \/ ApplyActivate(p, e)
      PROVE  tenant'[t] = tenant[t]
  BY <1>3, EnrollView, FenceView, ActivateView
<1> QED
  BY <1>1, <1>2, <1>3, StepKinds

\* Every step keeps the fences of fenced tenants open.
LEMMA FencesOpenNext ==
    TypeInv /\ FenceInv /\ [AuthorityNext]_authorityVars => FencesOpen'
<1> SUFFICES ASSUME TypeInv, FenceInv, [AuthorityNext]_authorityVars,
                    NEW t \in Tenants, Fenced(t)'
             PROVE  LET f == tenant'[t].fence
                    IN  /\ receipts'[f] # None
                        /\ receipts'[f].command.tenant = t
                        /\ receipts'[f].outcome =
                              [kind |-> "Fenced", incarnation |-> tenant'[t].incarnation,
                               epoch |-> tenant'[t].authority_epoch]
                        /\ \A k \in ActivatedReceipts' : receipts'[k].command.action.fence # f
  BY DEF FencesOpen
<1> USE DEF FenceInv
<1> DEFINE f == tenant'[t].fence
<1>1. CASE tenant'[t] = tenant[t]
  <2>1. Fenced(t)
    BY <1>1 DEF Fenced
  <2>2. /\ f = tenant[t].fence /\ receipts[f] # None /\ receipts[f].command.tenant = t
        /\ receipts[f].outcome =
              [kind |-> "Fenced", incarnation |-> tenant[t].incarnation,
               epoch |-> tenant[t].authority_epoch]
        /\ \A k \in ActivatedReceipts : receipts[k].command.action.fence # f
    BY <1>1, <2>1 DEF FencesOpen
  <2>3. f \in Ids
    BY <1>1, <2>1 DEF Fenced, TypeInv, AuthorityTypeOK, RecordsTypeOK, TenantRecords
  <2>4. receipts'[f] = receipts[f]
    BY <2>2, <2>3, ReceiptKept
  <2>5. \A k \in ActivatedReceipts' : receipts'[k].command.action.fence # f
    <3>1. \A k \in ActivatedReceipts : receipts'[k].command.action.fence # f
      BY <2>2, ActivatedStep
    <3>2. ASSUME NEW p \in proposals, NEW e, ApplyActivate(p, e)
          PROVE  receipts'[p.command.id].command.action.fence # f
      <4> DEFINE c == p.command
      <4>1. /\ Files(p, ActivatedAs(c)) /\ c.tenant \in Tenants /\ Fenced(c.tenant)
            /\ tenant[c.tenant].fence = c.action.fence /\ tenant'[c.tenant].fence = None
        BY <3>2, ActivateView
      <4>2. receipts'[c.id].command = c
        BY <4>1, FiledReceipt
      <4>3. receipts[c.action.fence].command.tenant = c.tenant
        BY <4>1 DEF FencesOpen
      <4>4. c.tenant # t
        BY <1>1, <2>1, <4>1 DEF Fenced
      <4> QED
        BY <2>2, <4>2, <4>3, <4>4
    <3> QED
      BY <3>1, <3>2, ActivatedStep
  <2> QED
    BY <1>1, <2>2, <2>4, <2>5
<1>2. ASSUME NEW p \in proposals, NEW e, p.command.tenant = t,
             ApplyEnroll(p, e) \/ ApplyActivate(p, e)
      PROVE  FALSE
  BY <1>2, EnrollView, ActivateView DEF Fenced
<1>3. ASSUME NEW p \in proposals, NEW e \in 1 .. MaxTerm, p.command.tenant = t, ApplyFence(p, e)
      PROVE  /\ receipts'[f] # None
             /\ receipts'[f].command.tenant = t
             /\ receipts'[f].outcome =
                   [kind |-> "Fenced", incarnation |-> tenant'[t].incarnation,
                    epoch |-> tenant'[t].authority_epoch]
             /\ \A k \in ActivatedReceipts' : receipts'[k].command.action.fence # f
  <2> DEFINE c == p.command
  <2>1. /\ Files(p, FencedAs(c)) /\ f = c.id /\ c.id \in Ids
        /\ tenant'[t].incarnation = c.action.incarnation
        /\ tenant'[t].authority_epoch = c.action.epoch
    BY <1>3, FenceView
  <2>2. /\ receipts[f] = None /\ receipts'[f] # None /\ receipts'[f].command = c
        /\ receipts'[f].outcome = FencedAs(c)
    BY <2>1, FiledReceipt
  <2>3. ASSUME NEW k \in ActivatedReceipts PROVE receipts'[k].command.action.fence # f
    <3>1. receipts[receipts[k].command.action.fence] # None
      BY DEF FenceConsumedOnce, ActivatedReceipts
    <3> QED
      BY <2>2, <3>1, ActivatedStep
  <2>4. ActivatedReceipts' = ActivatedReceipts
    <3>1. FencedAs(c).kind # "Activated"
      BY DEF FencedAs
    <3> QED
      BY <2>1, <3>1, FiledReceipt DEF ActivatedReceipts
  <2> QED
    BY <1>3, <2>1, <2>2, <2>3, <2>4 DEF FencedAs
<1> QED
  BY <1>1, <1>2, <1>3, TenantStep

\* The invariant of fences and their consumption holds from the start and is
\* kept by every step.
LEMMA FenceInvInit == AuthorityInit => FenceInv
<1> SUFFICES ASSUME AuthorityInit PROVE FenceInv
  OBVIOUS
<1>1. (\A k \in Ids : receipts[k] = None) /\ (\A t \in Tenants : tenant[t] = None)
  BY DEF AuthorityInit
<1>2. ActivatedReceipts = {}
  BY <1>1 DEF ActivatedReceipts
<1>3. ReceiptsFiled /\ ActivatedByActivate /\ FencesOpen
  BY <1>1, <1>2 DEF ReceiptsFiled, ActivatedByActivate, FencesOpen, Fenced
<1>4. FenceConsumedOnce
  BY <1>1 DEF FenceConsumedOnce
<1> QED
  BY <1>3, <1>4 DEF FenceInv

\* Every step keeps the invariant of fences and their consumption.
LEMMA FenceInvNext == TypeInv /\ FenceInv /\ [AuthorityNext]_authorityVars => FenceInv'
BY FiledNext, ActivatedByNext, FencesOpenNext, ConsumedNext DEF FenceInv

----------------------------------------------------------------------------
(* A disputed activation has one outcome *)

\* The receipt of every incarnation is the one its command retains, and it says
\* that the incarnation was enrolled or activated.
IncarnationsRecorded ==
    \A t \in Tenants, i \in Incarnations :
        incarnations[t][i] # None =>
            LET r == incarnations[t][i].receipt
            IN  /\ receipts[r.command.id] = r
                /\ r.outcome.kind \in {"Enrolled", "Activated"}

\* What a StopActivation reported of its original is what the original retains.
ResolvedAsRetained ==
    \A k \in Ids :
        receipts[k] # None /\ receipts[k].outcome.kind = "ActivationResolved" =>
            LET o == receipts[k].outcome.original
            IN  receipts[o.command.id] = o

\* The identity of a plain receipt's command.
LEMMA PlainReceiptIs ==
    ASSUME NEW r \in ReceiptsOf(PlainOutcomes) PROVE r.command.id \in Ids /\ r # None
BY CommandFacts, PlainIsReceipt DEF ReceiptsOf

\* The permanent record of an incarnation always keeps a retained receipt.
LEMMA RecordedNext ==
    TypeInv /\ IncarnationsRecorded /\ [AuthorityNext]_authorityVars => IncarnationsRecorded'
<1> SUFFICES ASSUME TypeInv, IncarnationsRecorded, [AuthorityNext]_authorityVars,
                    NEW t \in Tenants, NEW i \in Incarnations, incarnations'[t][i] # None
             PROVE  LET r == incarnations'[t][i].receipt
                    IN  /\ receipts'[r.command.id] = r
                        /\ r.outcome.kind \in {"Enrolled", "Activated"}
  BY DEF IncarnationsRecorded
<1>1. CASE incarnations'[t][i] = incarnations[t][i]
  <2> DEFINE r == incarnations[t][i].receipt
  <2>1. r \in ReceiptsOf(PlainOutcomes)
    BY <1>1 DEF TypeInv, AuthorityTypeOK, RecordsTypeOK, IncarnationRecords
  <2>2. r.command.id \in Ids /\ r # None
    BY <2>1, PlainReceiptIs
  <2>3. receipts[r.command.id] = r /\ r.outcome.kind \in {"Enrolled", "Activated"}
    BY <1>1 DEF IncarnationsRecorded
  <2>4. receipts'[r.command.id] = r
    BY <2>2, <2>3, ReceiptKept
  <2> QED
    BY <1>1, <2>3, <2>4
<1>2. ASSUME NEW p \in proposals, NEW e, ApplyEnroll(p, e) \/ ApplyActivate(p, e),
             incarnations'[t][i] # incarnations[t][i]
      PROVE  /\ incarnations'[t][i].receipt = receipts'[p.command.id]
             /\ receipts'[p.command.id].command = p.command
             /\ receipts'[p.command.id].outcome.kind \in {"Enrolled", "Activated"}
  <2>1. EnrolledAs(p.command).kind = "Enrolled" /\ ActivatedAs(p.command).kind = "Activated"
    BY DEF EnrolledAs, ActivatedAs
  <2>2. CASE ApplyEnroll(p, e)
    <3>1. incarnations'[t][i].receipt = receipts'[p.command.id] /\ Files(p, EnrolledAs(p.command))
      BY <1>2, <2>2, EnrollView
    <3> QED
      BY <2>1, <3>1, FiledReceipt
  <2>3. CASE ApplyActivate(p, e)
    <3>1. incarnations'[t][i].receipt = receipts'[p.command.id] /\ Files(p, ActivatedAs(p.command))
      BY <1>2, <2>3, ActivateView
    <3> QED
      BY <2>1, <3>1, FiledReceipt
  <2> QED
    BY <1>2, <2>2, <2>3
<1>3. ASSUME NEW p \in proposals, NEW e,
             \/ ApplyFence(p, e) \/ ApplyPrepareTarget(p, e) \/ ApplyStopTarget(p, e)
             \/ ApplyStopActivation(p, e) \/ ApplyReplaceAdministrators(p, e)
             \/ ApplyRejected(p, e)
      PROVE  incarnations' = incarnations
  BY <1>3, FenceView, PrepareView, PlainView, SettleView, ReplaceView
<1> QED
  BY <1>1, <1>2, <1>3, StepKinds DEF Quiet

\* A resolution reports the original's retained receipt, which nothing replaces.
LEMMA ResolvedNext ==
    TypeInv /\ ResolvedAsRetained /\ [AuthorityNext]_authorityVars => ResolvedAsRetained'
<1> SUFFICES ASSUME TypeInv, ResolvedAsRetained, [AuthorityNext]_authorityVars,
                    NEW k \in Ids, receipts'[k] # None,
                    receipts'[k].outcome.kind = "ActivationResolved"
             PROVE  LET o == receipts'[k].outcome.original
                    IN  receipts'[o.command.id] = o
  BY DEF ResolvedAsRetained
<1>1. CASE receipts'[k] = receipts[k]
  <2> DEFINE o == receipts[k].outcome.original
  <2>1. receipts[k].outcome \in Outcomes
    BY <1>1 DEF TypeInv, AuthorityTypeOK, RecordsTypeOK, ReceiptsOf
  <2>2. o \in ReceiptsOf(PlainOutcomes)
    BY <1>1, <2>1 DEF Outcomes, PlainOutcomes
  <2>3. receipts[o.command.id] = o /\ o.command.id \in Ids /\ o # None
    BY <1>1, <2>2, PlainReceiptIs DEF ResolvedAsRetained
  <2> QED
    BY <1>1, <2>3, ReceiptKept
<1>2. ASSUME NEW p \in proposals, NEW o, Files(p, o), o.kind # "ActivationResolved"
      PROVE  receipts'[k] = receipts[k]
  BY <1>2, FiledReceipt
<1>3. ASSUME NEW p \in proposals, NEW e, ApplyStopActivation(p, e), receipts'[k] # receipts[k]
      PROVE  LET o == receipts'[k].outcome.original
             IN  receipts'[o.command.id] = o
  <2> DEFINE c == p.command
  <2>1. k = c.id
    BY <1>3, SettleView
  <2>2. receipts'[k].outcome = [kind |-> "ActivationResolved", original |-> OriginalOf(p)]
    BY <1>3, <2>1, SettleView
  <2>3. receipts'[k].outcome.original = OriginalOf(p)
    BY <2>2
  <2>4. /\ OriginalOf(p).command = c.action.original
        /\ receipts'[c.action.original.id] = OriginalOf(p)
    BY <1>3, SettleView
  <2> QED
    BY <2>3, <2>4
<1>4. ASSUME NEW p \in proposals, NEW e,
             \/ ApplyEnroll(p, e) \/ ApplyFence(p, e) \/ ApplyPrepareTarget(p, e)
             \/ ApplyActivate(p, e) \/ ApplyStopTarget(p, e)
             \/ ApplyReplaceAdministrators(p, e) \/ ApplyRejected(p, e)
      PROVE  \E o : Files(p, o) /\ o.kind # "ActivationResolved"
  <2>1. /\ EnrolledAs(p.command).kind # "ActivationResolved"
        /\ FencedAs(p.command).kind # "ActivationResolved"
        /\ PreparedFor(p.command).kind # "ActivationResolved"
        /\ ActivatedAs(p.command).kind # "ActivationResolved"
        /\ ReplacedAs.kind # "ActivationResolved"
    BY DEF EnrolledAs, FencedAs, PreparedFor, ActivatedAs, ReplacedAs
  <2> QED
    BY <1>4, <2>1, EnrollView, FenceView, PrepareView, ActivateView, PlainView, ReplaceView
<1> QED
  BY <1>1, <1>2, <1>3, <1>4, StepKinds DEF Quiet

\* Together they settle every disputed activation once: an original that was
\* stopped is no incarnation's receipt.
LEMMA ResolvedOnce ==
    ASSUME TypeInv, IncarnationsRecorded, ResolvedAsRetained PROVE ActivationResolvedOnce
<1> SUFFICES ASSUME NEW k \in Ids, receipts[k] # None,
                    receipts[k].outcome.kind = "ActivationResolved",
                    receipts[k].outcome.original.outcome.kind = "ActivationStopped",
                    NEW t \in Tenants, NEW i \in Incarnations, incarnations[t][i] # None,
                    incarnations[t][i].receipt.command = receipts[k].outcome.original.command
             PROVE  FALSE
  BY DEF ActivationResolvedOnce, ResolvedAsRetained
<1>1. receipts[receipts[k].outcome.original.command.id] = receipts[k].outcome.original
  BY DEF ResolvedAsRetained
<1>2. /\ receipts[incarnations[t][i].receipt.command.id] = incarnations[t][i].receipt
      /\ incarnations[t][i].receipt.outcome.kind \in {"Enrolled", "Activated"}
  BY DEF IncarnationsRecorded
<1> QED
  BY <1>1, <1>2

----------------------------------------------------------------------------
(* Each epoch names one incarnation *)

HeldBy(t) == {i \in Incarnations : incarnations[t][i] # None}

\* Finitely many incarnations are on record, none newer than the active one, and
\* only an enrolled tenant has preparations.
EpochsBounded ==
    \A t \in Tenants :
        /\ IsFiniteSet(HeldBy(t))
        /\ tenant[t] # None =>
              \A i \in HeldBy(t) : incarnations[t][i].epoch <= tenant[t].authority_epoch
        /\ \A i \in Incarnations : preparations[t][i] # None => tenant[t] # None

EpochInv == EpochsNameIncarnations /\ EpochsBounded

\* What EpochInv says of one tenant.
EpochsOf(t) ==
    /\ HeldBy(t) # {} => tenant[t] # None
    /\ tenant[t] # None =>
          /\ tenant[t].incarnation \in HeldBy(t)
          /\ incarnations[t][tenant[t].incarnation].epoch = tenant[t].authority_epoch
          /\ tenant[t].authority_epoch = Cardinality(HeldBy(t))
          /\ \A i \in HeldBy(t) : incarnations[t][i].epoch <= tenant[t].authority_epoch
    /\ \A i, j \in HeldBy(t) : incarnations[t][i].epoch = incarnations[t][j].epoch => i = j
    /\ IsFiniteSet(HeldBy(t))
    /\ \A i \in Incarnations : preparations[t][i] # None => tenant[t] # None

\* The invariant of epochs is one statement about each tenant.
LEMMA EpochInvIs == EpochInv <=> \A t \in Tenants : EpochsOf(t)
BY DEF EpochInv, EpochsNameIncarnations, EpochsBounded, EpochsOf, HeldBy

\* A tenant's incarnations and preparations, on a step that neither enrolls nor
\* activates it: the incarnations stay, and so does whether it is enrolled.
LEMMA SameEpochs ==
    ASSUME TypeInv, [AuthorityNext]_authorityVars, NEW t \in Tenants,
           ~ \E p \in proposals, e \in 1 .. MaxTerm :
                p.command.tenant = t /\ (ApplyEnroll(p, e) \/ ApplyActivate(p, e))
    PROVE  /\ \A i \in Incarnations : incarnations'[t][i] = incarnations[t][i]
           /\ tenant'[t] # None <=> tenant[t] # None
           /\ tenant[t] # None => /\ tenant'[t].incarnation = tenant[t].incarnation
                                  /\ tenant'[t].authority_epoch = tenant[t].authority_epoch
           /\ \A i \in Incarnations : preparations'[t][i] = preparations[t][i] \/ tenant[t] # None
<1>1. CASE Quiet
  BY <1>1 DEF Quiet
<1>2. ASSUME NEW p \in proposals, NEW e, ApplyFence(p, e)
      PROVE  /\ incarnations' = incarnations /\ preparations' = preparations
             /\ tenant'[t] # None <=> tenant[t] # None
             /\ tenant[t] # None => /\ tenant'[t].incarnation = tenant[t].incarnation
                                    /\ tenant'[t].authority_epoch = tenant[t].authority_epoch
  <2>1. CASE t = p.command.tenant
    BY <1>2, <2>1, FenceView
  <2>2. CASE t # p.command.tenant
    BY <1>2, <2>2, FenceView
  <2> QED
    BY <2>1, <2>2
<1>3. ASSUME NEW p \in proposals, NEW e, ApplyPrepareTarget(p, e)
      PROVE  /\ incarnations' = incarnations /\ tenant' = tenant
             /\ \A i \in Incarnations : preparations'[t][i] = preparations[t][i] \/ tenant[t] # None
  BY <1>3, PrepareView
<1>4. ASSUME NEW p \in proposals, NEW e,
             \/ ApplyStopTarget(p, e) \/ ApplyStopActivation(p, e)
             \/ ApplyReplaceAdministrators(p, e) \/ ApplyRejected(p, e)
      PROVE  incarnations' = incarnations /\ tenant' = tenant /\ preparations' = preparations
  BY <1>4, PlainView, SettleView, ReplaceView
<1>5. ASSUME NEW p \in proposals, NEW e, p.command.tenant # t,
             ApplyEnroll(p, e) \/ ApplyActivate(p, e)
      PROVE  /\ tenant'[t] = tenant[t] /\ preparations' = preparations
             /\ \A i \in Incarnations : incarnations'[t][i] = incarnations[t][i]
  BY <1>5, EnrollView, ActivateView
<1> QED
  BY <1>1, <1>2, <1>3, <1>4, <1>5, StepKinds

\* Enrolling a tenant makes its incarnation the only one, at epoch 1.
LEMMA EpochsEnroll ==
    ASSUME TypeInv, NEW p \in proposals, NEW e, ApplyEnroll(p, e), EpochsOf(p.command.tenant)
    PROVE  EpochsOf(p.command.tenant)'
<1> DEFINE t == p.command.tenant
           i == p.command.action.incarnation
<1>1. /\ t \in Tenants /\ i \in Incarnations /\ tenant[t] = None
      /\ tenant'[t] # None /\ tenant'[t].incarnation = i /\ tenant'[t].authority_epoch = 1
      /\ incarnations'[t][i] # None /\ incarnations'[t][i].epoch = 1
      /\ \A j \in Incarnations : j # i => incarnations'[t][j] = incarnations[t][j]
  BY EnrollView
<1>2. HeldBy(t) = {}
  BY <1>1 DEF EpochsOf
<1>3. HeldBy(t)' = {i}
  BY <1>1, <1>2 DEF HeldBy
<1>4. IsFiniteSet({i}) /\ Cardinality({i}) = 1
  BY FS_Singleton
<1> QED
  BY <1>1, <1>3, <1>4 DEF EpochsOf

\* Activating a target adds one incarnation, at the next epoch.
LEMMA EpochsActivate ==
    ASSUME TypeInv, NEW p \in proposals, NEW e, ApplyActivate(p, e), EpochsOf(p.command.tenant)
    PROVE  EpochsOf(p.command.tenant)'
<1> DEFINE t == p.command.tenant
           i == p.command.action.target.incarnation
           n == tenant[t].authority_epoch + 1
<1>1. /\ t \in Tenants /\ i \in Incarnations /\ tenant[t] # None
      /\ incarnations[t][i] = None /\ tenant[t].authority_epoch \in Nat
      /\ tenant'[t] # None /\ tenant'[t].incarnation = i /\ tenant'[t].authority_epoch = n
      /\ incarnations'[t][i] # None /\ incarnations'[t][i].epoch = n
      /\ \A j \in Incarnations : j # i => incarnations'[t][j] = incarnations[t][j]
  BY ActivateView DEF Fenced
<1>2. HeldBy(t)' = HeldBy(t) \cup {i} /\ i \notin HeldBy(t)
  BY <1>1 DEF HeldBy
<1>3. /\ IsFiniteSet(HeldBy(t)) /\ tenant[t].authority_epoch = Cardinality(HeldBy(t))
      /\ \A j \in HeldBy(t) : incarnations[t][j].epoch <= tenant[t].authority_epoch
      /\ \A j, k \in HeldBy(t) : incarnations[t][j].epoch = incarnations[t][k].epoch => j = k
  BY <1>1 DEF EpochsOf
<1>4. IsFiniteSet(HeldBy(t)') /\ Cardinality(HeldBy(t)') = n
  <2> DEFINE S == HeldBy(t)
  <2>1. IsFiniteSet(S) /\ i \notin S /\ Cardinality(S) = tenant[t].authority_epoch
    BY <1>2, <1>3
  <2> HIDE DEF S
  <2>2. IsFiniteSet(S \cup {i}) /\ Cardinality(S \cup {i}) = Cardinality(S) + 1
    BY <2>1, FS_AddElement
  <2> QED
    BY <1>2, <2>1, <2>2 DEF S
<1>5. \A j \in HeldBy(t) : j \in Incarnations /\ incarnations[t][j].epoch \in Nat
  BY <1>1 DEF HeldBy, TypeInv, AuthorityTypeOK, RecordsTypeOK, IncarnationRecords
<1>6. \A j \in HeldBy(t) : /\ incarnations'[t][j].epoch = incarnations[t][j].epoch
                           /\ incarnations'[t][j].epoch < n
                           /\ incarnations'[t][j].epoch # n
  <2> SUFFICES ASSUME NEW j \in HeldBy(t)
               PROVE  /\ incarnations'[t][j].epoch = incarnations[t][j].epoch
                      /\ incarnations[t][j].epoch < n /\ incarnations[t][j].epoch # n
    OBVIOUS
  <2>1. /\ incarnations[t][j].epoch \in Nat
        /\ incarnations[t][j].epoch <= tenant[t].authority_epoch
    BY <1>3, <1>5
  <2>2. incarnations'[t][j] = incarnations[t][j]
    BY <1>1, <1>2, <1>5
  <2> QED
    BY <1>1, <2>1, <2>2
<1>7. \A j \in HeldBy(t)' : incarnations'[t][j].epoch <= n
  <2> SUFFICES ASSUME NEW j \in HeldBy(t)' PROVE incarnations'[t][j].epoch <= n
    OBVIOUS
  <2>1. CASE j = i
    BY <1>1, <2>1
  <2>2. CASE j \in HeldBy(t)
    <3>1. incarnations[t][j].epoch \in Nat /\ incarnations[t][j].epoch < n
      BY <1>5, <1>6, <2>2
    <3>2. incarnations'[t][j].epoch = incarnations[t][j].epoch
      BY <1>6, <2>2
    <3>3. n \in Nat
      BY <1>1
    <3> HIDE DEF n
    <3> QED
      BY <3>1, <3>2, <3>3
  <2> QED
    BY <1>2, <2>1, <2>2
<1>8. \A j, k \in HeldBy(t)' : incarnations'[t][j].epoch = incarnations'[t][k].epoch => j = k
  <2> DEFINE S == HeldBy(t)
             ep(j) == incarnations'[t][j].epoch
  <2>1. (\A j \in S : ep(j) # n) /\ ep(i) = n
    BY <1>1, <1>6
  <2>2. \A j, k \in S : ep(j) = ep(k) => j = k
    BY <1>3, <1>6
  <2>3. HeldBy(t)' = S \cup {i}
    BY <1>2
  <2> HIDE DEF S, ep, n
  <2>4. \A j, k \in HeldBy(t)' : ep(j) = ep(k) => j = k
    BY <2>1, <2>2, <2>3
  <2> QED
    BY <2>4 DEF ep
<1>9. i \in HeldBy(t)'
  BY <1>2
<1> QED
  BY <1>1, <1>4, <1>7, <1>8, <1>9 DEF EpochsOf

\* Every step keeps the epochs of every tenant.
LEMMA EpochsNext == TypeInv /\ EpochInv /\ [AuthorityNext]_authorityVars => EpochInv'
<1> SUFFICES ASSUME TypeInv, \A t \in Tenants : EpochsOf(t), [AuthorityNext]_authorityVars,
                    NEW t \in Tenants
             PROVE  EpochsOf(t)'
  BY EpochInvIs DEF EpochInv, EpochsNameIncarnations, EpochsBounded, EpochsOf, HeldBy
<1>1. ASSUME NEW p \in proposals, NEW e, p.command.tenant = t,
             ApplyEnroll(p, e) \/ ApplyActivate(p, e)
      PROVE  EpochsOf(t)'
  BY <1>1, EpochsEnroll, EpochsActivate
<1>2. CASE ~ \E p \in proposals, e \in 1 .. MaxTerm :
                p.command.tenant = t /\ (ApplyEnroll(p, e) \/ ApplyActivate(p, e))
  <2>1. /\ \A i \in Incarnations : incarnations'[t][i] = incarnations[t][i]
        /\ tenant'[t] # None <=> tenant[t] # None
        /\ tenant[t] # None => /\ tenant'[t].incarnation = tenant[t].incarnation
                               /\ tenant'[t].authority_epoch = tenant[t].authority_epoch
        /\ \A i \in Incarnations : preparations'[t][i] = preparations[t][i] \/ tenant[t] # None
    BY <1>2, SameEpochs
  <2>2. HeldBy(t)' = HeldBy(t) /\ HeldBy(t) \subseteq Incarnations
    BY <2>1 DEF HeldBy
  <2> QED
    BY <2>1, <2>2 DEF EpochsOf
<1> QED
  BY <1>1, <1>2

\* A new partition has no tenant and no incarnation.
LEMMA EpochsInit == AuthorityInit => EpochInv
<1> SUFFICES ASSUME AuthorityInit, NEW t \in Tenants PROVE EpochsOf(t)
  BY EpochInvIs
<1>1. tenant[t] = None /\ \A i \in Incarnations : preparations[t][i] = None
  BY DEF AuthorityInit
<1>2. HeldBy(t) = {}
  BY DEF AuthorityInit, HeldBy
<1> QED
  BY <1>1, <1>2, FS_EmptySet DEF EpochsOf

\* The inductive invariant behind the history of replacements.
ForkInv ==
    /\ TypeInv /\ FenceInv /\ EpochInv
    /\ IncarnationsRecorded /\ ResolvedAsRetained

\* The invariant of histories holds in a new partition.
LEMMA ForkInit == AuthorityInit => ForkInv
<1> SUFFICES ASSUME AuthorityInit PROVE ForkInv
  OBVIOUS
<1>1. IncarnationsRecorded /\ ResolvedAsRetained
  BY DEF AuthorityInit, IncarnationsRecorded, ResolvedAsRetained
<1> QED
  BY <1>1, TypeInit, FenceInvInit, EpochsInit DEF ForkInv

\* Every step keeps the invariant of histories.
LEMMA ForkNext == ForkInv /\ [AuthorityNext]_authorityVars => ForkInv'
BY TypeNext, FenceInvNext, EpochsNext, RecordedNext, ResolvedNext DEF ForkInv

\* The history of a tenant never forks: each epoch names one incarnation, each
\* fence admits one replacement of the source it froze, and each disputed
\* activation has one outcome, for any number of tenants, targets and commands.
THEOREM HistoryNeverForks == AuthoritySpec => []ReplacementNeverForks
<1>1. ForkInv => ReplacementNeverForks
  BY ResolvedOnce DEF ForkInv, FenceInv, EpochInv, ReplacementNeverForks
<1> QED
  BY <1>1, ForkInit, ForkNext, PTL DEF AuthoritySpec

----------------------------------------------------------------------------
(* What was admitted is checked again where it is ordered *)

\* A preparation is written only of an incarnation that is not on record, and a
\* recorded incarnation was activated as its preparation, if any, named it.
LEMMA PreparationNext ==
    TypeInv /\ EpochInv /\ PreparationBinds /\ [AuthorityNext]_authorityVars => PreparationBinds'
<1> SUFFICES ASSUME TypeInv, EpochInv, PreparationBinds, [AuthorityNext]_authorityVars,
                    NEW t \in Tenants, NEW i \in Incarnations,
                    preparations'[t][i] # None, incarnations'[t][i] # None
             PROVE  incarnations'[t][i].receipt.outcome =
                        [kind |-> "Activated", target |-> preparations'[t][i].target,
                         epoch |-> preparations'[t][i].epoch + 1]
  BY DEF PreparationBinds
<1>1. CASE preparations'[t][i] = preparations[t][i] /\ incarnations'[t][i] = incarnations[t][i]
  BY <1>1 DEF PreparationBinds
<1>2. ASSUME NEW p \in proposals, NEW e, ApplyPrepareTarget(p, e)
      PROVE  preparations'[t][i] = preparations[t][i] /\ incarnations'[t][i] = incarnations[t][i]
  BY <1>2, PrepareView
<1>3. ASSUME NEW p \in proposals, NEW e, ApplyEnroll(p, e)
      PROVE  preparations'[t][i] = preparations[t][i] /\ incarnations'[t][i] = incarnations[t][i]
  <2>1. tenant[p.command.tenant] = None /\ preparations' = preparations
    BY <1>3, EnrollView
  <2>2. t # p.command.tenant
    BY <2>1 DEF EpochInv, EpochsBounded
  <2> QED
    BY <1>3, <2>1, <2>2, EnrollView
<1>4. ASSUME NEW p \in proposals, NEW e, ApplyActivate(p, e),
             incarnations'[t][i] # incarnations[t][i]
      PROVE  incarnations'[t][i].receipt.outcome =
                 [kind |-> "Activated", target |-> preparations'[t][i].target,
                  epoch |-> preparations'[t][i].epoch + 1]
  <2> DEFINE c == p.command
  <2>1. /\ t = c.tenant /\ i = c.action.target.incarnation /\ Files(p, ActivatedAs(c))
        /\ incarnations'[t][i].receipt = receipts'[c.id] /\ preparations' = preparations
        /\ PreparedAs(t, c.action.target, tenant[t].incarnation, tenant[t].authority_epoch)
    BY <1>4, ActivateView
  <2>2. receipts'[c.id].outcome = ActivatedAs(c)
    BY <2>1, FiledReceipt
  <2>3. /\ preparations[t][i].target = c.action.target
        /\ preparations[t][i].epoch = tenant[t].authority_epoch
    BY <2>1 DEF PreparedAs
  <2> QED
    BY <2>1, <2>2, <2>3 DEF ActivatedAs
<1>5. ASSUME NEW p \in proposals, NEW e,
             \/ ApplyFence(p, e) \/ ApplyStopTarget(p, e) \/ ApplyStopActivation(p, e)
             \/ ApplyReplaceAdministrators(p, e) \/ ApplyRejected(p, e)
      PROVE  incarnations' = incarnations /\ preparations' = preparations
  BY <1>5, FenceView, PlainView, SettleView, ReplaceView
<1>6. ASSUME NEW p \in proposals, NEW e, ApplyActivate(p, e) PROVE preparations' = preparations
  BY <1>6, ActivateView
<1> QED
  BY <1>1, <1>2, <1>3, <1>4, <1>5, <1>6, StepKinds DEF Quiet

Replacements ==
    {k \in Ids : receipts[k] # None /\ receipts[k].outcome.kind = "AdministratorsReplaced"}

\* The policy epoch counts the replacements of the administrators.
PolicyCounted == IsFiniteSet(Replacements) /\ policy_epoch = 1 + Cardinality(Replacements)

\* A replacement opens the next policy epoch; no other step changes the policy.
LEMMA ReplacementStep ==
    ASSUME TypeInv, [AuthorityNext]_authorityVars
    PROVE  \/ Replacements' = Replacements /\ policy_epoch' = policy_epoch
           \/ \E p \in proposals : /\ Replacements' = Replacements \cup {p.command.id}
                                   /\ p.command.id \notin Replacements
                                   /\ policy_epoch' = policy_epoch + 1
<1>1. ASSUME NEW p \in proposals, NEW o, Files(p, o), o.kind # "AdministratorsReplaced"
      PROVE  Replacements' = Replacements
  BY <1>1, FiledReceipt DEF Replacements
<1>2. CASE Quiet
  BY <1>2 DEF Quiet, Replacements
<1>3. ASSUME NEW p \in proposals, NEW e, ApplyStopActivation(p, e)
      PROVE  Replacements' = Replacements /\ policy_epoch' = policy_epoch
  <2> DEFINE c == p.command
             o == c.action.original
  <2>1. /\ receipts[c.id] = None /\ receipts'[c.id].outcome.kind = "ActivationResolved"
        /\ \A k \in Ids : k # c.id /\ k # o.id => receipts'[k] = receipts[k]
        /\ policy_epoch' = policy_epoch
    BY <1>3, SettleView
  <2>2. /\ receipts[o.id] # None => receipts'[o.id] = receipts[o.id]
        /\ receipts[o.id] = None => receipts'[o.id].outcome.kind = "ActivationStopped"
    BY <1>3, SettleView
  <2> QED
    BY <2>1, <2>2 DEF Replacements
<1>4. ASSUME NEW p \in proposals, NEW e, ApplyReplaceAdministrators(p, e)
      PROVE  /\ Replacements' = Replacements \cup {p.command.id}
             /\ p.command.id \notin Replacements /\ policy_epoch' = policy_epoch + 1
  <2>1. /\ Files(p, ReplacedAs) /\ ReplacedAs.kind = "AdministratorsReplaced"
        /\ policy_epoch' = policy_epoch + 1
    BY <1>4, ReplaceView DEF ReplacedAs
  <2> QED
    BY <2>1, FiledReceipt DEF Replacements
<1>5. ASSUME NEW p \in proposals, NEW e,
             \/ ApplyEnroll(p, e) \/ ApplyFence(p, e) \/ ApplyPrepareTarget(p, e)
             \/ ApplyActivate(p, e) \/ ApplyStopTarget(p, e) \/ ApplyRejected(p, e)
      PROVE  /\ \E o : Files(p, o) /\ o.kind # "AdministratorsReplaced"
             /\ policy_epoch' = policy_epoch
  <2>1. /\ EnrolledAs(p.command).kind # "AdministratorsReplaced"
        /\ FencedAs(p.command).kind # "AdministratorsReplaced"
        /\ PreparedFor(p.command).kind # "AdministratorsReplaced"
        /\ ActivatedAs(p.command).kind # "AdministratorsReplaced"
    BY DEF EnrolledAs, FencedAs, PreparedFor, ActivatedAs
  <2> QED
    BY <1>5, <2>1, EnrollView, FenceView, PrepareView, ActivateView, PlainView
<1> QED
  BY <1>1, <1>2, <1>3, <1>4, <1>5, StepKinds DEF Quiet

\* Every step keeps the count.
LEMMA PolicyCountedNext ==
    TypeInv /\ PolicyCounted /\ [AuthorityNext]_authorityVars => PolicyCounted'
<1> SUFFICES ASSUME TypeInv, PolicyCounted, [AuthorityNext]_authorityVars PROVE PolicyCounted'
  OBVIOUS
<1>1. CASE Replacements' = Replacements /\ policy_epoch' = policy_epoch
  BY <1>1 DEF PolicyCounted
<1>2. ASSUME NEW k, Replacements' = Replacements \cup {k}, k \notin Replacements,
             policy_epoch' = policy_epoch + 1
      PROVE  PolicyCounted'
  <2> DEFINE S == Replacements
  <2>1. IsFiniteSet(S) /\ policy_epoch = 1 + Cardinality(S)
    BY DEF PolicyCounted
  <2> HIDE DEF S
  <2>2. /\ IsFiniteSet(S \cup {k}) /\ Cardinality(S) \in Nat
        /\ k \notin S => Cardinality(S \cup {k}) = Cardinality(S) + 1
    BY <2>1, FS_AddElement, FS_CardinalityType
  <2> QED
    BY <1>2, <2>1, <2>2 DEF PolicyCounted, S
<1> QED
  BY <1>1, <1>2, ReplacementStep

\* The replacements of the administrators ordered before revision n.
ReplacedBefore(n) ==
    {r \in Ids : /\ receipts[r] # None
                 /\ receipts[r].outcome.kind = "AdministratorsReplaced"
                 /\ receipts[r].revision < n}

\* A receipt is filed under the policy in force, and no later replacement of the
\* administrators is counted before it.
LEMMA PolicyOrderedNext ==
    TypeInv /\ ReceiptsFiled /\ PolicyCounted /\ PolicyOrdered /\ [AuthorityNext]_authorityVars
        => PolicyOrdered'
<1> SUFFICES ASSUME TypeInv, ReceiptsFiled, PolicyCounted, PolicyOrdered,
                    [AuthorityNext]_authorityVars, NEW k \in Ids, receipts'[k] # None,
                    receipts'[k].outcome.kind # "ActivationStopped"
             PROVE  receipts'[k].command.policy =
                        1 + Cardinality(ReplacedBefore(receipts[k].revision))'
  BY DEF PolicyOrdered, ReplacedBefore
<1>1. /\ revision \in Nat
      /\ \A r \in Ids : receipts[r] # None => receipts[r].revision \in Nat
  BY DEF TypeInv, AuthorityTypeOK, MetaTypeOK, RecordsTypeOK, ReceiptsOf
<1>2. \A r \in Ids : receipts[r] # None => receipts'[r] = receipts[r]
  BY ReceiptKept
<1>3. \A r \in Ids : receipts'[r] # receipts[r] =>
          receipts[r] = None /\ receipts'[r].revision = revision + 1
  BY ReceiptStep
<1>4. CASE receipts'[k] = receipts[k]
  <2>1. receipts[k].revision \in Nat /\ receipts[k].revision <= revision
    BY <1>1, <1>4 DEF ReceiptsFiled
  <2>2. \A r \in Ids : /\ receipts'[r] # receipts[r] =>
                             ~(receipts'[r].revision < receipts[k].revision)
                       /\ receipts'[r] # receipts[r] => receipts[r] = None
    BY <1>1, <1>3, <2>1
  <2>3. ReplacedBefore(receipts[k].revision)' = ReplacedBefore(receipts[k].revision)
    BY <1>4, <2>2 DEF ReplacedBefore
  <2>4. receipts[k].command.policy = 1 + Cardinality(ReplacedBefore(receipts[k].revision))
    BY <1>4 DEF PolicyOrdered, ReplacedBefore
  <2> QED
    BY <1>4, <2>3, <2>4
<1>5. CASE receipts'[k] # receipts[k]
  <2>1. receipts'[k].revision = revision + 1 /\ receipts'[k].command.policy = policy_epoch
    BY <1>5, ReceiptStep
  <2>2. \A r \in Ids : /\ receipts'[r] # receipts[r] => ~(receipts'[r].revision < revision + 1)
                       /\ receipts[r] # None => receipts[r].revision < revision + 1
    BY <1>1, <1>3 DEF ReceiptsFiled
  <2>3. ReplacedBefore(receipts[k].revision)' = Replacements
    BY <1>2, <1>3, <2>1, <2>2 DEF ReplacedBefore, Replacements
  <2> QED
    BY <2>1, <2>3 DEF PolicyCounted
<1> QED
  BY <1>4, <1>5

OrderInv == ForkInv /\ PreparationBinds /\ PolicyCounted /\ PolicyOrdered

\* What a command was admitted under is checked again where it is ordered: every
\* outcome was ordered under the policy it names, and a prepared target is
\* activated only as it was prepared.
THEOREM OrderedEffects == AuthoritySpec => []EffectsAsOrdered
<1>1. AuthorityInit => OrderInv
  <2> SUFFICES ASSUME AuthorityInit PROVE OrderInv
    OBVIOUS
  <2>1. ForkInv
    BY ForkInit
  <2>2. PreparationBinds /\ PolicyOrdered
    BY DEF AuthorityInit, PreparationBinds, PolicyOrdered
  <2>3. Replacements = {} /\ policy_epoch = 1
    BY DEF AuthorityInit, Replacements
  <2>4. PolicyCounted
    BY <2>3, FS_EmptySet DEF PolicyCounted
  <2> QED
    BY <2>1, <2>2, <2>4 DEF OrderInv
<1>2. OrderInv /\ [AuthorityNext]_authorityVars => OrderInv'
  BY ForkNext, PreparationNext, PolicyCountedNext, PolicyOrderedNext
     DEF OrderInv, ForkInv, FenceInv
<1>3. OrderInv => EffectsAsOrdered
  BY DEF OrderInv, EffectsAsOrdered
<1> QED
  BY <1>1, <1>2, <1>3, PTL DEF AuthoritySpec

----------------------------------------------------------------------------
(* The quota keeps room for every fenced source *)

Pairs == Tenants \X Incarnations
FencedTenants == {t \in Tenants : Fenced(t)}
Enrolled == {t \in Tenants : tenant[t] # None}
Retained == {k \in Ids : receipts[k] # None}
PreparedPairs == {x \in Pairs : preparations[x[1]][x[2]] # None}
HeldPairs == {x \in Pairs : incarnations[x[1]][x[2]] # None}
StoppedPairs == {x \in Pairs : target_stops[x[1]][x[2]] # None}

\* Only finitely many records exist.
RecordsFinite ==
    /\ IsFiniteSet(FencedTenants) /\ IsFiniteSet(Enrolled) /\ IsFiniteSet(Retained)
    /\ IsFiniteSet(PreparedPairs) /\ IsFiniteSet(HeldPairs) /\ IsFiniteSet(StoppedPairs)

RecordCount ==
    Cardinality(Enrolled) + Cardinality(Retained) + Cardinality(PreparedPairs)
        + Cardinality(HeldPairs) + Cardinality(StoppedPairs)

\* The counters are exact, and what is left of the capacity is at least the
\* reserve of every fenced source and every outstanding dispatch.
QuotaInv ==
    /\ RecordsFinite
    /\ active_fences = Cardinality(FencedTenants)
    /\ state_bytes = RecordCount + operational.records
    /\ Cardinality(Enrolled) <= operational.capacity.max_tenants
    /\ state_bytes + completion_reserve(active_fences, operational)
           <= operational.capacity.max_state_bytes

\* The counts are natural numbers.
LEMMA QuotaSizes ==
    ASSUME RecordsFinite
    PROVE  /\ Cardinality(FencedTenants) \in Nat /\ Cardinality(Enrolled) \in Nat
           /\ Cardinality(Retained) \in Nat /\ Cardinality(PreparedPairs) \in Nat
           /\ Cardinality(HeldPairs) \in Nat /\ Cardinality(StoppedPairs) \in Nat
           /\ RecordCount \in Nat
BY FS_CardinalityType DEF RecordsFinite, RecordCount

\* Adding a new element to a finite set.
LEMMA GrowsByOne ==
    ASSUME NEW S, NEW x, IsFiniteSet(S), x \notin S
    PROVE  IsFiniteSet(S \cup {x}) /\ Cardinality(S \cup {x}) = Cardinality(S) + 1
BY FS_AddElement

\* Removing an element of a finite set.
LEMMA ShrinksByOne ==
    ASSUME NEW S, NEW x, IsFiniteSet(S), x \in S
    PROVE  IsFiniteSet(S \ {x}) /\ Cardinality(S \ {x}) = Cardinality(S) - 1
BY FS_RemoveElement

\* The records an effective entry writes are those it is charged for.
Balanced(p) ==
    /\ RecordsFinite'
    /\ Cardinality(FencedTenants)' = Cardinality(FencedTenants) + FenceChange(p)
    /\ RecordCount' = RecordCount + Growth(p)
    /\ Cardinality(Enrolled)' = TenantCount(p)

\* Filing a receipt retains one more.
LEMMA RetainedGrows ==
    ASSUME TypeInv, NEW p \in proposals, NEW o, Files(p, o), IsFiniteSet(Retained)
    PROVE  IsFiniteSet(Retained)' /\ Cardinality(Retained)' = Cardinality(Retained) + 1
<1>1. Retained' = Retained \cup {p.command.id} /\ p.command.id \notin Retained
  BY FiledReceipt DEF Retained
<1> HIDE DEF Retained
<1> QED
  BY <1>1, GrowsByOne

\* Enroll writes a receipt, a tenant and an incarnation.
LEMMA BalancedEnroll ==
    ASSUME TypeInv, EpochInv, RecordsFinite, NEW p \in proposals, NEW e, ApplyEnroll(p, e)
    PROVE  Balanced(p)
<1> DEFINE c == p.command
           i == c.action.incarnation
<1>1. /\ Files(p, EnrolledAs(c)) /\ c.action.kind = "Enroll"
      /\ c.tenant \in Tenants /\ i \in Incarnations
      /\ tenant[c.tenant] = None /\ tenant'[c.tenant] # None /\ tenant'[c.tenant].fence = None
      /\ \A t \in Tenants : t # c.tenant => tenant'[t] = tenant[t]
      /\ incarnations'[c.tenant][i] # None
      /\ \A t \in Tenants, j \in Incarnations :
            t # c.tenant \/ j # i => incarnations'[t][j] = incarnations[t][j]
      /\ UNCHANGED <<preparations, target_stops>>
  BY EnrollView
<1>2. Growth(p) = 3 /\ FenceChange(p) = 0 /\ TenantCount(p) = Cardinality(Enrolled) + 1
  <2>1. Accepted(p)
    BY <1>1 DEF Accepted, ApplyEnroll
  <2> QED
    BY <1>1, <2>1 DEF Growth, FenceChange, TenantCount, Enrolled
<1>3. IsFiniteSet(Retained)' /\ Cardinality(Retained)' = Cardinality(Retained) + 1
  BY <1>1, RetainedGrows DEF RecordsFinite
<1>4. IsFiniteSet(Enrolled)' /\ Cardinality(Enrolled)' = Cardinality(Enrolled) + 1
  <2>1. Enrolled' = Enrolled \cup {c.tenant} /\ c.tenant \notin Enrolled
    BY <1>1 DEF Enrolled
  <2> HIDE DEF Enrolled
  <2> QED
    BY <2>1, GrowsByOne DEF RecordsFinite
<1>5. IsFiniteSet(HeldPairs)' /\ Cardinality(HeldPairs)' = Cardinality(HeldPairs) + 1
  <2>1. incarnations[c.tenant][i] = None
    <3>1. EpochsOf(c.tenant)
      BY <1>1, EpochInvIs
    <3>2. HeldBy(c.tenant) = {}
      BY <1>1, <3>1 DEF EpochsOf
    <3> QED
      BY <1>1, <3>2 DEF HeldBy
  <2>2. HeldPairs' = HeldPairs \cup {<<c.tenant, i>>} /\ <<c.tenant, i>> \notin HeldPairs
    BY <1>1, <2>1 DEF HeldPairs, Pairs
  <2> HIDE DEF HeldPairs
  <2> QED
    BY <2>2, GrowsByOne DEF RecordsFinite
<1>6. FencedTenants' = FencedTenants
  BY <1>1 DEF FencedTenants, Fenced
<1>7. PreparedPairs' = PreparedPairs /\ StoppedPairs' = StoppedPairs
  BY <1>1 DEF PreparedPairs, StoppedPairs
<1> QED
  BY <1>2, <1>3, <1>4, <1>5, <1>6, <1>7, QuotaSizes DEF Balanced, RecordsFinite, RecordCount

\* An entry that files one receipt and touches no other record is charged for it.
LEMMA BalancedPlain ==
    ASSUME TypeInv, RecordsFinite, NEW p \in proposals, NEW o, Files(p, o),
           UNCHANGED <<tenant, preparations, incarnations, target_stops>>,
           Growth(p) = 1, FenceChange(p) = 0, TenantCount(p) = Cardinality(Enrolled)
    PROVE  Balanced(p)
<1>1. IsFiniteSet(Retained)' /\ Cardinality(Retained)' = Cardinality(Retained) + 1
  BY RetainedGrows DEF RecordsFinite
<1>2. /\ FencedTenants' = FencedTenants /\ Enrolled' = Enrolled
      /\ PreparedPairs' = PreparedPairs /\ HeldPairs' = HeldPairs /\ StoppedPairs' = StoppedPairs
  BY DEF FencedTenants, Fenced, Enrolled, PreparedPairs, HeldPairs, StoppedPairs
<1> QED
  BY <1>1, <1>2, QuotaSizes DEF Balanced, RecordsFinite, RecordCount

\* Fence writes a receipt and takes on one reserve.
LEMMA BalancedFence ==
    ASSUME TypeInv, RecordsFinite, NEW p \in proposals, NEW e, ApplyFence(p, e)
    PROVE  Balanced(p)
<1> DEFINE c == p.command
<1>1. /\ Files(p, FencedAs(c)) /\ c.action.kind = "Fence" /\ c.tenant \in Tenants /\ c.id \in Ids
      /\ tenant[c.tenant] # None /\ tenant[c.tenant].fence = None
      /\ tenant'[c.tenant] # None /\ tenant'[c.tenant].fence = c.id
      /\ \A t \in Tenants : t # c.tenant => tenant'[t] = tenant[t]
      /\ UNCHANGED <<preparations, incarnations, target_stops>>
  BY FenceView
<1>2. Growth(p) = 1 /\ FenceChange(p) = 1 /\ TenantCount(p) = Cardinality(Enrolled)
  <2>1. Accepted(p)
    BY <1>1 DEF Accepted, ApplyFence
  <2>2. Cardinality(Enrolled) \in Nat
    BY QuotaSizes
  <2> QED
    BY <1>1, <2>1, <2>2 DEF Growth, FenceChange, TenantCount, Enrolled
<1>3. IsFiniteSet(Retained)' /\ Cardinality(Retained)' = Cardinality(Retained) + 1
  BY <1>1, RetainedGrows DEF RecordsFinite
<1>4. IsFiniteSet(FencedTenants)' /\ Cardinality(FencedTenants)' = Cardinality(FencedTenants) + 1
  <2>1. c.id # None
    BY <1>1, NoneAssumption
  <2>2. FencedTenants' = FencedTenants \cup {c.tenant} /\ c.tenant \notin FencedTenants
    BY <1>1, <2>1 DEF FencedTenants, Fenced
  <2> HIDE DEF FencedTenants
  <2> QED
    BY <2>2, GrowsByOne DEF RecordsFinite
<1>5. Enrolled' = Enrolled
  BY <1>1 DEF Enrolled
<1>6. PreparedPairs' = PreparedPairs /\ HeldPairs' = HeldPairs /\ StoppedPairs' = StoppedPairs
  BY <1>1 DEF PreparedPairs, HeldPairs, StoppedPairs
<1> QED
  BY <1>2, <1>3, <1>4, <1>5, <1>6, QuotaSizes DEF Balanced, RecordsFinite, RecordCount

\* PrepareTarget writes a receipt and a preparation.
LEMMA BalancedPrepare ==
    ASSUME TypeInv, RecordsFinite, NEW p \in proposals, NEW e, ApplyPrepareTarget(p, e)
    PROVE  Balanced(p)
<1> DEFINE c == p.command
           i == c.action.target.incarnation
<1>1. /\ Files(p, PreparedFor(c)) /\ c.action.kind = "PrepareTarget"
      /\ c.tenant \in Tenants /\ i \in Incarnations
      /\ preparations[c.tenant][i] = None /\ preparations'[c.tenant][i] # None
      /\ \A t \in Tenants, j \in Incarnations :
            t # c.tenant \/ j # i => preparations'[t][j] = preparations[t][j]
      /\ UNCHANGED <<tenant, incarnations, target_stops>>
  BY PrepareView
<1>2. Growth(p) = 2 /\ FenceChange(p) = 0 /\ TenantCount(p) = Cardinality(Enrolled)
  <2>1. Accepted(p)
    BY <1>1 DEF Accepted, ApplyPrepareTarget
  <2>2. Cardinality(Enrolled) \in Nat
    BY QuotaSizes
  <2> QED
    BY <1>1, <2>1, <2>2 DEF Growth, FenceChange, TenantCount, Enrolled
<1>3. IsFiniteSet(Retained)' /\ Cardinality(Retained)' = Cardinality(Retained) + 1
  BY <1>1, RetainedGrows DEF RecordsFinite
<1>4. IsFiniteSet(PreparedPairs)' /\ Cardinality(PreparedPairs)' = Cardinality(PreparedPairs) + 1
  <2>1. PreparedPairs' = PreparedPairs \cup {<<c.tenant, i>>} /\ <<c.tenant, i>> \notin PreparedPairs
    BY <1>1 DEF PreparedPairs, Pairs
  <2> HIDE DEF PreparedPairs
  <2> QED
    BY <2>1, GrowsByOne DEF RecordsFinite
<1>5. /\ FencedTenants' = FencedTenants /\ Enrolled' = Enrolled
      /\ HeldPairs' = HeldPairs /\ StoppedPairs' = StoppedPairs
  BY <1>1 DEF FencedTenants, Fenced, Enrolled, HeldPairs, StoppedPairs
<1> QED
  BY <1>2, <1>3, <1>4, <1>5, QuotaSizes DEF Balanced, RecordsFinite, RecordCount

\* Activate writes a receipt and an incarnation and gives one reserve back.
LEMMA BalancedActivate ==
    ASSUME TypeInv, RecordsFinite, NEW p \in proposals, NEW e, ApplyActivate(p, e)
    PROVE  Balanced(p)
<1> DEFINE c == p.command
           i == c.action.target.incarnation
<1>1. /\ Files(p, ActivatedAs(c)) /\ c.action.kind = "Activate"
      /\ c.tenant \in Tenants /\ i \in Incarnations /\ Fenced(c.tenant)
      /\ tenant'[c.tenant] # None /\ tenant'[c.tenant].fence = None
      /\ \A t \in Tenants : t # c.tenant => tenant'[t] = tenant[t]
      /\ incarnations[c.tenant][i] = None /\ incarnations'[c.tenant][i] # None
      /\ \A t \in Tenants, j \in Incarnations :
            t # c.tenant \/ j # i => incarnations'[t][j] = incarnations[t][j]
      /\ UNCHANGED <<preparations, target_stops>>
  BY ActivateView
<1>2. Growth(p) = 2 /\ FenceChange(p) = -1 /\ TenantCount(p) = Cardinality(Enrolled)
  <2>1. Accepted(p)
    BY <1>1 DEF Accepted, ApplyActivate
  <2>2. Cardinality(Enrolled) \in Nat
    BY QuotaSizes
  <2> QED
    BY <1>1, <2>1, <2>2 DEF Growth, FenceChange, TenantCount, Enrolled
<1>3. IsFiniteSet(Retained)' /\ Cardinality(Retained)' = Cardinality(Retained) + 1
  BY <1>1, RetainedGrows DEF RecordsFinite
<1>4. IsFiniteSet(FencedTenants)' /\ Cardinality(FencedTenants)' = Cardinality(FencedTenants) - 1
  <2>1. FencedTenants' = FencedTenants \ {c.tenant} /\ c.tenant \in FencedTenants
    BY <1>1 DEF FencedTenants, Fenced
  <2> HIDE DEF FencedTenants
  <2> QED
    BY <2>1, ShrinksByOne DEF RecordsFinite
<1>5. IsFiniteSet(HeldPairs)' /\ Cardinality(HeldPairs)' = Cardinality(HeldPairs) + 1
  <2>1. HeldPairs' = HeldPairs \cup {<<c.tenant, i>>} /\ <<c.tenant, i>> \notin HeldPairs
    BY <1>1 DEF HeldPairs, Pairs
  <2> HIDE DEF HeldPairs
  <2> QED
    BY <2>1, GrowsByOne DEF RecordsFinite
<1>6. Enrolled' = Enrolled
  BY <1>1 DEF Enrolled, Fenced
<1>7. PreparedPairs' = PreparedPairs /\ StoppedPairs' = StoppedPairs
  BY <1>1 DEF PreparedPairs, StoppedPairs
<1> QED
  BY <1>2, <1>3, <1>4, <1>5, <1>6, <1>7, QuotaSizes DEF Balanced, RecordsFinite, RecordCount

\* A stop of a target writes its stop only when it is the first.
LEMMA BalancedStopTarget ==
    ASSUME TypeInv, RecordsFinite, NEW p \in proposals, NEW e, ApplyStopTarget(p, e)
    PROVE  Balanced(p)
<1> DEFINE c == p.command
           i == c.action.target.incarnation
<1>1. /\ Effective(p, e) /\ c.action.kind = "StopTarget"
      /\ c \in Commands /\ c.tenant \in Tenants
      /\ UNCHANGED <<administrators, policy_epoch, tenant, preparations, incarnations>>
  BY ProposalFacts, CommandFacts DEF ApplyStopTarget, TypeInv, AuthorityTypeOK
<1>2. PICK o : Files(p, o)
  BY PlainView
<1>3. /\ c.action.source \in Incarnations /\ c.action.epoch \in Nat
      /\ c.action.target \in Targets /\ i \in Incarnations
  BY <1>1, TargetFacts, TargetParts
<1>4. Accepted(p)
  BY <1>1 DEF Accepted, ApplyStopTarget
<1>5. /\ FenceChange(p) = 0 /\ TenantCount(p) = Cardinality(Enrolled)
      /\ Growth(p) = IF StopTargetOK(c) THEN 2 ELSE 1
  <2>1. Cardinality(Enrolled) \in Nat
    BY QuotaSizes
  <2> QED
    BY <1>1, <1>4, <2>1 DEF Growth, FenceChange, TenantCount, Enrolled
<1>6. CASE ~StopTargetOK(c)
  <2>1. target_stops' = target_stops
    BY <1>6 DEF ApplyStopTarget
  <2>2. Growth(p) = 1
    BY <1>5, <1>6
  <2> QED
    BY <1>1, <1>2, <1>5, <2>1, <2>2, BalancedPlain
<1>7. CASE StopTargetOK(c)
  <2> DEFINE r == Receipt(p, StopOutcome(c))
  <2>1. incarnations[c.tenant][i] = None /\ target_stops[c.tenant][i] = None
    BY <1>7 DEF StopTargetOK
  <2>2. target_stops' = [target_stops EXCEPT ![c.tenant][i] = r]
    BY <2>1 DEF ApplyStopTarget, AlreadyActivated, AlreadyStopped
  <2>3. r # None
    <3>1. StopOutcome(c) \in PlainOutcomes
      BY <1>3 DEF StopOutcome, PlainOutcomes
    <3>2. r \in ReceiptsOf(PlainOutcomes)
      BY <3>1, ReceiptIs DEF TypeInv, AuthorityTypeOK
    <3> QED
      BY <3>2, PlainIsReceipt
  <2>4. IsFiniteSet(StoppedPairs)' /\ Cardinality(StoppedPairs)' = Cardinality(StoppedPairs) + 1
    <3>1. target_stops \in [Tenants -> [Incarnations -> ReceiptsOf(PlainOutcomes) \cup {None}]]
      BY DEF TypeInv, AuthorityTypeOK, RecordsTypeOK
    <3> HIDE DEF r
    <3>2. /\ target_stops'[c.tenant][i] = r
          /\ \A t \in Tenants, j \in Incarnations :
                t # c.tenant \/ j # i => target_stops'[t][j] = target_stops[t][j]
      BY <1>1, <1>3, <2>2, <3>1
    <3>3. StoppedPairs' = StoppedPairs \cup {<<c.tenant, i>>} /\ <<c.tenant, i>> \notin StoppedPairs
      BY <1>1, <1>3, <2>1, <2>3, <3>2 DEF StoppedPairs, Pairs
    <3> HIDE DEF StoppedPairs
    <3> QED
      BY <3>3, GrowsByOne DEF RecordsFinite
  <2>5. IsFiniteSet(Retained)' /\ Cardinality(Retained)' = Cardinality(Retained) + 1
    BY <1>2, RetainedGrows DEF RecordsFinite
  <2>6. /\ FencedTenants' = FencedTenants /\ Enrolled' = Enrolled
        /\ PreparedPairs' = PreparedPairs /\ HeldPairs' = HeldPairs
    BY <1>1 DEF FencedTenants, Fenced, Enrolled, PreparedPairs, HeldPairs
  <2> QED
    BY <1>5, <1>7, <2>4, <2>5, <2>6, QuotaSizes DEF Balanced, RecordsFinite, RecordCount
<1> QED
  BY <1>6, <1>7

\* Settling an activation writes one receipt or two, and is charged for them.
LEMMA BalancedSettle ==
    ASSUME TypeInv, RecordsFinite, NEW p \in proposals, NEW e, ApplyStopActivation(p, e)
    PROVE  Balanced(p)
<1> DEFINE c == p.command
           o == c.action.original
<1>1. /\ c.id \in Ids /\ o.id \in Ids /\ o.id # c.id /\ c.action.kind = "StopActivation"
      /\ receipts[c.id] = None /\ receipts'[c.id] # None /\ receipts'[o.id] # None
      /\ \A k \in Ids : k # c.id /\ k # o.id => receipts'[k] = receipts[k]
      /\ UNCHANGED <<tenant, preparations, incarnations, target_stops>>
  BY SettleView
<1>2. Accepted(p)
  BY <1>1 DEF Accepted, ApplyStopActivation
<1>3. /\ FenceChange(p) = 0 /\ TenantCount(p) = Cardinality(Enrolled)
      /\ Growth(p) = IF receipts[o.id] = None THEN 2 ELSE 1
  <2>1. Cardinality(Enrolled) \in Nat
    BY QuotaSizes
  <2> QED
    BY <1>1, <1>2, <2>1 DEF Growth, FenceChange, TenantCount, Enrolled
<1>4. IsFiniteSet(Retained)' /\ Cardinality(Retained)' = Cardinality(Retained) + Growth(p)
  <2> DEFINE S == Retained \cup {o.id}
  <2>1. Retained' = S \cup {c.id} /\ c.id \notin S
    BY <1>1 DEF Retained
  <2>2. IsFiniteSet(Retained) /\ Cardinality(Retained) \in Nat
    BY QuotaSizes DEF RecordsFinite
  <2>3. CASE receipts[o.id] = None
    <3>1. o.id \notin Retained
      BY <2>3 DEF Retained
    <3> HIDE DEF Retained
    <3>2. IsFiniteSet(S) /\ Cardinality(S) = Cardinality(Retained) + 1
      BY <2>2, <3>1, GrowsByOne
    <3> HIDE DEF S
    <3>3. IsFiniteSet(S \cup {c.id}) /\ Cardinality(S \cup {c.id}) = Cardinality(S) + 1
      BY <2>1, <3>2, GrowsByOne
    <3> QED
      BY <1>3, <2>1, <2>2, <2>3, <3>2, <3>3
  <2>4. CASE receipts[o.id] # None
    <3>1. S = Retained
      BY <1>1, <2>4 DEF Retained
    <3> HIDE DEF Retained, S
    <3>2. IsFiniteSet(S \cup {c.id}) /\ Cardinality(S \cup {c.id}) = Cardinality(S) + 1
      BY <2>1, <2>2, <3>1, GrowsByOne
    <3> QED
      BY <1>3, <2>1, <2>2, <2>4, <3>1, <3>2
  <2> QED
    BY <2>3, <2>4
<1>5. /\ FencedTenants' = FencedTenants /\ Enrolled' = Enrolled
      /\ PreparedPairs' = PreparedPairs /\ HeldPairs' = HeldPairs /\ StoppedPairs' = StoppedPairs
  BY <1>1 DEF FencedTenants, Fenced, Enrolled, PreparedPairs, HeldPairs, StoppedPairs
<1>6. Growth(p) \in Nat
  BY <1>3
<1> QED
  BY <1>3, <1>4, <1>5, <1>6, QuotaSizes DEF Balanced, RecordsFinite, RecordCount

\* A new policy and a rejection write one receipt.
LEMMA BalancedOther ==
    ASSUME TypeInv, RecordsFinite, NEW p \in proposals, NEW e,
           ApplyReplaceAdministrators(p, e) \/ ApplyRejected(p, e)
    PROVE  Balanced(p)
<1>1. Cardinality(Enrolled) \in Nat
  BY QuotaSizes
<1>2. CASE ApplyReplaceAdministrators(p, e)
  <2>1. p.command.action.kind = "ReplaceAdministrators"
    BY <1>2 DEF ApplyReplaceAdministrators
  <2>2. Growth(p) = 1 /\ FenceChange(p) = 0 /\ TenantCount(p) = Cardinality(Enrolled)
    BY <1>1, <2>1 DEF Growth, FenceChange, TenantCount, Enrolled
  <2> QED
    BY <1>2, <2>2, ReplaceView, BalancedPlain
<1>3. CASE ApplyRejected(p, e)
  <2>1. ~Accepted(p) /\ target_stops' = target_stops
    BY <1>3 DEF ApplyRejected
  <2>2. Growth(p) = 1 /\ FenceChange(p) = 0 /\ TenantCount(p) = Cardinality(Enrolled)
    BY <1>1, <2>1 DEF Growth, FenceChange, TenantCount, Enrolled
  <2> QED
    BY <1>3, <2>1, <2>2, PlainView, BalancedPlain
<1> QED
  BY <1>2, <1>3

\* Every step keeps the accounts: an effective entry is charged for what it
\* writes and was within the quota, and no other step writes a record.
LEMMA QuotaNext ==
    TypeInv /\ EpochInv /\ QuotaInv /\ [AuthorityNext]_authorityVars => QuotaInv'
<1> SUFFICES ASSUME TypeInv, EpochInv, QuotaInv, [AuthorityNext]_authorityVars PROVE QuotaInv'
  OBVIOUS
<1>1. RecordsFinite
  BY DEF QuotaInv
<1>2. CASE Quiet
  <2>1. /\ FencedTenants' = FencedTenants /\ Enrolled' = Enrolled /\ Retained' = Retained
        /\ PreparedPairs' = PreparedPairs /\ HeldPairs' = HeldPairs
        /\ StoppedPairs' = StoppedPairs
    BY <1>2 DEF Quiet, FencedTenants, Fenced, Enrolled, Retained, PreparedPairs, HeldPairs,
                StoppedPairs
  <2>2. active_fences' = active_fences
    BY <1>2 DEF Quiet
  <2>3. CASE UNCHANGED <<state_bytes, operational>>
    BY <2>1, <2>2, <2>3 DEF QuotaInv, RecordsFinite, RecordCount, completion_reserve
  <2>4. CASE ApplyOperational
    <3>1. /\ Operated
          /\ \/ operational'.capacity = operational.capacity
             \/ Cardinality(Enrolled) <= operational'.capacity.max_tenants
      BY <2>4, OperationalIs DEF TypeInv, AuthorityTypeOK, Enrolled
    <3>2. RecordsFinite' /\ RecordCount' = RecordCount
      BY <1>1, <2>1 DEF RecordsFinite, RecordCount
    <3>3. /\ state_bytes' \in Nat /\ operational'.records \in Nat
          /\ state_bytes' - operational'.records = state_bytes - operational.records
          /\ state_bytes' + completion_reserve(active_fences, operational')
                 <= operational'.capacity.max_state_bytes
      BY <3>1 DEF Operated, OperationalStates
    <3>4. state_bytes \in Nat /\ operational.records \in Nat /\ RecordCount \in Nat
      BY <1>1, QuotaSizes DEF TypeInv, AuthorityTypeOK, MetaTypeOK, OperationalStates
    <3>5. state_bytes' = RecordCount' + operational'.records
      BY <3>2, <3>3, <3>4 DEF QuotaInv
    <3>6. Cardinality(Enrolled)' <= operational'.capacity.max_tenants
      BY <2>1, <3>1 DEF QuotaInv
    <3>7. (completion_reserve(active_fences, operational))' = completion_reserve(active_fences, operational')
      BY <2>2 DEF completion_reserve
    <3> QED
      BY <2>1, <2>2, <3>2, <3>3, <3>5, <3>6, <3>7 DEF QuotaInv
  <2> QED
    BY <1>2, <2>3, <2>4 DEF Quiet
<1>3. ASSUME NEW p \in proposals, NEW e,
             \/ ApplyEnroll(p, e) \/ ApplyFence(p, e) \/ ApplyPrepareTarget(p, e)
             \/ ApplyActivate(p, e) \/ ApplyStopTarget(p, e) \/ ApplyStopActivation(p, e)
             \/ ApplyReplaceAdministrators(p, e) \/ ApplyRejected(p, e)
      PROVE  QuotaInv'
  <2>1. Balanced(p)
    BY <1>1, <1>3, BalancedEnroll, BalancedFence, BalancedPrepare, BalancedActivate,
       BalancedStopTarget, BalancedSettle, BalancedOther
  <2>2. /\ WithinQuota(p) /\ state_bytes' = state_bytes + Growth(p)
        /\ active_fences' = active_fences + FenceChange(p) /\ operational' = operational
    BY <1>3 DEF ApplyEnroll, ApplyFence, ApplyPrepareTarget, ApplyActivate, ApplyStopTarget,
                ApplyStopActivation, ApplyReplaceAdministrators, ApplyRejected, Publish,
                PublishWith
  <2>3. /\ RecordCount \in Nat /\ operational.records \in Nat /\ Growth(p) \in Nat
        /\ operational.capacity.max_state_bytes \in Nat
        /\ operational.capacity.maintenance_reserve \in Nat
        /\ active_fences' \in Int /\ state_bytes' \in Nat
        /\ operational.unacknowledged \in Nat /\ operational.unpermitted \in Nat
    <3>1. MetaTypeOK'
      BY TypeNext DEF TypeInv, AuthorityTypeOK
    <3> QED
      BY <1>1, <3>1, QuotaSizes, CapacityAssumption
         DEF Growth, TypeInv, AuthorityTypeOK, MetaTypeOK, OperationalStates
  <2>4. state_bytes' = RecordCount' + operational'.records
    BY <2>1, <2>2, <2>3 DEF QuotaInv, Balanced
  <2>5. state_bytes' + completion_reserve(active_fences', operational')
            <= operational'.capacity.max_state_bytes
    BY <2>2, <2>3 DEF WithinQuota, OrdinaryBytes, completion_reserve
  <2>6. (completion_reserve(active_fences, operational))' = completion_reserve(active_fences', operational')
    BY DEF completion_reserve
  <2> QED
    BY <2>1, <2>2, <2>4, <2>5, <2>6 DEF QuotaInv, Balanced, WithinQuota
<1> QED
  BY <1>2, <1>3, StepKinds

\* The reserve is enough: an activation that is accepted frees more than it uses,
\* a permission and an acknowledgment exactly what they use.
LEMMA ReserveSuffices ==
    ASSUME TypeInv, QuotaInv PROVE FenceReserveKept
<1>1. AccountingExact
  BY DEF QuotaInv, AccountingExact, FencedTenants, Enrolled, Retained, PreparedPairs, HeldPairs,
         StoppedPairs, RecordCount, Pairs
<1>2. /\ active_fences \in Int /\ state_bytes \in Nat /\ operational \in OperationalStates
      /\ operational.unacknowledged \in Nat /\ operational.unpermitted \in Nat
      /\ operational.capacity.max_state_bytes \in Nat
      /\ operational.capacity.maintenance_reserve \in Nat
  BY CapacityAssumption DEF TypeInv, AuthorityTypeOK, MetaTypeOK, OperationalStates
<1>3. CapacityHolds
  BY DEF QuotaInv, CapacityHolds, Enrolled
<1>4. CoverageCanComplete
  <2>1. /\ [operational EXCEPT !.unpermitted = @ - 1].unacknowledged = operational.unacknowledged
        /\ [operational EXCEPT !.unpermitted = @ - 1].unpermitted = operational.unpermitted - 1
        /\ [operational EXCEPT !.unacknowledged = @ - 1].unacknowledged
               = operational.unacknowledged - 1
        /\ [operational EXCEPT !.unacknowledged = @ - 1].unpermitted = operational.unpermitted
    BY <1>2 DEF OperationalStates
  <2> QED
    BY <1>2, <2>1 DEF QuotaInv, CoverageCanComplete, completion_reserve
<1>5. ASSUME ReserveUntouched,
             NEW p \in proposals, p.command.action.kind = "Activate", ActivateOK(p)
      PROVE  WithinQuota(p)
  <2>1. Accepted(p)
    BY <1>5 DEF Accepted
  <2>2. Cardinality(Enrolled) \in Nat
    BY QuotaSizes DEF QuotaInv
  <2>3. Growth(p) = 2 /\ FenceChange(p) = -1 /\ TenantCount(p) = Cardinality(Enrolled)
    BY <1>5, <2>1, <2>2 DEF Growth, FenceChange, TenantCount, Enrolled
  <2> QED
    BY <1>2, <1>5, <2>3 DEF WithinQuota, OrdinaryBytes, ReserveUntouched, QuotaInv,
                            completion_reserve
<1> QED
  BY <1>1, <1>3, <1>4, <1>5 DEF FenceReserveKept, FencedSourceCanComplete

\* The quota keeps what it reserved: its counters agree with the records, bytes
\* and reserve fit every capacity installed, a coverage dispatch can always be
\* completed, and an accepted activation in the log is within the quota unless
\* maintenance and coverage have entered the maintenance reserve.
THEOREM ReserveIsKept == AuthoritySpec => []FenceReserveKept
<1>1. AuthorityInit => QuotaInv
  <2> SUFFICES ASSUME AuthorityInit PROVE QuotaInv
    OBVIOUS
  <2>1. /\ FencedTenants = {} /\ Enrolled = {} /\ Retained = {}
        /\ PreparedPairs = {} /\ HeldPairs = {} /\ StoppedPairs = {}
    BY DEF AuthorityInit, FencedTenants, Fenced, Enrolled, Retained, PreparedPairs, HeldPairs,
           StoppedPairs, Pairs
  <2>2. /\ active_fences = 0 /\ state_bytes = 0 /\ operational.records = 0
        /\ operational.unacknowledged = 0 /\ operational.unpermitted = 0
        /\ operational.capacity = InitialCapacity
    BY DEF AuthorityInit
  <2>3. InitialCapacity.max_tenants \in Nat /\ InitialCapacity.max_state_bytes \in Nat
    BY CapacityAssumption
  <2> QED
    BY <2>1, <2>2, <2>3, FS_EmptySet DEF QuotaInv, RecordsFinite, RecordCount, completion_reserve
<1>2. ForkInv /\ QuotaInv /\ [AuthorityNext]_authorityVars => QuotaInv'
  BY QuotaNext DEF ForkInv
<1>3. ForkInv /\ QuotaInv => FenceReserveKept
  BY ReserveSuffices DEF ForkInv
<1> QED
  BY <1>1, <1>2, <1>3, ForkInit, ForkNext, PTL DEF AuthoritySpec

----------------------------------------------------------------------------
(* The replicas *)

(* Types *)

\* A fresh attempt is a well-formed one.
LEMMA NewAttemptIs ==
    ASSUME NEW u \in Purposes
    PROVE  NewAttempt(u) \in Attempts /\ NewAttempt(u).phase = "Sent"
BY DrainAssumption DEF NewAttempt, Attempts

\* What a boot, an attempt and a gate consist of.
LEMMA ClientFacts ==
    ASSUME ClientTypeOK, NEW p \in Processes
    PROVE  /\ boot[p] # None => boot[p] \in Boots
           /\ attempt[p] # None => attempt[p] \in Attempts
           /\ gate[p] # None => gate[p] \in Gates
BY DEF ClientTypeOK

\* The material of a viewed lease names a receipt and a checkpoint.
LEMMA MaterialIs ==
    ASSUME RecordsTypeOK, NEW b \in Boots, NEW u \in Purposes, lease_view(b, u)
    PROVE  Material(b, u) \in Materials
<1>1. b.tenant \in Tenants /\ b.incarnation \in Incarnations
  BY DEF Boots
<1>2. CASE u = "Serving"
  <2>1. tenant[b.tenant] \in TenantRecords
    BY <1>1 DEF lease_view, discover, RecordsTypeOK
  <2> QED
    BY <1>2, <2>1 DEF Material, Materials, TenantRecords
<1>3. CASE u = "RestorePreparation"
  <2> DEFINE r == preparations[b.tenant][b.incarnation]
  <2>1. r # None
    BY <1>3 DEF lease_view, discover, PreparationCurrent
  <2>2. r \in PreparationRecords
    BY <1>1, <2>1 DEF RecordsTypeOK
  <2>3. r.target.checkpoint \in Incarnations /\ r.receipt.command \in Commands
    BY <2>2, TargetParts DEF PreparationRecords, ReceiptsOf
  <2>4. r.receipt.command.id \in Ids
    BY <2>3, CommandFacts
  <2>5. Material(b, u) = [activation |-> r.receipt.command.id,
                          checkpoint |-> r.target.checkpoint]
    BY <1>3 DEF Material
  <2> QED
    BY <2>3, <2>4, <2>5 DEF Materials
<1> QED
  BY <1>2, <1>3 DEF Purposes

\* Issuing a lease keeps the clients well typed.
LEMMA ClientIssue ==
    ASSUME AuthorityTypeOK, ClientTypeOK, NEW p \in Processes, IssueLease(p)
    PROVE  ClientTypeOK'
<1>1. /\ attempt[p] \in Attempts /\ attempt[p] # None /\ boot[p] \in Boots
      /\ attempt[p].purpose \in Purposes /\ attempt[p].spent \in 0 .. MaxLease
  BY ClientFacts DEF IssueLease, ClientTypeOK, Attempts
<1>2. Material(boot[p], attempt[p].purpose) \in Materials
  BY <1>1, MaterialIs DEF IssueLease, AuthorityTypeOK
<1>3. PICK life \in CredentialLifetimes :
         attempt' = [attempt EXCEPT ![p].phase = "Viewed", ![p].term = term,
                           ![p].generation = signing.generation, ![p].lifetime = life,
                           ![p].material = Material(boot[p], attempt[p].purpose)]
  BY DEF IssueLease
<1>4. life \in 1 .. MaxLease /\ term \in Nat /\ signing.generation \in Nat
  BY ServingAssumption, AuthorityAssumption DEF AuthorityTypeOK, LogTypeOK, MetaTypeOK
<1> DEFINE a == [purpose |-> attempt[p].purpose, spent |-> attempt[p].spent,
                 phase |-> "Viewed", term |-> term, generation |-> signing.generation,
                 lifetime |-> life, material |-> Material(boot[p], attempt[p].purpose)]
<1>5. attempt'[p] = a
  BY <1>1, <1>3 DEF ClientTypeOK, Attempts
<1>6. a \in Attempts
  BY <1>1, <1>2, <1>4 DEF Attempts
<1>7. attempt' = [attempt EXCEPT ![p] = a]
  BY <1>3, <1>5 DEF ClientTypeOK
<1> HIDE DEF a
<1>8. UNCHANGED <<boot, gate>> /\ boot[p] # None
  BY <1>1 DEF IssueLease, ClientTypeOK
<1> QED
  BY <1>6, <1>7, <1>8 DEF ClientTypeOK

\* Releasing a lease keeps the clients well typed.
LEMMA ClientRelease ==
    ASSUME ClientTypeOK, NEW p \in Processes, ReleaseLease(p)
    PROVE  /\ ClientTypeOK'
           /\ attempt' = [attempt EXCEPT ![p] = [attempt[p] EXCEPT !.phase = "Granted"]]
<1>1. attempt[p] \in Attempts /\ attempt[p] # None /\ attempt[p].phase = "Viewed"
  BY ClientFacts DEF ReleaseLease
<1> DEFINE a == [attempt[p] EXCEPT !.phase = "Granted"]
<1>2. a \in Attempts
  BY <1>1 DEF Attempts
<1>3. attempt' = [attempt EXCEPT ![p] = a]
  BY DEF ReleaseLease, ClientTypeOK
<1> HIDE DEF a
<1>4. UNCHANGED <<boot, gate>> /\ boot[p] # None
  BY <1>1 DEF ReleaseLease, ClientTypeOK
<1> QED
  BY <1>2, <1>3, <1>4 DEF ClientTypeOK, a

\* Installing a verified lease keeps the clients well typed.
LEMMA ClientInstall ==
    ASSUME ClientTypeOK, NEW p \in Processes, Verified(p), Install(p)
    PROVE  ClientTypeOK'
<1>1. attempt[p] \in Attempts /\ attempt[p] # None /\ attempt[p].phase = "Granted"
  BY ClientFacts DEF Verified
<1> DEFINE g == [purpose |-> attempt[p].purpose, left |-> Remaining(attempt[p]),
                 material |-> attempt[p].material]
<1>2. Remaining(attempt[p]) \in 0 .. MaxLease
  BY <1>1, DrainAssumption DEF Remaining, AtLeast, Attempts
<1>3. g \in Gates
  BY <1>1, <1>2 DEF Gates, Attempts
<1>4. gate' = [gate EXCEPT ![p] = g] /\ attempt' = [attempt EXCEPT ![p] = None] /\ boot' = boot
  BY DEF Install
<1> HIDE DEF g
<1>5. boot[p] # None
  BY <1>1 DEF ClientTypeOK
<1> QED
  BY <1>3, <1>4, <1>5 DEF ClientTypeOK

\* Every other step of a process keeps the clients well typed.
LEMMA ClientProcess ==
    ASSUME AuthorityTypeOK, ClientTypeOK, NEW p \in Processes, ProcessStep(p)
    PROVE  ClientTypeOK'
<1>1. ASSUME NEW t \in Tenants, NEW i \in Incarnations, NEW n \in Nodes, NEW u \in Purposes,
             Boot(p, t, i, n, u)
      PROVE  ClientTypeOK'
  <2> DEFINE b == [tenant |-> t, incarnation |-> i, node |-> n,
                   epoch |-> discovered_epoch(t, i, u)]
  <2>1. discovered_epoch(t, i, u) \in Nat
    <3>1. CASE u = "Serving"
      <4>1. tenant[t] \in TenantRecords
        BY <1>1 DEF Boot, discover, AuthorityTypeOK, RecordsTypeOK
      <4> QED
        BY <3>1, <4>1 DEF discovered_epoch, TenantRecords
    <3>2. CASE u = "RestorePreparation"
      <4>1. preparations[t][i] # None
        BY <1>1, <3>2 DEF Boot, discover, PreparationCurrent
      <4>2. preparations[t][i] \in PreparationRecords
        BY <4>1 DEF AuthorityTypeOK, RecordsTypeOK
      <4> QED
        BY <3>2, <4>2 DEF discovered_epoch, PreparationRecords
    <3> QED
      BY <3>1, <3>2 DEF Purposes
  <2>2. b \in Boots
    BY <2>1 DEF Boots
  <2>3. /\ boot' = [boot EXCEPT ![p] = b] /\ gate' = gate /\ gate[p] = None
        /\ attempt' = [attempt EXCEPT ![p] = NewAttempt(u)]
    BY <1>1 DEF Boot, ClientTypeOK
  <2> HIDE DEF b
  <2>4. b # None
    BY <2>2, BootAssumption
  <2> QED
    BY <2>2, <2>3, <2>4, NewAttemptIs DEF ClientTypeOK
<1>2. ASSUME NEW u \in Purposes, BeginAcquisition(p, u) PROVE ClientTypeOK'
  <2>1. boot[p] # None
    BY <1>2 DEF BeginAcquisition, Live, ClientTypeOK
  <2> QED
    BY <1>2, <2>1, NewAttemptIs DEF BeginAcquisition, ClientTypeOK
<1>3. CASE RetryAttempt(p)
  <2> DEFINE a == [NewAttempt(attempt[p].purpose) EXCEPT !.spent = attempt[p].spent]
  <2>1. attempt[p] \in Attempts /\ boot[p] # None
    BY <1>3 DEF RetryAttempt, ClientTypeOK
  <2>2. attempt[p].purpose \in Purposes /\ attempt[p].spent \in 0 .. MaxLease
    BY <2>1 DEF Attempts
  <2>3. a \in Attempts
    BY <2>2 DEF NewAttempt, Attempts
  <2>4. attempt' = [attempt EXCEPT ![p] = a] /\ UNCHANGED <<boot, gate>>
    BY <1>3 DEF RetryAttempt
  <2> HIDE DEF a
  <2> QED
    BY <2>1, <2>3, <2>4 DEF ClientTypeOK
<1>4. CASE DropAttempt(p)
  BY <1>4 DEF DropAttempt, ClientTypeOK
<1>5. CASE CloseGate(p)
  <2> DEFINE g == [gate[p] EXCEPT !.left = 0]
  <2>1. gate[p] \in Gates /\ boot[p] # None
    BY <1>5 DEF CloseGate, Live, ClientTypeOK
  <2>2. g \in Gates
    BY <2>1, DrainAssumption DEF Gates
  <2>3. gate' = [gate EXCEPT ![p] = g] /\ UNCHANGED <<boot, attempt>>
    BY <1>5 DEF CloseGate
  <2> HIDE DEF g
  <2> QED
    BY <2>1, <2>2, <2>3 DEF ClientTypeOK
<1>6. CASE Restart(p)
  BY <1>6 DEF Restart, ClientTypeOK
<1>7. CASE OpenGate(p) \/ RenewGate(p) \/ PromotePrepared(p)
  BY <1>7, ClientInstall DEF OpenGate, RenewGate, PromotePrepared
<1> QED
  BY <1>1, <1>2, <1>3, <1>4, <1>5, <1>6, <1>7, ClientIssue, ClientRelease DEF ProcessStep

\* What one unit of time does to a process: an attempt has spent a more, a gate
\* has a less left, for some a within the rate bound.
LEMMA TickIs ==
    ASSUME ClientTypeOK, Tick, NEW p \in Processes
    PROVE  \E a \in Advance :
              /\ attempt'[p] = (IF attempt[p] = None THEN None
                                ELSE [attempt[p] EXCEPT !.spent = AtMost(@ + a, MaxLease)])
              /\ gate'[p] = (IF gate[p] = None THEN None
                             ELSE [gate[p] EXCEPT !.left = AtLeast(@ - a, 0)])
<1>1. PICK adv \in [Processes -> Advance] :
         /\ attempt' = [q \in Processes |->
               IF attempt[q] = None THEN None
               ELSE [attempt[q] EXCEPT !.spent = AtMost(@ + adv[q], MaxLease)]]
         /\ gate' = [q \in Processes |->
               IF gate[q] = None THEN None
               ELSE [gate[q] EXCEPT !.left = AtLeast(@ - adv[q], 0)]]
  BY DEF Tick
<1> WITNESS adv[p] \in Advance
<1> QED
  BY <1>1

\* Time keeps the clients well typed.
LEMMA ClientTick ==
    ASSUME ClientTypeOK, Tick PROVE ClientTypeOK'
<1>1. ASSUME NEW p \in Processes
      PROVE  /\ attempt'[p] \in Attempts \cup {None} /\ gate'[p] \in Gates \cup {None}
             /\ boot[p] = None => attempt'[p] = None /\ gate'[p] = None
  <2>1. PICK a \in Advance :
           /\ attempt'[p] = (IF attempt[p] = None THEN None
                             ELSE [attempt[p] EXCEPT !.spent = AtMost(@ + a, MaxLease)])
           /\ gate'[p] = (IF gate[p] = None THEN None
                          ELSE [gate[p] EXCEPT !.left = AtLeast(@ - a, 0)])
    BY TickIs
  <2>2. a \in Nat /\ MaxLease \in Nat
    BY RatePositive, DrainAssumption DEF Advance
  <2>3. attempt'[p] \in Attempts \cup {None}
    <3>1. CASE attempt[p] # None
      <4>1. attempt[p] \in Attempts /\ attempt[p].spent \in 0 .. MaxLease
        BY <3>1, ClientFacts DEF Attempts
      <4>2. AtMost(attempt[p].spent + a, MaxLease) \in 0 .. MaxLease
        BY <2>2, <4>1 DEF AtMost
      <4>3. [attempt[p] EXCEPT !.spent = AtMost(attempt[p].spent + a, MaxLease)] \in Attempts
        BY <4>1, <4>2 DEF Attempts
      <4> QED
        BY <2>1, <3>1, <4>3
    <3> QED
      BY <2>1, <3>1
  <2>4. gate'[p] \in Gates \cup {None}
    <3>1. CASE gate[p] # None
      <4>1. gate[p] \in Gates /\ gate[p].left \in 0 .. MaxLease
        BY <3>1, ClientFacts DEF Gates
      <4>2. AtLeast(gate[p].left - a, 0) \in 0 .. MaxLease
        BY <2>2, <4>1 DEF AtLeast
      <4>3. [gate[p] EXCEPT !.left = AtLeast(gate[p].left - a, 0)] \in Gates
        BY <4>1, <4>2 DEF Gates
      <4> QED
        BY <2>1, <3>1, <4>3
    <3> QED
      BY <2>1, <3>1
  <2> QED
    BY <2>1, <2>3, <2>4 DEF ClientTypeOK
<1>2. /\ attempt' = [p \in Processes |-> attempt'[p]]
      /\ gate' = [p \in Processes |-> gate'[p]] /\ boot' = boot
  BY DEF Tick
<1> QED
  BY <1>1, <1>2 DEF ClientTypeOK

\* The receipt of a target stop leads to its target's tombstone.
LEMMA StopFacts ==
    ASSUME AuthorityTypeOK, NEW k \in Ids, receipts[k] # None,
           receipts[k].outcome.kind = "TargetStopped"
    PROVE  LET t == receipts[k].command.tenant
               i == receipts[k].outcome.target.incarnation
           IN  /\ t \in Tenants /\ i \in Incarnations
               /\ target_stops[t][i] # None =>
                     target_stops[t][i] \in ReceiptsOf(PlainOutcomes)
                     /\ target_stops[t][i].command.id \in Ids
<1> DEFINE r == receipts[k]
           t == r.command.tenant
           i == r.outcome.target.incarnation
<1>1. r \in ReceiptsOf(Outcomes)
  BY DEF AuthorityTypeOK, RecordsTypeOK
<1>2. r.command \in Commands /\ r.outcome \in Outcomes
  BY <1>1 DEF ReceiptsOf
<1>3. r.outcome.target \in Targets
  BY <1>2 DEF Outcomes, PlainOutcomes
<1>4. t \in Tenants /\ i \in Incarnations
  BY <1>2, <1>3, CommandFacts, TargetParts
<1>5. target_stops[t][i] \in ReceiptsOf(PlainOutcomes) \cup {None}
  BY <1>4 DEF AuthorityTypeOK, RecordsTypeOK
<1>6. target_stops[t][i] # None => target_stops[t][i].command.id \in Ids
  <2> SUFFICES ASSUME target_stops[t][i] # None PROVE target_stops[t][i].command.id \in Ids
    OBVIOUS
  <2>1. target_stops[t][i].command \in Commands
    BY <1>5 DEF ReceiptsOf
  <2> QED
    BY <2>1, CommandFacts
<1> QED
  BY <1>4, <1>5, <1>6

\* Looking at the witness of a stop changes the witness map only.
LEMMA WitnessStopIs ==
    ASSUME AuthorityTypeOK, NEW k \in Ids, NEW a, WitnessStop(k, a)
    PROVE  LET t == receipts[k].command.tenant
               i == receipts[k].outcome.target.incarnation
           IN  /\ t \in Tenants /\ i \in Incarnations
               /\ target_stops[t][i] # None /\ target_stops[t][i].command.id \in Ids
               /\ drains' \in RequireDrainWitness(drains, target_stops[t][i].command.id, term)
               /\ LeaderTypeOK'
<1> DEFINE t == receipts[k].command.tenant
           i == receipts[k].outcome.target.incarnation
<1>1. /\ receipts[k] # None /\ receipts[k].outcome.kind = "TargetStopped"
      /\ target_stops[t][i] # None
      /\ drains' \in RequireDrainWitness(drains, target_stops[t][i].command.id, term)
      /\ regressed' = regressed
  BY DEF WitnessStop
<1>2. t \in Tenants /\ i \in Incarnations /\ target_stops[t][i].command.id \in Ids
  BY <1>1, StopFacts
<1>3. term \in Nat /\ drains \in [Ids -> Witness \cup {None}]
  BY AuthorityAssumption DEF AuthorityTypeOK, LogTypeOK, LeaderTypeOK
<1>4. drains' \in [Ids -> Witness \cup {None}]
  BY <1>1, <1>2, <1>3, RequireIs
<1> QED
  BY <1>1, <1>2, <1>4 DEF AuthorityTypeOK, LeaderTypeOK

ServingTypeInv == TypeInv /\ ClientTypeOK /\ observed_stops \subseteq Tenants \X Incarnations

\* A new cluster without processes is well typed.
LEMMA ServingTypeInit == Init => ServingTypeInv
BY TypeInit DEF Init, ServingTypeInv, ClientTypeOK

\* Every step of the authority and its processes keeps the types.
LEMMA ServingTypeNext == ServingTypeInv /\ [Next]_vars => ServingTypeInv'
<1> SUFFICES ASSUME ServingTypeInv, [Next]_vars PROVE ServingTypeInv'
  OBVIOUS
<1> USE DEF ServingTypeInv
<1>1. ASSUME UNCHANGED authorityVars PROVE TypeInv'
  BY <1>1, TypeNext
<1>2. ASSUME UNCHANGED clients PROVE ClientTypeOK'
  BY <1>2 DEF clients, ClientTypeOK
<1>3. CASE AuthorityStep /\ UNCHANGED <<clients, observed_stops>>
  BY <1>2, <1>3, TypeNext DEF AuthorityNext
<1>4. ASSUME NEW k \in Ids, NEW a \in Principals, WitnessStop(k, a)
      PROVE  TypeInv' /\ ClientTypeOK'
  <2>1. LeaderTypeOK'
    BY <1>4, WitnessStopIs DEF TypeInv
  <2>2. UNCHANGED <<meta, signing, records, log, clients>>
    BY <1>4 DEF WitnessStop
  <2> QED
    BY <1>2, <2>1, <2>2
       DEF TypeInv, AuthorityTypeOK, MetaTypeOK, RecordsTypeOK, LogTypeOK,
           ActivationReceiptsPlain, meta, records, log
<1>5. ASSUME NEW k \in Ids, NEW a \in Principals, VerifyTargetStop(k, a)
      PROVE  observed_stops' \subseteq Tenants \X Incarnations
  <2> DEFINE t == receipts[k].command.tenant
             i == receipts[k].outcome.target.incarnation
  <2>1. WitnessStop(k, a) /\ observed_stops' = observed_stops \cup {<<t, i>>}
    BY <1>5 DEF VerifyTargetStop
  <2>2. t \in Tenants /\ i \in Incarnations
    BY <2>1, WitnessStopIs DEF TypeInv
  <2> HIDE DEF t, i
  <2> QED
    BY <2>1, <2>2
<1>6. ASSUME NEW p \in Processes, ProcessStep(p) PROVE ServingTypeInv'
  <2>1. UNCHANGED <<authorityVars, observed_stops>>
    BY <1>6 DEF ProcessStep, IssueLease, ReleaseLease, Boot, BeginAcquisition, RetryAttempt,
                DropAttempt, OpenGate, RenewGate, PromotePrepared, Install, CloseGate, Restart
  <2> QED
    BY <1>1, <1>6, <2>1, ClientProcess DEF TypeInv
<1>7. CASE Tick
  <2>1. IssuerTick /\ UNCHANGED observed_stops
    BY <1>7 DEF Tick, IssuerTick
  <2> QED
    BY <1>7, <2>1, TypeNext, ClientTick DEF AuthorityNext
<1>8. CASE UNCHANGED vars
  BY <1>1, <1>2, <1>8 DEF vars
<1> QED
  BY <1>3, <1>4, <1>5, <1>6, <1>7, <1>8 DEF Next, VerifyTargetStop, AwaitStopDrain

\* Every reachable state of the authority and its replica processes is well
\* typed, and a process holds an attempt or a gate only under a boot.
THEOREM ServingTypeSafe == Spec => []TypeOK
<1>1. ServingTypeInv => TypeOK
  BY DEF ServingTypeInv, TypeInv, TypeOK
<1> QED
  BY <1>1, ServingTypeInit, ServingTypeNext, PTL DEF Spec

----------------------------------------------------------------------------
(* No two incarnations serve at once.                                      *)
(*                                                                         *)
(* A process is leased for n more ticks by its live serving gate or by a   *)
(* serving grant that is still on its way to it.  The inductive invariant  *)
(* says that every lease is for the current incarnation, that the witness  *)
(* of a fence has never counted further than the leases it waits for can   *)
(* have run down at the allowed rates, and that no lease is left once an   *)
(* activation is in the log as drained.                                    *)

Grant(p) ==
    attempt[p] # None /\ attempt[p].phase = "Granted" /\ Remaining(attempt[p]) > 0

\* The gate or the grant of a process gives it n more ticks for this purpose.
Holds(p, u, n) ==
    \/ Live(p) /\ gate[p].purpose = u /\ n = gate[p].left
    \/ Grant(p) /\ attempt[p].purpose = u /\ n = Remaining(attempt[p])

Leased(p, n) == Holds(p, "Serving", n)

LeasesCurrent ==
    \A p \in Processes : \A n \in 1 .. MaxLease : Leased(p, n) =>
        IsCurrent(boot[p].tenant, boot[p].incarnation, boot[p].epoch)

LeasesWitnessed ==
    \A p \in Processes : \A n \in 1 .. MaxLease : Leased(p, n) =>
        LET f == tenant[boot[p].tenant].fence
        IN  f # None /\ drains[f] # None =>
                n * RateHi + drains[f].elapsed * RateLo <= MaxLease * RateHi

DrainedUnleased ==
    \A d \in proposals :
        Fenced(d.command.tenant) /\ d.drained = tenant[d.command.tenant].fence =>
            \A p \in Processes : \A n \in 1 .. MaxLease :
                Leased(p, n) => boot[p].tenant # d.command.tenant

\* Witnesses, drained proposals, fences and tombstones refer to retained receipts.
StopsRetained ==
    /\ \A k \in Ids : drains[k] # None => receipts[k] # None
    /\ \A d \in proposals : d.drained # None => receipts[d.drained] # None
    /\ \A t \in Tenants : Fenced(t) => receipts[tenant[t].fence] # None
    /\ \A t \in Tenants, i \in Incarnations :
          target_stops[t][i] # None => receipts[target_stops[t][i].command.id] # None

ServingInv ==
    /\ ServingTypeInv
    /\ StopsRetained
    /\ LeasesCurrent
    /\ LeasesWitnessed
    /\ DrainedUnleased

\* Integer facts: products are monotone, and rates scale both sides.
LEMMA ProductMonotone ==
    ASSUME NEW x \in Int, NEW y \in Int, NEW z \in Nat, x <= y
    PROVE  x * z <= y * z /\ x * z \in Int /\ y * z \in Int
<1>1. (y - x) * z >= 0
  OBVIOUS
<1>2. (y - x) * z = y * z - x * z
  OBVIOUS
<1> QED
  BY <1>1, <1>2

\* A lease that ran down by at least RateLo while the witness counted at most
\* RateHi is still covered.
LEMMA CoveredAfterTick ==
    ASSUME NEW m \in Nat, NEW n \in Nat, NEW a \in Advance, NEW b \in Advance,
           NEW x \in Int, NEW y \in Int, m = n + a, y <= x + b,
           m * RateHi + x * RateLo <= MaxLease * RateHi
    PROVE  n * RateHi + y * RateLo <= MaxLease * RateHi
<1>1. /\ RateLo \in Nat /\ RateHi \in Nat /\ a \in Nat /\ b \in Nat /\ RateLo <= a /\ b <= RateHi
      /\ MaxLease \in Nat
  BY RatePositive, DrainAssumption DEF Advance
<1>2. y * RateLo <= (x + b) * RateLo /\ y * RateLo \in Int
  BY <1>1, ProductMonotone
<1>3. (x + b) * RateLo = x * RateLo + b * RateLo /\ x * RateLo \in Int /\ b * RateLo \in Int
  BY <1>1
<1>4. m * RateHi = n * RateHi + a * RateHi /\ n * RateHi \in Int /\ a * RateHi \in Int
  BY <1>1
<1>5. b * RateLo <= RateHi * RateLo /\ RateHi * RateLo \in Int
  BY <1>1, ProductMonotone
<1>6. RateLo * RateHi <= a * RateHi
  BY <1>1, ProductMonotone
<1>7. RateHi * RateLo = RateLo * RateHi
  BY <1>1
<1>8. MaxLease * RateHi \in Int
  BY <1>1
<1> QED
  BY <1>2, <1>3, <1>4, <1>5, <1>6, <1>7, <1>8

\* A complete witness leaves no time on any lease it covers.
LEMMA CompleteCoversNothing ==
    ASSUME NEW n \in Nat \ {0}, NEW x \in Int, x >= drain_ms
    PROVE  ~(n * RateHi + x * RateLo <= MaxLease * RateHi)
<1>1. /\ RateLo \in Nat \ {0} /\ RateHi \in Nat \ {0} /\ drain_ms \in Nat /\ MaxLease \in Nat
  BY RatePositive, DrainNatural, DrainAssumption
<1>2. drain_ms * RateLo <= x * RateLo /\ x * RateLo \in Int /\ drain_ms * RateLo \in Int
  BY <1>1, ProductMonotone
<1>3. 1 * RateHi <= n * RateHi /\ n * RateHi \in Int
  BY <1>1, ProductMonotone
<1>4. MaxLease * RateHi \in Int /\ 1 * RateHi = RateHi
  BY <1>1
<1> QED
  BY <1>1, <1>2, <1>3, <1>4, DrainCovers

\* A process's step holds nothing new, except that the authority releases a
\* grant it would view again at that moment.
LEMMA ProcessHolds ==
    ASSUME ClientTypeOK, NEW q \in Processes, ProcessStep(q),
           NEW p \in Processes, NEW u \in Purposes, NEW n \in 1 .. MaxLease, Holds(p, u, n)'
    PROVE  boot'[p] = boot[p] /\ (Holds(p, u, n) \/ lease_view(boot[p], u))
<1>1. CASE boot'[p] = boot[p] /\ gate'[p] = gate[p] /\ attempt'[p] = attempt[p]
  BY <1>1 DEF Holds, Live, Grant
<1>2. CASE IssueLease(q)
  <2>1. boot' = boot /\ gate' = gate /\ (p # q => attempt'[p] = attempt[p])
    BY <1>2 DEF IssueLease, ClientTypeOK
  <2>2. CASE p = q
    <3>1. attempt'[p].phase = "Viewed"
      BY <1>2, <2>2, ClientFacts DEF IssueLease, ClientTypeOK, Attempts
    <3> QED
      BY <2>1, <3>1 DEF Holds, Live, Grant
  <2> QED
    BY <1>1, <2>1, <2>2
<1>3. CASE ReleaseLease(q)
  <2>1. /\ boot' = boot /\ gate' = gate
        /\ attempt' = [attempt EXCEPT ![q] = [attempt[q] EXCEPT !.phase = "Granted"]]
    BY <1>3, ClientRelease DEF ReleaseLease
  <2>2. CASE p # q
    BY <1>1, <2>1, <2>2 DEF ClientTypeOK
  <2>3. CASE p = q /\ Live(p)' /\ gate'[p].purpose = u /\ n = gate'[p].left
    BY <2>1, <2>3 DEF Holds, Live
  <2>4. CASE p = q /\ Grant(p)' /\ attempt'[p].purpose = u
    <3>1. attempt[p] # None /\ attempt[p] \in Attempts
      BY <1>3, <2>4, ClientFacts DEF ReleaseLease
    <3>2. attempt'[p] = [attempt[p] EXCEPT !.phase = "Granted"]
      BY <2>1, <2>4 DEF ClientTypeOK
    <3>3. attempt[p].purpose = u
      BY <2>4, <3>1, <3>2 DEF Attempts
    <3> QED
      BY <1>3, <2>1, <2>4, <3>3 DEF ReleaseLease
  <2> QED
    BY <2>2, <2>3, <2>4 DEF Holds
<1>4. ASSUME NEW t, NEW i, NEW m, NEW w \in Purposes, Boot(q, t, i, m, w)
      PROVE  boot'[p] = boot[p] /\ Holds(p, u, n)
  <2>1. CASE p # q
    <3>1. boot'[p] = boot[p] /\ gate'[p] = gate[p] /\ attempt'[p] = attempt[p]
      BY <1>4, <2>1 DEF Boot, ClientTypeOK
    <3> QED
      BY <3>1 DEF Holds, Live, Grant
  <2>2. CASE p = q
    <3>1. gate'[p] = None /\ attempt'[p] = NewAttempt(w)
      BY <1>4, <2>2 DEF Boot, ClientTypeOK
    <3> QED
      BY <3>1, NewAttemptIs DEF Holds, Live, Grant
  <2> QED
    BY <2>1, <2>2
<1>5. ASSUME NEW w \in Purposes, BeginAcquisition(q, w)
      PROVE  boot'[p] = boot[p] /\ Holds(p, u, n)
  <2>1. /\ boot' = boot /\ gate' = gate /\ (p # q => attempt'[p] = attempt[p])
        /\ p = q => attempt'[p] = NewAttempt(w)
    BY <1>5 DEF BeginAcquisition, ClientTypeOK
  <2> QED
    BY <2>1, NewAttemptIs DEF Holds, Live, Grant
<1>6. CASE RetryAttempt(q)
  <2>1. boot' = boot /\ gate' = gate /\ (p # q => attempt'[p] = attempt[p])
    BY <1>6 DEF RetryAttempt, ClientTypeOK
  <2>2. p = q => attempt'[p].phase = "Sent"
    BY <1>6 DEF RetryAttempt, ClientTypeOK, NewAttempt
  <2> QED
    BY <2>1, <2>2 DEF Holds, Live, Grant
<1>7. CASE DropAttempt(q)
  <2>1. /\ gate' = gate /\ (p # q => attempt'[p] = attempt[p] /\ boot'[p] = boot[p])
        /\ p = q => attempt'[p] = None /\ (gate[p] # None => boot'[p] = boot[p])
    BY <1>7 DEF DropAttempt, ClientTypeOK
  <2> QED
    BY <2>1 DEF Holds, Live, Grant
<1>8. CASE Verified(q) /\ Install(q)
  <2>1. boot' = boot /\ (p # q => attempt'[p] = attempt[p] /\ gate'[p] = gate[p])
    BY <1>8 DEF Install, ClientTypeOK
  <2>2. CASE p = q
    <3>1. /\ attempt'[p] = None
          /\ gate'[p] = [purpose |-> attempt[p].purpose, left |-> Remaining(attempt[p]),
                         material |-> attempt[p].material]
      BY <1>8, <2>2 DEF Install, ClientTypeOK
    <3>2. attempt[p].purpose = u /\ n = Remaining(attempt[p])
      BY <3>1 DEF Holds, Live, Grant
    <3>3. Grant(p)
      BY <1>8, <2>2, <3>2 DEF Verified, Grant
    <3> QED
      BY <2>1, <3>2, <3>3 DEF Holds
  <2> QED
    BY <1>1, <2>1, <2>2
<1>9. CASE CloseGate(q)
  <2>1. boot' = boot /\ attempt' = attempt /\ (p # q => gate'[p] = gate[p])
    BY <1>9 DEF CloseGate, ClientTypeOK
  <2>2. p = q => gate'[p].left = 0
    BY <1>9, ClientFacts DEF CloseGate, ClientTypeOK, Live, Gates
  <2> QED
    BY <2>1, <2>2 DEF Holds, Live, Grant
<1>10. CASE Restart(q)
  <2>1. /\ p # q => attempt'[p] = attempt[p] /\ gate'[p] = gate[p] /\ boot'[p] = boot[p]
        /\ p = q => attempt'[p] = None /\ gate'[p] = None
    BY <1>10 DEF Restart, ClientTypeOK
  <2> QED
    BY <2>1 DEF Holds, Live, Grant
<1> QED
  BY <1>2, <1>3, <1>4, <1>5, <1>6, <1>7, <1>8, <1>9, <1>10
     DEF ProcessStep, OpenGate, RenewGate, PromotePrepared

\* A process's step leases nothing new, except that the authority releases a
\* grant for the current, unfenced incarnation.
LEMMA ProcessLeases ==
    ASSUME ClientTypeOK, NEW q \in Processes, ProcessStep(q),
           NEW p \in Processes, NEW n \in 1 .. MaxLease, Leased(p, n)'
    PROVE  /\ boot'[p] = boot[p]
           /\ \/ Leased(p, n)
              \/ /\ IsCurrent(boot[p].tenant, boot[p].incarnation, boot[p].epoch)
                 /\ tenant[boot[p].tenant].fence = None
<1>1. boot'[p] = boot[p] /\ (Leased(p, n) \/ lease_view(boot[p], "Serving"))
  BY ProcessHolds DEF Leased, Purposes
<1> QED
  BY <1>1 DEF lease_view, discover, discovered_epoch, IsCurrent

\* Time only runs gates and grants down: what is left was held before, and ran
\* down by an amount within the rate bound.
LEMMA TickHolds ==
    ASSUME ClientTypeOK, Tick, NEW p \in Processes, NEW u \in Purposes,
           NEW n \in 1 .. MaxLease, Holds(p, u, n)'
    PROVE  boot'[p] = boot[p] /\ \E a \in Advance : n + a \in 1 .. MaxLease /\ Holds(p, u, n + a)
<1>1. PICK a \in Advance :
         /\ attempt'[p] = (IF attempt[p] = None THEN None
                           ELSE [attempt[p] EXCEPT !.spent = AtMost(@ + a, MaxLease)])
         /\ gate'[p] = (IF gate[p] = None THEN None
                        ELSE [gate[p] EXCEPT !.left = AtLeast(@ - a, 0)])
  BY TickIs
<1>2. a \in Nat /\ MaxLease \in Nat /\ boot' = boot
  BY RatePositive, DrainAssumption DEF Advance, Tick
<1>3. CASE Live(p)' /\ gate'[p].purpose = u /\ n = gate'[p].left
  <2>1. gate[p] # None /\ gate[p] \in Gates /\ gate[p].left \in 0 .. MaxLease
    BY <1>1, <1>3, ClientFacts DEF Live, Gates
  <2>2. gate'[p].left = AtLeast(gate[p].left - a, 0) /\ gate'[p].purpose = gate[p].purpose
    BY <1>1, <2>1 DEF Gates
  <2>3. n + a = gate[p].left
    BY <1>2, <1>3, <2>1, <2>2 DEF AtLeast
  <2>4. Live(p) /\ gate[p].purpose = u
    BY <1>2, <1>3, <2>1, <2>2, <2>3 DEF Live
  <2> QED
    BY <1>2, <2>1, <2>3, <2>4 DEF Holds
<1>4. CASE Grant(p)' /\ attempt'[p].purpose = u /\ n = Remaining(attempt'[p])
  <2>1. attempt[p] # None /\ attempt[p] \in Attempts
    BY <1>1, <1>4, ClientFacts DEF Grant
  <2>2. attempt'[p] = [attempt[p] EXCEPT !.spent = AtMost(attempt[p].spent + a, MaxLease)]
    BY <1>1, <2>1
  <2>3. /\ attempt'[p].phase = attempt[p].phase /\ attempt'[p].purpose = attempt[p].purpose
        /\ attempt'[p].lifetime = attempt[p].lifetime
        /\ attempt'[p].spent = AtMost(attempt[p].spent + a, MaxLease)
    BY <2>1, <2>2 DEF Attempts
  <2>4. attempt[p].phase = "Granted" /\ attempt[p].purpose = u
    BY <1>4, <2>3 DEF Grant
  <2>5. attempt[p].spent \in 0 .. MaxLease /\ attempt[p].lifetime \in 1 .. MaxLease
    BY <2>1, <2>4 DEF Attempts
  <2>6. n + a = Remaining(attempt[p]) /\ Remaining(attempt[p]) > 0
    BY <1>2, <1>4, <2>3, <2>5 DEF Remaining, AtLeast, AtMost
  <2>7. Remaining(attempt[p]) \in 1 .. MaxLease
    BY <1>2, <2>5, <2>6 DEF Remaining, AtLeast
  <2> QED
    BY <1>2, <2>1, <2>4, <2>6, <2>7 DEF Holds, Grant
<1> QED
  BY <1>3, <1>4 DEF Holds

\* What an applied entry does to a tenant: nothing, enroll it, fence it under an
\* identity that had no receipt, or replace it once its fence is drained.
LEMMA TenantSteps ==
    ASSUME TypeInv, NEW d \in proposals, NEW e, Apply(d, e), NEW t \in Tenants
    PROVE  \/ tenant'[t] = tenant[t]
           \/ tenant[t] = None /\ tenant'[t].fence = None
           \/ /\ tenant[t] # None /\ tenant[t].fence = None
              /\ tenant'[t] = [tenant[t] EXCEPT !.fence = d.command.id]
              /\ receipts[d.command.id] = None /\ receipts'[d.command.id] # None
           \/ /\ t = d.command.tenant /\ Fenced(t) /\ d.drained = tenant[t].fence
              /\ tenant'[t].fence = None
              /\ tenant'[t] # None
              /\ tenant'[t].authority_epoch = tenant[t].authority_epoch + 1
<1> USE DEF TypeInv, AuthorityTypeOK
<1>1. /\ d.command \in Commands /\ d.command.tenant \in Tenants /\ d.command.id \in Ids
      /\ tenant \in [Tenants -> TenantRecords \cup {None}]
      /\ receipts \in [Ids -> ReceiptsOf(Outcomes) \cup {None}]
  BY ProposalFacts, CommandFacts DEF RecordsTypeOK
<1>2. CASE ApplyEnroll(d, e)
  BY <1>1, <1>2 DEF ApplyEnroll, EnrollOK
<1>3. CASE ApplyFence(d, e)
  <2> DEFINE o == [kind |-> "Fenced", incarnation |-> d.command.action.incarnation,
                   epoch |-> d.command.action.epoch]
  <2>1. /\ tenant' = [tenant EXCEPT ![d.command.tenant].fence = d.command.id]
        /\ receipts[d.command.id] = None /\ FenceOK(d.command)
        /\ receipts' = [receipts EXCEPT ![d.command.id] = Receipt(d, o)]
    BY <1>3 DEF ApplyFence, Effective, Publish, PublishWith
  <2>2. o \in Outcomes
    BY <1>1, <1>3, FenceFacts DEF ApplyFence, Outcomes, PlainOutcomes
  <2>3. Receipt(d, o) # None
    BY <2>2, ReceiptIs, RecordAssumption
  <2>4. tenant[d.command.tenant] # None /\ tenant[d.command.tenant].fence = None
    BY <2>1 DEF FenceOK, IsCurrent
  <2> HIDE DEF o
  <2> QED
    BY <1>1, <2>1, <2>3, <2>4
<1>4. CASE ApplyActivate(d, e)
  <2>1. Fenced(d.command.tenant) /\ d.drained = tenant[d.command.tenant].fence
    BY <1>4 DEF ApplyActivate, ActivateOK
  <2> QED
    BY <1>4, <2>1, ActivateView
<1>5. CASE tenant' = tenant
  BY <1>5
<1> QED
  BY <1>2, <1>3, <1>4, <1>5
     DEF Apply, ApplyPrepareTarget, ApplyStopTarget, ApplyStopActivation,
         ApplyReplaceAdministrators, ApplyRejected, ApplyWithoutEffect, records

\* What an applied entry does to a target's tombstone: nothing, or write it for
\* the first time, together with the receipt it carries, under an unused identity.
LEMMA StopSteps ==
    ASSUME TypeInv, NEW d \in proposals, NEW e, Apply(d, e),
           NEW t \in Tenants, NEW i \in Incarnations
    PROVE  \/ target_stops'[t][i] = target_stops[t][i]
           \/ /\ target_stops[t][i] = None /\ target_stops'[t][i] # None
              /\ target_stops'[t][i].command = d.command
              /\ receipts[d.command.id] = None /\ receipts'[d.command.id] # None
<1> USE DEF TypeInv, AuthorityTypeOK
<1>1. /\ d.command \in Commands /\ d.command.tenant \in Tenants /\ d.command.id \in Ids
      /\ receipts \in [Ids -> ReceiptsOf(Outcomes) \cup {None}]
  BY ProposalFacts, CommandFacts DEF RecordsTypeOK
<1>2. ASSUME d.command.action.kind = "StopTarget", Publish(d, StopOutcome(d.command)),
             StopTargetOK(d.command), receipts[d.command.id] = None,
             target_stops' = [target_stops EXCEPT
                ![d.command.tenant][d.command.action.target.incarnation] =
                    Receipt(d, StopOutcome(d.command))]
      PROVE  \/ target_stops'[t][i] = target_stops[t][i]
             \/ /\ target_stops[t][i] = None /\ target_stops'[t][i] # None
                /\ target_stops'[t][i].command = d.command
                /\ receipts'[d.command.id] # None
  <2> DEFINE o == StopOutcome(d.command)
             x == d.command.action.target.incarnation
  <2>1. o \in Outcomes /\ x \in Incarnations
    BY <1>1, <1>2, TargetFacts, TargetParts DEF StopOutcome, Outcomes, PlainOutcomes
  <2>2. Receipt(d, o) # None /\ Receipt(d, o).command = d.command
    BY <2>1, ReceiptIs, RecordAssumption
  <2>3. receipts' = [receipts EXCEPT ![d.command.id] = Receipt(d, o)]
    BY <1>2 DEF Publish, PublishWith
  <2>4. \/ target_stops'[t][i] = target_stops[t][i]
        \/ target_stops[t][i] = None /\ target_stops'[t][i] = Receipt(d, o)
    BY <1>1, <1>2, <2>1 DEF RecordsTypeOK, StopTargetOK
  <2> HIDE DEF o
  <2> QED
    BY <1>1, <2>2, <2>3, <2>4
<1>3. CASE ApplyStopTarget(d, e)
  <2>1. CASE target_stops' = target_stops
    BY <2>1
  <2> QED
    BY <1>2, <1>3, <2>1 DEF ApplyStopTarget, Effective
<1>4. CASE target_stops' = target_stops
  BY <1>4
<1> QED
  BY <1>3, <1>4
     DEF Apply, ApplyEnroll, ApplyFence, ApplyPrepareTarget, ApplyActivate,
         ApplyStopActivation, ApplyReplaceAdministrators, ApplyRejected,
         ApplyWithoutEffect, records

\* An applied entry touches neither the witnesses nor any other entry.
LEMMA ApplyLeaves ==
    ASSUME NEW d, NEW e, Apply(d, e)
    PROVE  drains' = drains /\ proposals' \subseteq proposals
BY DEF Apply, ApplyEnroll, ApplyFence, ApplyPrepareTarget, ApplyActivate, ApplyStopTarget,
       ApplyStopActivation, ApplyReplaceAdministrators, ApplyRejected, ApplyWithoutEffect,
       Publish, PublishWith, leader

\* Witnesses, drained proposals, fences and tombstones stay retained when an
\* entry is applied.
LEMMA RetainedApply ==
    ASSUME ServingInv, NEW d \in proposals, NEW e, Apply(d, e) PROVE StopsRetained'
<1> USE DEF ServingInv, ServingTypeInv
<1>1. \A k \in Ids : receipts[k] # None => receipts'[k] # None
  BY ApplyKeepsReceipts
<1>2. drains' = drains /\ proposals' \subseteq proposals
  BY ApplyLeaves
<1>3. \A k \in Ids : drains'[k] # None => receipts'[k] # None
  BY <1>1, <1>2 DEF StopsRetained
<1>4. ASSUME NEW x \in proposals', x.drained # None PROVE receipts'[x.drained] # None
  <2>1. x \in proposals /\ x.drained \in Ids
    BY <1>2, <1>4, ProposalFacts DEF TypeInv, AuthorityTypeOK
  <2> QED
    BY <1>1, <1>4, <2>1 DEF StopsRetained
<1>5. ASSUME NEW t \in Tenants, Fenced(t)' PROVE receipts'[tenant'[t].fence] # None
  <2>1. tenant'[t] # None /\ tenant'[t].fence # None
    BY <1>5 DEF Fenced
  <2>2. tenant[t] # None => tenant[t] \in TenantRecords
    BY DEF TypeInv, AuthorityTypeOK, RecordsTypeOK
  <2>3. CASE tenant'[t] = tenant[t]
    <3>1. Fenced(t) /\ tenant[t].fence \in Ids
      BY <2>1, <2>2, <2>3 DEF Fenced, TenantRecords
    <3> QED
      BY <1>1, <2>3, <3>1 DEF StopsRetained
  <2>4. CASE /\ tenant[t] # None /\ tenant'[t] = [tenant[t] EXCEPT !.fence = d.command.id]
             /\ receipts'[d.command.id] # None
    BY <2>2, <2>4 DEF TenantRecords
  <2> QED
    BY <2>1, <2>3, <2>4, TenantSteps
<1>6. ASSUME NEW t \in Tenants, NEW i \in Incarnations, target_stops'[t][i] # None
      PROVE  receipts'[target_stops'[t][i].command.id] # None
  <2>1. CASE target_stops'[t][i] = target_stops[t][i]
    <3>1. target_stops[t][i] \in ReceiptsOf(PlainOutcomes)
      BY <1>6, <2>1 DEF TypeInv, AuthorityTypeOK, RecordsTypeOK
    <3>2. target_stops[t][i].command.id \in Ids
      BY <3>1, CommandFacts DEF ReceiptsOf
    <3> QED
      BY <1>1, <1>6, <2>1, <3>2 DEF StopsRetained
  <2> QED
    BY <2>1, StopSteps
<1> QED
  BY <1>3, <1>4, <1>5, <1>6 DEF StopsRetained

\* Leases look only at the processes.
LEMMA LeasedUnchanged ==
    ASSUME UNCHANGED clients
    PROVE  /\ \A p, u, n : Holds(p, u, n)' <=> Holds(p, u, n)
           /\ \A p, n : Leased(p, n)' <=> Leased(p, n)
<1>1. \A p, u, n : Holds(p, u, n)' <=> Holds(p, u, n)
  BY DEF clients, Holds, Live, Grant, Remaining
<1> QED
  BY <1>1 DEF Leased

\* A process that holds a gate or a grant has a boot, with its tenant.
LEMMA HolderBoot ==
    ASSUME ClientTypeOK, NEW p \in Processes, NEW u, NEW n, Holds(p, u, n)
    PROVE  /\ boot[p] \in Boots
           /\ boot[p].tenant \in Tenants /\ boot[p].incarnation \in Incarnations
<1>1. boot[p] # None
  BY DEF ClientTypeOK, Holds, Live, Grant
<1> QED
  BY <1>1, ClientFacts DEF Boots

\* An applied entry never takes a tenant away from a lease: a replacement finds
\* none left, and a new fence has no witness and no drained activation yet.
LEMMA LeasesApply ==
    ASSUME ServingInv, NEW d \in proposals, NEW e, Apply(d, e), UNCHANGED clients
    PROVE  LeasesCurrent' /\ LeasesWitnessed' /\ DrainedUnleased'
<1> USE DEF ServingInv, ServingTypeInv
<1>1. boot' = boot
  BY DEF clients
<1>2. drains' = drains /\ proposals' \subseteq proposals
  BY ApplyLeaves
<1>3. d.command.id \in Ids /\ d.command.tenant \in Tenants
  BY ProposalFacts, CommandFacts DEF TypeInv, AuthorityTypeOK
<1>4. ASSUME NEW p \in Processes, NEW n \in 1 .. MaxLease, Leased(p, n)'
      PROVE  LET t == boot[p].tenant
             IN  /\ t \in Tenants /\ tenant[t] # None /\ tenant[t] \in TenantRecords
                 /\ IsCurrent(t, boot[p].incarnation, boot[p].epoch)
                 /\ \/ tenant'[t] = tenant[t]
                    \/ /\ tenant'[t] = [tenant[t] EXCEPT !.fence = d.command.id]
                       /\ receipts[d.command.id] = None
  <2> DEFINE t == boot[p].tenant
  <2>1. Leased(p, n) /\ t \in Tenants
    BY <1>4, LeasedUnchanged, HolderBoot DEF Leased
  <2>2. IsCurrent(t, boot[p].incarnation, boot[p].epoch)
    BY <2>1 DEF LeasesCurrent
  <2>3. tenant[t] # None /\ tenant[t] \in TenantRecords
    BY <2>1, <2>2 DEF IsCurrent, TypeInv, AuthorityTypeOK, RecordsTypeOK
  <2>4. ~(t = d.command.tenant /\ Fenced(t) /\ d.drained = tenant[t].fence)
    BY <2>1 DEF DrainedUnleased
  <2> QED
    BY <2>1, <2>2, <2>3, <2>4, TenantSteps
<1>5. LeasesCurrent'
  <2> SUFFICES ASSUME NEW p \in Processes, NEW n \in 1 .. MaxLease, Leased(p, n)'
               PROVE  IsCurrent(boot[p].tenant, boot[p].incarnation, boot[p].epoch)'
    BY <1>1 DEF LeasesCurrent
  <2>1. [tenant[boot[p].tenant] EXCEPT !.fence = d.command.id] \in TenantRecords
    BY <1>3, <1>4 DEF TenantRecords
  <2>2. tenant'[boot[p].tenant] # None
    BY <1>4, <2>1, RecordAssumption
  <2>3. /\ tenant'[boot[p].tenant].incarnation = tenant[boot[p].tenant].incarnation
        /\ tenant'[boot[p].tenant].authority_epoch = tenant[boot[p].tenant].authority_epoch
    BY <1>4 DEF TenantRecords
  <2>4. /\ tenant[boot[p].tenant].incarnation = boot[p].incarnation
        /\ tenant[boot[p].tenant].authority_epoch = boot[p].epoch
    BY <1>4 DEF IsCurrent
  <2> QED
    BY <1>1, <2>2, <2>3, <2>4 DEF IsCurrent
<1>6. LeasesWitnessed'
  <2> SUFFICES ASSUME NEW p \in Processes, NEW n \in 1 .. MaxLease, Leased(p, n)',
                      tenant'[boot[p].tenant].fence # None,
                      drains[tenant'[boot[p].tenant].fence] # None
               PROVE  n * RateHi + drains[tenant'[boot[p].tenant].fence].elapsed * RateLo
                          <= MaxLease * RateHi
    BY <1>1, <1>2 DEF LeasesWitnessed
  <2> DEFINE t == boot[p].tenant
  <2>1. Leased(p, n)
    BY LeasedUnchanged
  <2>2. tenant'[t] # [tenant[t] EXCEPT !.fence = d.command.id] \/ receipts[d.command.id] # None
    <3> SUFFICES ASSUME tenant'[t] = [tenant[t] EXCEPT !.fence = d.command.id]
                 PROVE  receipts[d.command.id] # None
      OBVIOUS
    <3>1. tenant'[t].fence = d.command.id
      BY <1>4 DEF TenantRecords
    <3> QED
      BY <1>3, <3>1 DEF StopsRetained
  <2>3. tenant'[t] = tenant[t]
    BY <1>4, <2>2
  <2> QED
    BY <2>1, <2>3 DEF LeasesWitnessed
<1>7. DrainedUnleased'
  <2> SUFFICES ASSUME NEW x \in proposals, Fenced(x.command.tenant)',
                      x.drained = tenant'[x.command.tenant].fence,
                      NEW p \in Processes, NEW n \in 1 .. MaxLease, Leased(p, n)',
                      boot[p].tenant = x.command.tenant
               PROVE  FALSE
    BY <1>1, <1>2 DEF DrainedUnleased
  <2> DEFINE t == boot[p].tenant
  <2>1. Leased(p, n)
    BY LeasedUnchanged
  <2>2. x.drained # None /\ receipts[x.drained] # None
    BY DEF Fenced, StopsRetained
  <2>3. tenant'[t] = tenant[t]
    <3>1. ASSUME tenant'[t] = [tenant[t] EXCEPT !.fence = d.command.id],
                 receipts[d.command.id] = None
          PROVE  FALSE
      <4>1. tenant[t] \in TenantRecords
        BY <1>4
      <4>2. tenant'[t].fence = d.command.id
        BY <3>1, <4>1 DEF TenantRecords
      <4> QED
        BY <2>2, <3>1, <4>2
    <3> QED
      BY <1>4, <3>1
  <2> QED
    BY <2>1, <2>3 DEF DrainedUnleased, Fenced
<1> QED
  BY <1>5, <1>6, <1>7

\* What the leader's other steps do to the witnesses: each one stands no further
\* than before or at zero, and belongs to a retained stop.
WitnessesHold ==
    \A k \in Ids : drains'[k] # None =>
        /\ receipts[k] # None
        /\ drains'[k].elapsed \in Int
        /\ \/ drains'[k].elapsed <= 0
           \/ drains[k] # None /\ drains'[k].elapsed <= drains[k].elapsed

\* Requiring the witness of a retained stop holds the witnesses.
LEMMA RequireHolds ==
    ASSUME ServingInv, NEW k \in Ids, receipts[k] # None,
           drains' \in RequireDrainWitness(drains, k, term)
    PROVE  WitnessesHold
<1> USE DEF ServingInv, ServingTypeInv, TypeInv, AuthorityTypeOK
<1>1. term \in Nat /\ drains \in [Ids -> Witness \cup {None}]
  BY AuthorityAssumption DEF LogTypeOK, LeaderTypeOK
<1>2. /\ drains' \in [Ids -> Witness \cup {None}]
      /\ \A j \in Ids : drains'[j] # None =>
            \/ drains[j] # None /\ drains'[j].elapsed \in {0, drains[j].elapsed}
            \/ j = k /\ drains'[j].elapsed = 0
  BY <1>1, RequireIs
<1>3. \A j \in Ids : drains'[j] # None => drains'[j].elapsed \in Int
  BY <1>2 DEF Witness
<1> QED
  BY <1>2, <1>3 DEF WitnessesHold, StopsRetained

\* So does every step of the leader's process that is not an applied entry.
LEMMA LeaderHolds ==
    ASSUME ServingInv, AuthorityStep,
           ~ \E d \in proposals, e \in 1 .. MaxTerm : Apply(d, e)
    PROVE  WitnessesHold
<1> USE DEF ServingInv, ServingTypeInv, TypeInv, AuthorityTypeOK
<1>1. drains \in [Ids -> Witness \cup {None}]
  BY DEF LeaderTypeOK
<1>2. CASE drains' = drains
  <2>1. \A k \in Ids : drains[k] # None => drains[k].elapsed \in Int
    BY <1>1 DEF Witness
  <2> QED
    BY <1>2, <2>1 DEF WitnessesHold, StopsRetained
<1>3. CASE RestartLeader
  BY <1>3 DEF RestartLeader, WitnessesHold
<1>4. ASSUME NEW c \in Commands, NEW a \in Principals, WitnessFence(c, a) PROVE WitnessesHold
  <2>1. /\ drains' \in RequireDrainWitness(drains, c.action.fence, term)
        /\ Fenced(c.tenant) /\ tenant[c.tenant].fence = c.action.fence
    BY <1>4 DEF WitnessFence
  <2>2. c.action.fence \in Ids /\ c.tenant \in Tenants
    BY <1>4, ActivateFacts, CommandFacts DEF WitnessFence
  <2>3. receipts[c.action.fence] # None
    BY <2>1, <2>2 DEF StopsRetained
  <2> QED
    BY <2>1, <2>2, <2>3, RequireHolds
<1>5. ASSUME NEW j \in 1 .. MaxRegression, IssuerClockRegresses(j) PROVE WitnessesHold
  <2>1. drains' = Aged(drains, -j)
    BY <1>5 DEF IssuerClockRegresses
  <2>2. /\ drains' \in [Ids -> Witness \cup {None}]
        /\ \A k \in Ids : drains'[k] # None <=> drains[k] # None
        /\ \A k \in Ids : drains[k] # None =>
              drains'[k].elapsed = AtMost(drains[k].elapsed + (-j), Horizon)
    BY <1>1, <2>1, AgedIs
  <2>3. ASSUME NEW k \in Ids, drains'[k] # None
        PROVE  drains'[k].elapsed \in Int /\ drains'[k].elapsed <= drains[k].elapsed
    <3>1. drains[k].elapsed \in Int /\ drains'[k].elapsed \in Int
      BY <1>1, <2>2, <2>3 DEF Witness
    <3> QED
      BY <2>2, <2>3, <3>1, DrainNatural DEF AtMost
  <2> QED
    BY <2>2, <2>3 DEF WitnessesHold, StopsRetained
<1> QED
  BY <1>2, <1>3, <1>4, <1>5, OperationalKeeps
     DEF AuthorityStep, LoseProposal, ApplyMetadata, ChangeTerm, Execute,
         ExecuteActivate, AwaitFenceDrain, leader

\* A witness that holds still covers what it covered.
LEMMA CoverKept ==
    ASSUME AuthorityTypeOK, WitnessesHold, NEW k \in Ids, NEW n \in 1 .. MaxLease,
           drains'[k] # None,
           drains[k] # None => n * RateHi + drains[k].elapsed * RateLo <= MaxLease * RateHi
    PROVE  n * RateHi + drains'[k].elapsed * RateLo <= MaxLease * RateHi
<1>1. /\ RateLo \in Nat /\ RateHi \in Nat /\ n \in Nat /\ n <= MaxLease /\ MaxLease \in Nat
      /\ n * RateHi \in Int /\ MaxLease * RateHi \in Int /\ 0 * RateLo = 0
  BY RatePositive, DrainAssumption
<1>2. n * RateHi <= MaxLease * RateHi
  BY <1>1, ProductMonotone
<1>3. drains'[k].elapsed \in Int
  BY DEF WitnessesHold
<1>4. CASE drains'[k].elapsed <= 0
  <2>1. drains'[k].elapsed * RateLo <= 0 /\ drains'[k].elapsed * RateLo \in Int
    BY <1>1, <1>3, <1>4, ProductMonotone
  <2> QED
    BY <1>1, <1>2, <2>1
<1>5. CASE drains[k] # None /\ drains'[k].elapsed <= drains[k].elapsed
  <2>1. drains[k].elapsed \in Int
    BY <1>5 DEF AuthorityTypeOK, LeaderTypeOK, Witness
  <2>2. /\ drains'[k].elapsed * RateLo <= drains[k].elapsed * RateLo
        /\ drains'[k].elapsed * RateLo \in Int /\ drains[k].elapsed * RateLo \in Int
    BY <1>1, <1>3, <1>5, <2>1, ProductMonotone
  <2> QED
    BY <1>1, <1>5, <2>2
<1> QED
  BY <1>4, <1>5 DEF WitnessesHold

\* Witnesses that hold still cover every lease.
LEMMA WitnessedHolds ==
    ASSUME ServingInv, WitnessesHold, UNCHANGED <<tenant, clients>>
    PROVE  LeasesWitnessed'
<1> USE DEF ServingInv, ServingTypeInv
<1>1. boot' = boot
  BY DEF clients
<1> SUFFICES ASSUME NEW p \in Processes, NEW n \in 1 .. MaxLease, Leased(p, n),
                    tenant[boot[p].tenant].fence # None,
                    drains'[tenant[boot[p].tenant].fence] # None
             PROVE  n * RateHi + drains'[tenant[boot[p].tenant].fence].elapsed * RateLo
                        <= MaxLease * RateHi
  BY <1>1, LeasedUnchanged DEF LeasesWitnessed
<1> DEFINE f == tenant[boot[p].tenant].fence
<1>2. f \in Ids
  <2>1. IsCurrent(boot[p].tenant, boot[p].incarnation, boot[p].epoch) /\ boot[p].tenant \in Tenants
    BY HolderBoot DEF LeasesCurrent, Leased
  <2>2. tenant[boot[p].tenant] \in TenantRecords
    BY <2>1 DEF IsCurrent, TypeInv, AuthorityTypeOK, RecordsTypeOK
  <2> QED
    BY <2>2 DEF TenantRecords
<1>3. drains[f] # None => n * RateHi + drains[f].elapsed * RateLo <= MaxLease * RateHi
  BY DEF LeasesWitnessed
<1> HIDE DEF f
<1>4. drains'[f] # None
  BY DEF f
<1>5. n * RateHi + drains'[f].elapsed * RateLo <= MaxLease * RateHi
  BY <1>2, <1>3, <1>4, CoverKept DEF TypeInv
<1> QED
  BY <1>5 DEF f

\* The leader appends an activation as drained only when no lease is left.
LEMMA ServingLeader ==
    ASSUME ServingInv, AuthorityStep, UNCHANGED clients,
           ~ \E d \in proposals, e \in 1 .. MaxTerm : Apply(d, e)
    PROVE  StopsRetained' /\ LeasesCurrent' /\ LeasesWitnessed' /\ DrainedUnleased'
<1> USE DEF ServingInv, ServingTypeInv
<1>1. UNCHANGED <<tenant, receipts, preparations, incarnations, target_stops>> /\ boot' = boot
  BY OnlyApplyWrites DEF AuthorityNext, records, clients
<1>2. WitnessesHold
  BY LeaderHolds
<1>3. LeasesWitnessed'
  BY <1>1, <1>2, WitnessedHolds
<1>4. LeasesCurrent'
  BY <1>1, LeasedUnchanged DEF LeasesCurrent, IsCurrent
<1>5. \A x \in proposals' :
        \/ x \in proposals
        \/ x.drained = None
        \/ \E c \in Commands, a \in Principals :
              ExecuteActivate(c, a) /\ x.command = c /\ x.drained = c.action.fence
  <2> SUFFICES ASSUME NEW x \in proposals', x \notin proposals, x.drained # None
               PROVE  \E c \in Commands, a \in Principals :
                         ExecuteActivate(c, a) /\ x.command = c /\ x.drained = c.action.fence
    OBVIOUS
  <2>1. ASSUME NEW c \in Commands, NEW a \in Principals, NEW f, Propose(c, a, f)
        PROVE  x.command = c /\ x.drained = f
    BY <2>1 DEF Propose
  <2>2. \E c \in Commands, a \in Principals : Execute(c, a) \/ ExecuteActivate(c, a)
    BY OperationalKeeps
       DEF AuthorityStep, LoseProposal, ApplyMetadata, ChangeTerm, RestartLeader,
           AwaitFenceDrain, IssuerClockRegresses, log
  <2>3. ASSUME NEW c \in Commands, NEW a \in Principals, Execute(c, a) PROVE FALSE
    BY <2>1, <2>3 DEF Execute
  <2>4. ASSUME NEW c \in Commands, NEW a \in Principals, ExecuteActivate(c, a)
        PROVE  x.command = c /\ x.drained = c.action.fence
    BY <2>1, <2>4 DEF ExecuteActivate
  <2> QED
    BY <2>2, <2>3, <2>4
<1>6. ASSUME NEW c \in Commands, NEW a \in Principals, ExecuteActivate(c, a)
      PROVE  /\ c.tenant \in Tenants /\ c.action.fence \in Ids
             /\ Fenced(c.tenant) /\ tenant[c.tenant].fence = c.action.fence
             /\ Complete(drains', c.action.fence)
             /\ receipts[c.action.fence] # None
  <2>1. /\ Fenced(c.tenant) /\ tenant[c.tenant].fence = c.action.fence
        /\ Complete(drains', c.action.fence) /\ c.action.kind = "Activate"
    BY <1>6 DEF ExecuteActivate, WitnessFence
  <2>2. c.tenant \in Tenants /\ c.action.fence \in Ids
    BY <2>1, CommandFacts, ActivateFacts
  <2> QED
    BY <2>1, <2>2 DEF StopsRetained
<1>7. StopsRetained'
  <2>1. \A k \in Ids : drains'[k] # None => receipts'[k] # None
    BY <1>1, <1>2 DEF WitnessesHold
  <2>2. \A x \in proposals' : x.drained # None => receipts'[x.drained] # None
    BY <1>1, <1>5, <1>6 DEF StopsRetained
  <2> QED
    BY <1>1, <2>1, <2>2 DEF StopsRetained, Fenced
<1>8. DrainedUnleased'
  <2> SUFFICES ASSUME NEW x \in proposals', Fenced(x.command.tenant),
                      x.drained = tenant[x.command.tenant].fence,
                      NEW p \in Processes, NEW n \in 1 .. MaxLease, Leased(p, n),
                      boot[p].tenant = x.command.tenant
               PROVE  FALSE
    BY <1>1, LeasedUnchanged DEF DrainedUnleased, Fenced
  <2>1. CASE x \in proposals
    BY <2>1 DEF DrainedUnleased
  <2>2. ASSUME NEW c \in Commands, NEW a \in Principals, ExecuteActivate(c, a),
               x.command = c, x.drained = c.action.fence
        PROVE  FALSE
    <3> DEFINE f == c.action.fence
    <3>1. f \in Ids /\ tenant[boot[p].tenant].fence = f /\ Complete(drains', f)
      BY <1>6, <2>2
    <3>2. f # None /\ drains'[f] # None /\ drains'[f].elapsed >= drain_ms
      BY <3>1, NoneAssumption DEF Complete
    <3>3. drains'[f].elapsed \in Int
      BY <1>2, <3>1, <3>2 DEF WitnessesHold
    <3>4. n * RateHi + drains'[f].elapsed * RateLo <= MaxLease * RateHi
      BY <1>1, <1>3, <3>1, <3>2, LeasedUnchanged DEF LeasesWitnessed
    <3> QED
      BY <3>2, <3>3, <3>4, CompleteCoversNothing
  <2> QED
    BY <1>5, <2>1, <2>2 DEF Fenced
<1> QED
  BY <1>3, <1>4, <1>7, <1>8

\* Observing a stop moves witnesses only.
LEMMA ServingStop ==
    ASSUME ServingInv, NEW k \in Ids, NEW a, WitnessStop(k, a)
    PROVE  StopsRetained' /\ LeasesCurrent' /\ LeasesWitnessed' /\ DrainedUnleased'
<1> USE DEF ServingInv, ServingTypeInv
<1>1. /\ UNCHANGED <<tenant, receipts, target_stops, proposals, clients>> /\ boot' = boot
  BY DEF WitnessStop, records, log, clients
<1> DEFINE t == receipts[k].command.tenant
           i == receipts[k].outcome.target.incarnation
           s == target_stops[t][i].command.id
<1>2. /\ t \in Tenants /\ i \in Incarnations /\ target_stops[t][i] # None /\ s \in Ids
      /\ drains' \in RequireDrainWitness(drains, s, term)
  BY WitnessStopIs DEF TypeInv
<1>3. receipts[s] # None
  BY <1>2 DEF StopsRetained
<1> HIDE DEF s
<1>4. WitnessesHold
  BY <1>2, <1>3, RequireHolds
<1>5. LeasesWitnessed'
  BY <1>1, <1>4, WitnessedHolds
<1>6. LeasesCurrent' /\ DrainedUnleased'
  BY <1>1, LeasedUnchanged DEF LeasesCurrent, DrainedUnleased, IsCurrent, Fenced
<1>7. StopsRetained'
  BY <1>1, <1>4 DEF StopsRetained, WitnessesHold, Fenced
<1> QED
  BY <1>5, <1>6, <1>7

\* A process's step takes no lease beyond the current, unfenced incarnation.
LEMMA ServingProcess ==
    ASSUME ServingInv, NEW q \in Processes, ProcessStep(q)
    PROVE  StopsRetained' /\ LeasesCurrent' /\ LeasesWitnessed' /\ DrainedUnleased'
<1> USE DEF ServingInv, ServingTypeInv
<1>1. UNCHANGED authorityVars
  BY DEF ProcessStep, IssueLease, ReleaseLease, Boot, BeginAcquisition, RetryAttempt,
         DropAttempt, OpenGate, RenewGate, PromotePrepared, Install, CloseGate, Restart
<1>2. UNCHANGED <<tenant, receipts, target_stops, proposals, drains>>
  BY <1>1 DEF authorityVars, records, log, leader
<1>3. ASSUME NEW p \in Processes, NEW n \in 1 .. MaxLease, Leased(p, n)'
      PROVE  /\ boot'[p] = boot[p]
             /\ \/ Leased(p, n)
                \/ /\ IsCurrent(boot[p].tenant, boot[p].incarnation, boot[p].epoch)
                   /\ tenant[boot[p].tenant].fence = None
  BY <1>3, ProcessLeases
<1>4. StopsRetained'
  BY <1>2 DEF StopsRetained, Fenced
<1>5. LeasesCurrent'
  BY <1>2, <1>3 DEF LeasesCurrent, IsCurrent
<1>6. LeasesWitnessed'
  BY <1>2, <1>3 DEF LeasesWitnessed
<1>7. DrainedUnleased'
  BY <1>2, <1>3 DEF DrainedUnleased, Fenced
<1> QED
  BY <1>4, <1>5, <1>6, <1>7

\* Time keeps every lease covered by the witness of its fence.
LEMMA ServingTick ==
    ASSUME ServingInv, Tick
    PROVE  StopsRetained' /\ LeasesCurrent' /\ LeasesWitnessed' /\ DrainedUnleased'
<1> USE DEF ServingInv, ServingTypeInv
<1>1. UNCHANGED <<tenant, receipts, target_stops, proposals, boot>>
  BY DEF Tick, records, log
<1>2. PICK b \in Advance : drains' = Aged(drains, b)
  BY DEF Tick
<1>3. b \in Int /\ drains \in [Ids -> Witness \cup {None}]
  BY RatePositive DEF Advance, TypeInv, AuthorityTypeOK, LeaderTypeOK
<1>4. /\ drains' \in [Ids -> Witness \cup {None}]
      /\ \A k \in Ids : drains'[k] # None <=> drains[k] # None
      /\ \A k \in Ids : drains[k] # None =>
            drains'[k].elapsed = AtMost(drains[k].elapsed + b, Horizon)
  BY <1>2, <1>3, AgedIs
<1>5. ASSUME NEW p \in Processes, NEW n \in 1 .. MaxLease, Leased(p, n)'
      PROVE  \E a \in Advance : n + a \in 1 .. MaxLease /\ Leased(p, n + a)
  BY <1>5, TickHolds DEF Leased, Purposes
<1>6. StopsRetained'
  BY <1>1, <1>4 DEF StopsRetained, Fenced
<1>7. LeasesCurrent'
  BY <1>1, <1>5 DEF LeasesCurrent, IsCurrent
<1>8. DrainedUnleased'
  BY <1>1, <1>5 DEF DrainedUnleased, Fenced
<1>9. LeasesWitnessed'
  <2> SUFFICES ASSUME NEW p \in Processes, NEW n \in 1 .. MaxLease, Leased(p, n)',
                      tenant[boot[p].tenant].fence # None,
                      drains'[tenant[boot[p].tenant].fence] # None
               PROVE  n * RateHi + drains'[tenant[boot[p].tenant].fence].elapsed * RateLo
                          <= MaxLease * RateHi
    BY <1>1 DEF LeasesWitnessed
  <2> DEFINE f == tenant[boot[p].tenant].fence
  <2>1. PICK a \in Advance : n + a \in 1 .. MaxLease /\ Leased(p, n + a)
    BY <1>5
  <2>2. f \in Ids
    <3>1. /\ IsCurrent(boot[p].tenant, boot[p].incarnation, boot[p].epoch)
          /\ boot[p].tenant \in Tenants
      BY <2>1, HolderBoot DEF LeasesCurrent, Leased
    <3>2. tenant[boot[p].tenant] \in TenantRecords
      BY <3>1 DEF IsCurrent, TypeInv, AuthorityTypeOK, RecordsTypeOK
    <3> QED
      BY <3>2 DEF TenantRecords
  <2>3. (n + a) * RateHi + drains[f].elapsed * RateLo <= MaxLease * RateHi
    BY <1>4, <2>1, <2>2 DEF LeasesWitnessed
  <2> HIDE DEF f
  <2>4. /\ drains[f] # None /\ drains[f].elapsed \in Int /\ drains'[f].elapsed \in Int
        /\ drains'[f].elapsed = AtMost(drains[f].elapsed + b, Horizon)
    BY <1>3, <1>4, <2>2 DEF Witness, f
  <2>5. drains'[f].elapsed <= drains[f].elapsed + b
    BY <1>3, <2>4, DrainNatural DEF AtMost
  <2>6. n \in Nat /\ n + a \in Nat
    BY <2>1
  <2>7. n * RateHi + drains'[f].elapsed * RateLo <= MaxLease * RateHi
    BY <2>3, <2>4, <2>5, <2>6, CoveredAfterTick
  <2> QED
    BY <2>7 DEF f
<1> QED
  BY <1>6, <1>7, <1>8, <1>9

\* The strengthened invariant holds initially ...
LEMMA ServingInvInit == Init => ServingInv
<1> SUFFICES ASSUME Init PROVE ServingInv
  OBVIOUS
<1>1. \A p \in Processes, n \in 1 .. MaxLease : ~Leased(p, n)
  BY DEF Init, Leased, Holds, Live, Grant
<1>2. StopsRetained
  BY DEF Init, AuthorityInit, StopsRetained, Fenced
<1> QED
  BY <1>1, <1>2, ServingTypeInit
     DEF ServingInv, LeasesCurrent, LeasesWitnessed, DrainedUnleased

\* ... and every step keeps it.
LEMMA ServingInvNext == ServingInv /\ [Next]_vars => ServingInv'
<1> SUFFICES ASSUME ServingInv, [Next]_vars PROVE ServingInv'
  OBVIOUS
<1>1. ServingTypeInv'
  BY ServingTypeNext DEF ServingInv
<1>2. CASE AuthorityStep /\ UNCHANGED <<clients, observed_stops>>
  <2>1. ASSUME NEW d \in proposals, NEW e \in 1 .. MaxTerm, Apply(d, e) PROVE ServingInv'
    BY <1>1, <1>2, <2>1, RetainedApply, LeasesApply DEF ServingInv
  <2> QED
    BY <1>1, <1>2, <2>1, ServingLeader DEF ServingInv
<1>3. CASE UNCHANGED vars
  <2>1. UNCHANGED <<tenant, receipts, target_stops, proposals, drains, boot>> /\ UNCHANGED clients
    BY <1>3 DEF vars, authorityVars, records, log, leader, clients
  <2> QED
    BY <1>1, <2>1, LeasedUnchanged
       DEF ServingInv, StopsRetained, LeasesCurrent, LeasesWitnessed, DrainedUnleased, Fenced,
           IsCurrent
<1> QED
  BY <1>1, <1>2, <1>3, ServingStop, ServingProcess, ServingTick
     DEF Next, VerifyTargetStop, AwaitStopDrain, ServingInv

\* A process that passes check_serving is leased.
LEMMA ServersLeased ==
    ASSUME ServingInv, NEW p \in Processes, check_serving(p)
    PROVE  /\ gate[p].left \in 1 .. MaxLease /\ Leased(p, gate[p].left)
           /\ IsCurrent(boot[p].tenant, boot[p].incarnation, boot[p].epoch)
           /\ boot[p] \in Boots /\ boot[p].tenant \in Tenants
<1>1. gate[p].left \in 1 .. MaxLease
  BY ClientFacts DEF ServingInv, ServingTypeInv, check_serving, Live, Gates
<1>2. Leased(p, gate[p].left)
  BY DEF Leased, Holds, check_serving
<1>3. boot[p] \in Boots /\ boot[p].tenant \in Tenants
  BY <1>2, HolderBoot DEF Leased, ServingInv, ServingTypeInv
<1> QED
  BY <1>1, <1>2, <1>3 DEF ServingInv, LeasesCurrent

\* No two processes ever pass check_serving for different incarnations of one
\* tenant: for every lease length, rate error, quota, number of processes and
\* history of commands, leader changes, restarts and clock regressions.
THEOREM ServingIsExclusive == Spec => []NoSplitServing
<1>1. ServingInv => NoSplitServing
  BY ServersLeased DEF NoSplitServing, IsCurrent
<1> QED
  BY <1>1, ServingInvInit, ServingInvNext, PTL DEF Spec

----------------------------------------------------------------------------
(* A gate stays closed *)

\* A gate that was closed or has expired admits nothing until its process
\* restarts: renewals and promotions need a live gate when they arrive.
THEOREM ClosedStaysClosed == Spec => GateNeverRevived
<1> DEFINE Revives(p) == gate[p] # None /\ gate[p].left = 0 /\ gate'[p] # None
<1>1. ASSUME ServingTypeInv, [Next]_vars, NEW p \in Processes, Revives(p)
      PROVE  gate'[p].left = 0
  <2> USE <1>1 DEF ServingTypeInv
  <2>1. gate[p] # None /\ gate[p].left = 0 /\ gate'[p] # None /\ gate[p] \in Gates
    BY ClientFacts
  <2>2. CASE gate'[p] = gate[p]
    BY <2>1, <2>2
  <2>3. CASE Tick
    <3>1. PICK a \in Advance : gate'[p] = [gate[p] EXCEPT !.left = AtLeast(@ - a, 0)]
      BY <2>1, <2>3, TickIs
    <3>2. gate'[p].left = AtLeast(gate[p].left - a, 0) /\ a \in Nat
      BY <2>1, <3>1, RatePositive DEF Gates, Advance
    <3> QED
      BY <2>1, <3>2 DEF AtLeast
  <2>4. ASSUME NEW q \in Processes, ProcessStep(q) PROVE gate'[p].left = 0
    <3>1. CASE gate' = gate
      BY <2>1, <3>1
    <3>2. CASE OpenGate(q) \/ RenewGate(q) \/ PromotePrepared(q)
      <4>1. p # q
        BY <2>1, <3>2 DEF OpenGate, RenewGate, PromotePrepared, Live
      <4>2. gate'[p] = gate[p]
        BY <3>2, <4>1 DEF OpenGate, RenewGate, PromotePrepared, Install, ClientTypeOK
      <4> QED
        BY <2>1, <4>2
    <3>3. CASE CloseGate(q) \/ Restart(q)
      <4>1. p # q
        BY <2>1, <3>3 DEF CloseGate, Restart, Live, ClientTypeOK
      <4>2. gate'[p] = gate[p]
        BY <3>3, <4>1 DEF CloseGate, Restart, ClientTypeOK
      <4> QED
        BY <2>1, <4>2
    <3> QED
      BY <2>4, <3>1, <3>2, <3>3
         DEF ProcessStep, IssueLease, ReleaseLease, Boot, BeginAcquisition, RetryAttempt,
             DropAttempt
  <2> QED
    BY <1>1, <2>1, <2>2, <2>3, <2>4
       DEF Next, vars, clients, VerifyTargetStop, AwaitStopDrain, WitnessStop
<1>2. ServingTypeInv /\ [Next]_vars =>
        [\A p \in Processes :
            gate[p] # None /\ gate[p].left = 0 /\ gate'[p] # None => gate'[p].left = 0]_vars
  BY <1>1
<1> QED
  BY <1>2, ServingTypeInit, ServingTypeNext, PTL DEF Spec, GateNeverRevived

----------------------------------------------------------------------------
(* Whoever serves does so as activated.                                    *)
(*                                                                         *)
(* A lease is bound to what the authority viewed when it signed.  What a   *)
(* tenant's activation and nodes are only changes with its epoch, which    *)
(* grows, so a lease of an epoch that has passed never comes back into     *)
(* force: that is what the invariant needs to say about answers in flight. *)

BoundAs(b, material) ==
    LET r == tenant[b.tenant]
    IN  /\ r # None /\ b.epoch <= r.authority_epoch
        /\ b.epoch = r.authority_epoch =>
              material.activation = r.activation /\ b.node \in r.nodes

\* A viewed or granted serving lease, or a gate opened with one, carries this
\* material.
Carries(p, m) ==
    \/ /\ attempt[p] # None /\ attempt[p].phase # "Sent"
       /\ attempt[p].purpose = "Serving" /\ m = attempt[p].material
    \/ gate[p] # None /\ gate[p].purpose = "Serving" /\ m = gate[p].material

LeasesBound ==
    \A p \in Processes : \A m \in Materials : Carries(p, m) => BoundAs(boot[p], m)

\* A process that carries a lease has a boot, with its tenant and epoch.
LEMMA CarrierBoot ==
    ASSUME ClientTypeOK, NEW p \in Processes, NEW m, Carries(p, m)
    PROVE  boot[p] \in Boots /\ boot[p].tenant \in Tenants /\ boot[p].epoch \in Nat
<1>1. boot[p] # None
  BY DEF ClientTypeOK, Carries
<1> QED
  BY <1>1, ClientFacts DEF Boots

\* A process's step carries over what it carried, except that the authority
\* views a lease for the current incarnation.
LEMMA ProcessCarries ==
    ASSUME ClientTypeOK, NEW q \in Processes, ProcessStep(q),
           NEW p \in Processes, NEW m \in Materials, Carries(p, m)'
    PROVE  /\ boot'[p] = boot[p]
           /\ \/ Carries(p, m)
              \/ lease_view(boot[p], "Serving") /\ m = Material(boot[p], "Serving")
<1>1. CASE boot'[p] = boot[p] /\ gate'[p] = gate[p] /\ attempt'[p] = attempt[p]
  BY <1>1 DEF Carries
<1>2. CASE IssueLease(q)
  <2>1. boot' = boot /\ gate' = gate /\ (p # q => attempt'[p] = attempt[p])
    BY <1>2 DEF IssueLease, ClientTypeOK
  <2>2. CASE p = q
    <3>1. /\ attempt'[p].purpose = attempt[p].purpose
          /\ attempt'[p].material = Material(boot[p], attempt[p].purpose)
      BY <1>2, <2>2, ClientFacts DEF IssueLease, ClientTypeOK, Attempts
    <3>2. lease_view(boot[p], attempt[p].purpose)
      BY <1>2, <2>2 DEF IssueLease
    <3> QED
      BY <2>1, <3>1, <3>2 DEF Carries
  <2> QED
    BY <1>1, <2>1, <2>2
<1>3. CASE ReleaseLease(q)
  <2>1. /\ boot' = boot /\ gate' = gate
        /\ attempt' = [attempt EXCEPT ![q] = [attempt[q] EXCEPT !.phase = "Granted"]]
    BY <1>3, ClientRelease DEF ReleaseLease
  <2>2. CASE p = q
    <3>1. attempt[p] # None /\ attempt[p] \in Attempts /\ attempt[p].phase = "Viewed"
      BY <1>3, <2>2, ClientFacts DEF ReleaseLease
    <3>2. attempt'[p] = [attempt[p] EXCEPT !.phase = "Granted"]
      BY <2>1, <2>2 DEF ClientTypeOK
    <3>3. attempt'[p].purpose = attempt[p].purpose /\ attempt'[p].material = attempt[p].material
      BY <3>1, <3>2 DEF Attempts
    <3> QED
      BY <2>1, <3>1, <3>3 DEF Carries
  <2> QED
    BY <1>1, <2>1, <2>2 DEF ClientTypeOK
<1>4. ASSUME NEW t, NEW i, NEW k, NEW w \in Purposes, Boot(q, t, i, k, w)
      PROVE  boot'[p] = boot[p] /\ Carries(p, m)
  <2>1. CASE p # q
    <3>1. boot'[p] = boot[p] /\ gate'[p] = gate[p] /\ attempt'[p] = attempt[p]
      BY <1>4, <2>1 DEF Boot, ClientTypeOK
    <3> QED
      BY <3>1 DEF Carries
  <2>2. CASE p = q
    <3>1. gate'[p] = None /\ attempt'[p] = NewAttempt(w)
      BY <1>4, <2>2 DEF Boot, ClientTypeOK
    <3> QED
      BY <3>1, NewAttemptIs DEF Carries
  <2> QED
    BY <2>1, <2>2
<1>5. ASSUME NEW w \in Purposes, BeginAcquisition(q, w)
      PROVE  boot'[p] = boot[p] /\ Carries(p, m)
  <2>1. /\ boot' = boot /\ gate' = gate /\ (p # q => attempt'[p] = attempt[p])
        /\ p = q => attempt'[p] = NewAttempt(w)
    BY <1>5 DEF BeginAcquisition, ClientTypeOK
  <2> QED
    BY <2>1, NewAttemptIs DEF Carries
<1>6. CASE RetryAttempt(q)
  <2>1. boot' = boot /\ gate' = gate /\ (p # q => attempt'[p] = attempt[p])
    BY <1>6 DEF RetryAttempt, ClientTypeOK
  <2>2. p = q => attempt'[p].phase = "Sent"
    BY <1>6 DEF RetryAttempt, ClientTypeOK, NewAttempt
  <2> QED
    BY <2>1, <2>2 DEF Carries
<1>7. CASE DropAttempt(q)
  <2>1. /\ gate' = gate /\ (p # q => attempt'[p] = attempt[p] /\ boot'[p] = boot[p])
        /\ p = q => attempt'[p] = None /\ (gate[p] # None => boot'[p] = boot[p])
    BY <1>7 DEF DropAttempt, ClientTypeOK
  <2> QED
    BY <2>1 DEF Carries
<1>8. CASE Verified(q) /\ Install(q)
  <2>1. boot' = boot /\ (p # q => attempt'[p] = attempt[p] /\ gate'[p] = gate[p])
    BY <1>8 DEF Install, ClientTypeOK
  <2>2. CASE p = q
    <3>1. /\ attempt'[p] = None
          /\ gate'[p] = [purpose |-> attempt[p].purpose, left |-> Remaining(attempt[p]),
                         material |-> attempt[p].material]
      BY <1>8, <2>2 DEF Install, ClientTypeOK
    <3>2. attempt[p].purpose = "Serving" /\ m = attempt[p].material
      BY <3>1 DEF Carries
    <3> QED
      BY <1>8, <2>1, <2>2, <3>2 DEF Verified, Carries
  <2> QED
    BY <1>1, <2>1, <2>2
<1>9. CASE CloseGate(q)
  <2>1. boot' = boot /\ attempt' = attempt /\ (p # q => gate'[p] = gate[p])
    BY <1>9 DEF CloseGate, ClientTypeOK
  <2>2. p = q => /\ gate[p] # None /\ gate'[p].purpose = gate[p].purpose
                 /\ gate'[p].material = gate[p].material
    BY <1>9, ClientFacts DEF CloseGate, ClientTypeOK, Live, Gates
  <2> QED
    BY <2>1, <2>2 DEF Carries
<1>10. CASE Restart(q)
  <2>1. /\ p # q => attempt'[p] = attempt[p] /\ gate'[p] = gate[p] /\ boot'[p] = boot[p]
        /\ p = q => attempt'[p] = None /\ gate'[p] = None
    BY <1>10 DEF Restart, ClientTypeOK
  <2> QED
    BY <2>1 DEF Carries
<1> QED
  BY <1>2, <1>3, <1>4, <1>5, <1>6, <1>7, <1>8, <1>9, <1>10
     DEF ProcessStep, OpenGate, RenewGate, PromotePrepared

\* Time changes nothing a process carries.
LEMMA TickCarries ==
    ASSUME ClientTypeOK, Tick, NEW p \in Processes, NEW m, Carries(p, m)'
    PROVE  Carries(p, m)
<1>1. PICK a \in Advance :
         /\ attempt'[p] = (IF attempt[p] = None THEN None
                           ELSE [attempt[p] EXCEPT !.spent = AtMost(@ + a, MaxLease)])
         /\ gate'[p] = (IF gate[p] = None THEN None
                        ELSE [gate[p] EXCEPT !.left = AtLeast(@ - a, 0)])
  BY TickIs
<1>2. attempt'[p] # None =>
        /\ attempt[p] # None /\ attempt'[p].phase = attempt[p].phase
        /\ attempt'[p].purpose = attempt[p].purpose /\ attempt'[p].material = attempt[p].material
  BY <1>1, ClientFacts DEF Attempts
<1>3. gate'[p] # None =>
        /\ gate[p] # None
        /\ gate'[p].purpose = gate[p].purpose /\ gate'[p].material = gate[p].material
  BY <1>1, ClientFacts DEF Gates
<1> QED
  BY <1>2, <1>3 DEF Carries

\* What a lease was bound to is still so after any applied entry: a fence leaves
\* the activation alone, and a replacement has a new epoch.
LEMMA BoundApply ==
    ASSUME TypeInv, NEW d \in proposals, NEW e, Apply(d, e),
           NEW b, NEW m, b.tenant \in Tenants, b.epoch \in Nat, BoundAs(b, m)
    PROVE  BoundAs(b, m)'
<1> DEFINE t == b.tenant
<1>1. tenant[t] \in TenantRecords /\ tenant[t] # None
  BY DEF BoundAs, TypeInv, AuthorityTypeOK, RecordsTypeOK
<1>2. d.command.id \in Ids
  BY ProposalFacts, CommandFacts DEF TypeInv, AuthorityTypeOK
<1>3. CASE tenant'[t] = tenant[t]
  BY <1>3 DEF BoundAs
<1>4. CASE tenant'[t] = [tenant[t] EXCEPT !.fence = d.command.id]
  <2>1. tenant'[t] # None
    <3>1. tenant'[t] \in TenantRecords
      BY <1>1, <1>2, <1>4 DEF TenantRecords
    <3> QED
      BY <3>1, RecordAssumption
  <2>2. /\ tenant'[t].authority_epoch = tenant[t].authority_epoch
        /\ tenant'[t].activation = tenant[t].activation /\ tenant'[t].nodes = tenant[t].nodes
    BY <1>1, <1>4 DEF TenantRecords
  <2> QED
    BY <2>1, <2>2 DEF BoundAs
<1>5. CASE tenant'[t] # None /\ tenant'[t].authority_epoch = tenant[t].authority_epoch + 1
  <2>1. tenant[t].authority_epoch \in Nat /\ b.epoch <= tenant[t].authority_epoch
    BY <1>1 DEF TenantRecords, BoundAs
  <2> QED
    BY <1>5, <2>1 DEF BoundAs
<1> QED
  BY <1>1, <1>3, <1>4, <1>5, TenantSteps

\* The strengthened invariant holds initially ...
LEMMA BoundInit == Init => LeasesBound
BY DEF Init, LeasesBound, Carries

\* ... and every step keeps it.
LEMMA BoundNext == ServingTypeInv /\ LeasesBound /\ [Next]_vars => LeasesBound'
<1> SUFFICES ASSUME ServingTypeInv, LeasesBound, [Next]_vars,
                    NEW p \in Processes, NEW m \in Materials, Carries(p, m)'
             PROVE  BoundAs(boot[p], m)'
  BY DEF LeasesBound
<1> USE DEF ServingTypeInv
<1>1. ASSUME UNCHANGED clients
      PROVE  /\ boot' = boot /\ BoundAs(boot[p], m)
             /\ boot[p].tenant \in Tenants /\ boot[p].epoch \in Nat
  <2>1. boot' = boot /\ Carries(p, m)
    BY <1>1 DEF clients, Carries
  <2> QED
    BY <2>1, CarrierBoot DEF LeasesBound
<1>2. ASSUME UNCHANGED <<tenant, clients>> PROVE BoundAs(boot[p], m)'
  BY <1>1, <1>2 DEF BoundAs
<1>3. CASE AuthorityStep /\ UNCHANGED <<clients, observed_stops>>
  <2>1. ASSUME NEW d \in proposals, NEW e \in 1 .. MaxTerm, Apply(d, e)
        PROVE  BoundAs(boot[p], m)'
    BY <1>1, <1>3, <2>1, BoundApply
  <2>2. CASE ~ \E d \in proposals, e \in 1 .. MaxTerm : Apply(d, e)
    BY <1>2, <1>3, <2>2, OnlyApplyWrites DEF AuthorityNext, records
  <2> QED
    BY <2>1, <2>2
<1>4. ASSUME NEW k \in Ids, NEW a \in Principals, WitnessStop(k, a) PROVE BoundAs(boot[p], m)'
  BY <1>2, <1>4 DEF WitnessStop, records
<1>5. ASSUME NEW q \in Processes, ProcessStep(q) PROVE BoundAs(boot[p], m)'
  <2>1. tenant' = tenant
    BY <1>5 DEF ProcessStep, IssueLease, ReleaseLease, Boot, BeginAcquisition, RetryAttempt,
                DropAttempt, OpenGate, RenewGate, PromotePrepared, Install, CloseGate, Restart,
                authorityVars, records
  <2>2. /\ boot'[p] = boot[p]
        /\ \/ Carries(p, m)
           \/ lease_view(boot[p], "Serving") /\ m = Material(boot[p], "Serving")
    BY <1>5, ProcessCarries
  <2>3. CASE Carries(p, m)
    BY <2>1, <2>2, <2>3 DEF LeasesBound, BoundAs
  <2>4. CASE lease_view(boot[p], "Serving") /\ m = Material(boot[p], "Serving")
    <3>1. LET r == tenant[boot[p].tenant]
          IN  /\ r # None /\ boot[p].epoch = r.authority_epoch /\ boot[p].node \in r.nodes
              /\ m.activation = r.activation
      BY <2>4 DEF lease_view, discover, discovered_epoch, Material
    <3>2. boot[p].epoch \in Nat
      <4>1. boot'[p] \in Boots
        BY <1>5, ClientProcess, CarrierBoot DEF TypeInv, Carries, ClientTypeOK
      <4> QED
        BY <2>2, <4>1 DEF Boots
    <3> QED
      BY <2>1, <2>2, <3>1, <3>2 DEF BoundAs
  <2> QED
    BY <2>2, <2>3, <2>4
<1>6. CASE Tick
  <2>1. tenant' = tenant /\ boot' = boot
    BY <1>6 DEF Tick, records
  <2> QED
    BY <1>6, <2>1, TickCarries DEF LeasesBound, BoundAs
<1>7. CASE UNCHANGED vars
  BY <1>2, <1>7 DEF vars, authorityVars, records
<1> QED
  BY <1>3, <1>4, <1>5, <1>6, <1>7 DEF Next, VerifyTargetStop, AwaitStopDrain

\* A replica that serves the current incarnation does so at its epoch, under the
\* receipt that activated it and on a node that receipt names, however its lease
\* was acquired, renewed or promoted and whatever happened while it was in flight.
THEOREM ServiceIsAsActivated == Spec => []ServedAsActivated
<1>1. ServingInv /\ LeasesBound => ServedAsActivated
  <2> SUFFICES ASSUME ServingInv, LeasesBound, NEW p \in Processes, check_serving(p)
               PROVE  /\ boot[p].epoch = tenant[boot[p].tenant].authority_epoch
                      /\ gate[p].material.activation = tenant[boot[p].tenant].activation
                      /\ boot[p].node \in tenant[boot[p].tenant].nodes
    BY DEF ServedAsActivated
  <2>1. boot[p].epoch = tenant[boot[p].tenant].authority_epoch
    BY ServersLeased DEF IsCurrent
  <2>2. gate[p].material \in Materials /\ Carries(p, gate[p].material)
    BY ClientFacts DEF ServingInv, ServingTypeInv, check_serving, Live, Gates, Carries
  <2> QED
    BY <2>1, <2>2 DEF LeasesBound, BoundAs
<1>2. Init => ServingInv /\ LeasesBound
  BY ServingInvInit, BoundInit
<1>3. ServingInv /\ LeasesBound /\ [Next]_vars => (ServingInv /\ LeasesBound)'
  BY ServingInvNext, BoundNext DEF ServingInv
<1> QED
  BY <1>1, <1>2, <1>3, PTL DEF Spec

----------------------------------------------------------------------------
(* An observed stop is final.                                              *)
(*                                                                         *)
(* The drain argument again, for a stopped target, its own witness and     *)
(* leases of both purposes: no lease is released for a stopped target, so  *)
(* those that were released before are covered by the witness of the stop, *)
(* and are gone when it is complete.                                       *)

\* A gate or a grant is covered by the witness of a stop of its incarnation.
StopsWitnessed ==
    \A p \in Processes, u \in Purposes : \A n \in 1 .. MaxLease : Holds(p, u, n) =>
        LET s == target_stops[boot[p].tenant][boot[p].incarnation]
        IN  s # None /\ drains[s.command.id] # None =>
                n * RateHi + drains[s.command.id].elapsed * RateLo <= MaxLease * RateHi

\* Only a stop is observed, and nothing is held of its target from then on.
ObservedUnheld ==
    /\ \A t \in Tenants, i \in Incarnations :
          <<t, i>> \in observed_stops => target_stops[t][i] # None
    /\ \A p \in Processes, u \in Purposes : \A n \in 1 .. MaxLease : Holds(p, u, n) =>
          <<boot[p].tenant, boot[p].incarnation>> \notin observed_stops

StopInv == ServingInv /\ StopsWitnessed /\ ObservedUnheld

\* The identity of a recorded stop.
LEMMA StopIdentity ==
    ASSUME TypeInv, NEW t \in Tenants, NEW i \in Incarnations, target_stops[t][i] # None
    PROVE  target_stops[t][i].command.id \in Ids
<1>1. target_stops[t][i] \in ReceiptsOf(PlainOutcomes)
  BY DEF TypeInv, AuthorityTypeOK, RecordsTypeOK
<1>2. target_stops[t][i].command \in Commands
  BY <1>1 DEF ReceiptsOf
<1> QED
  BY <1>2, CommandFacts

\* An applied entry records a stop before any witness of it exists.
LEMMA StopApply ==
    ASSUME StopInv, NEW d \in proposals, NEW e, Apply(d, e), UNCHANGED <<clients, observed_stops>>
    PROVE  StopsWitnessed' /\ ObservedUnheld'
<1> USE DEF StopInv, ServingInv, ServingTypeInv
<1>1. drains' = drains /\ boot' = boot
  BY ApplyLeaves DEF clients
<1>2. ASSUME NEW t \in Tenants, NEW i \in Incarnations
      PROVE  \/ target_stops'[t][i] = target_stops[t][i]
             \/ target_stops'[t][i] # None /\ drains[target_stops'[t][i].command.id] = None
  <2>1. d.command.id \in Ids
    BY ProposalFacts, CommandFacts DEF TypeInv, AuthorityTypeOK
  <2>2. receipts[d.command.id] = None => drains[d.command.id] = None
    BY <2>1 DEF StopsRetained
  <2> QED
    BY <2>2, StopSteps
<1>3. ASSUME NEW p \in Processes, NEW u \in Purposes, NEW n \in 1 .. MaxLease, Holds(p, u, n)'
      PROVE  Holds(p, u, n) /\ boot[p].tenant \in Tenants /\ boot[p].incarnation \in Incarnations
  BY <1>3, LeasedUnchanged, HolderBoot
<1>4. StopsWitnessed'
  BY <1>1, <1>2, <1>3 DEF StopsWitnessed
<1>5. ObservedUnheld'
  BY <1>1, <1>2, <1>3 DEF ObservedUnheld
<1> QED
  BY <1>4, <1>5

\* Witnesses that hold still cover what is held of a stopped target.
LEMMA StopHolds ==
    ASSUME StopInv, WitnessesHold, UNCHANGED <<target_stops, clients>>
    PROVE  StopsWitnessed'
<1> USE DEF StopInv, ServingInv, ServingTypeInv
<1>1. boot' = boot
  BY DEF clients
<1> SUFFICES ASSUME NEW p \in Processes, NEW u \in Purposes, NEW n \in 1 .. MaxLease,
                    Holds(p, u, n), target_stops[boot[p].tenant][boot[p].incarnation] # None,
                    drains'[target_stops[boot[p].tenant][boot[p].incarnation].command.id] # None
             PROVE  n * RateHi
                    + drains'[target_stops[boot[p].tenant][boot[p].incarnation].command.id].elapsed
                      * RateLo <= MaxLease * RateHi
  BY <1>1, LeasedUnchanged DEF StopsWitnessed
<1> DEFINE k == target_stops[boot[p].tenant][boot[p].incarnation].command.id
<1>2. k \in Ids
  BY HolderBoot, StopIdentity
<1>3. drains[k] # None => n * RateHi + drains[k].elapsed * RateLo <= MaxLease * RateHi
  BY DEF StopsWitnessed
<1>4. drains'[k] # None
  OBVIOUS
<1> HIDE DEF k
<1>5. n * RateHi + drains'[k].elapsed * RateLo <= MaxLease * RateHi
  BY <1>2, <1>3, <1>4, CoverKept DEF TypeInv
<1> QED
  BY <1>5 DEF k

\* The leader's other steps leave stops and observations alone.
LEMMA StopLeader ==
    ASSUME StopInv, AuthorityStep, UNCHANGED <<clients, observed_stops>>,
           ~ \E d \in proposals, e \in 1 .. MaxTerm : Apply(d, e)
    PROVE  StopsWitnessed' /\ ObservedUnheld'
<1>1. target_stops' = target_stops /\ boot' = boot
  BY OnlyApplyWrites DEF AuthorityNext, records, clients
<1>2. StopsWitnessed'
  BY <1>1, LeaderHolds, StopHolds DEF StopInv
<1>3. ObservedUnheld'
  BY <1>1, LeasedUnchanged DEF StopInv, ObservedUnheld
<1> QED
  BY <1>2, <1>3

\* A stop is observed only when its witness is complete, and then nothing that
\* the witness covers is left.
LEMMA StopObserved ==
    ASSUME StopInv, NEW k \in Ids, NEW a, VerifyTargetStop(k, a) \/ AwaitStopDrain(k, a)
    PROVE  StopsWitnessed' /\ ObservedUnheld'
<1> USE DEF StopInv, ServingInv, ServingTypeInv
<1>1. WitnessStop(k, a)
  BY DEF VerifyTargetStop, AwaitStopDrain
<1>2. UNCHANGED <<target_stops, clients>> /\ boot' = boot
  BY <1>1 DEF WitnessStop, records, clients
<1> DEFINE t == receipts[k].command.tenant
           i == receipts[k].outcome.target.incarnation
           s == target_stops[t][i].command.id
<1>3. /\ t \in Tenants /\ i \in Incarnations /\ target_stops[t][i] # None /\ s \in Ids
      /\ drains' \in RequireDrainWitness(drains, s, term)
  BY <1>1, WitnessStopIs DEF TypeInv
<1>4. WitnessesHold
  <2>1. receipts[s] # None
    BY <1>3 DEF StopsRetained
  <2> HIDE DEF s
  <2> QED
    BY <1>3, <2>1, RequireHolds
<1>5. StopsWitnessed'
  BY <1>2, <1>4, StopHolds
<1>6. CASE observed_stops' = observed_stops
  BY <1>2, <1>5, <1>6, LeasedUnchanged DEF ObservedUnheld
<1>7. CASE Complete(drains', s) /\ observed_stops' = observed_stops \cup {<<t, i>>}
  <2>1. ASSUME NEW p \in Processes, NEW u \in Purposes, NEW n \in 1 .. MaxLease, Holds(p, u, n),
               boot[p].tenant = t, boot[p].incarnation = i
        PROVE  FALSE
    <3>1. drains'[s] # None /\ drains'[s].elapsed >= drain_ms
      BY <1>7 DEF Complete
    <3>2. drains'[s].elapsed \in Int
      BY <1>3, <1>4, <3>1 DEF WitnessesHold
    <3>3. n * RateHi + drains'[s].elapsed * RateLo <= MaxLease * RateHi
      BY <1>2, <1>3, <1>5, <2>1, <3>1, LeasedUnchanged DEF StopsWitnessed
    <3> HIDE DEF s
    <3> QED
      BY <3>1, <3>2, <3>3, CompleteCoversNothing
  <2>2. \A x \in Tenants, j \in Incarnations :
           <<x, j>> \in observed_stops' => target_stops'[x][j] # None
    BY <1>2, <1>3, <1>7 DEF ObservedUnheld
  <2> HIDE DEF t, i
  <2>3. ASSUME NEW p \in Processes, NEW u \in Purposes, NEW n \in 1 .. MaxLease, Holds(p, u, n)'
        PROVE  <<boot'[p].tenant, boot'[p].incarnation>> \notin observed_stops'
    <3>1. Holds(p, u, n)
      BY <1>2, <2>3, LeasedUnchanged
    <3> QED
      BY <1>2, <1>7, <2>1, <3>1 DEF ObservedUnheld
  <2> QED
    BY <1>5, <2>2, <2>3 DEF ObservedUnheld
<1> QED
  BY <1>5, <1>6, <1>7 DEF VerifyTargetStop, AwaitStopDrain

\* The authority releases nothing for a stopped target.
LEMMA StopProcess ==
    ASSUME StopInv, NEW q \in Processes, ProcessStep(q)
    PROVE  StopsWitnessed' /\ ObservedUnheld'
<1> USE DEF StopInv, ServingInv, ServingTypeInv
<1>1. UNCHANGED <<authorityVars, observed_stops>>
  BY DEF ProcessStep, IssueLease, ReleaseLease, Boot, BeginAcquisition, RetryAttempt,
         DropAttempt, OpenGate, RenewGate, PromotePrepared, Install, CloseGate, Restart
<1>2. UNCHANGED <<target_stops, drains, observed_stops>>
  BY <1>1 DEF authorityVars, records, leader
<1>3. ASSUME NEW p \in Processes, NEW u \in Purposes, NEW n \in 1 .. MaxLease, Holds(p, u, n)'
      PROVE  /\ boot'[p] = boot[p]
             /\ boot[p].tenant \in Tenants /\ boot[p].incarnation \in Incarnations
             /\ \/ Holds(p, u, n)
                \/ target_stops[boot[p].tenant][boot[p].incarnation] = None
  <2>1. boot'[p] = boot[p] /\ (Holds(p, u, n) \/ lease_view(boot[p], u))
    BY <1>3, ProcessHolds
  <2>2. boot'[p] # None
    BY <1>3, ClientProcess DEF TypeInv, ClientTypeOK, Holds, Live, Grant
  <2>3. boot[p].tenant \in Tenants /\ boot[p].incarnation \in Incarnations
    BY <2>1, <2>2, ClientFacts DEF Boots
  <2> QED
    BY <2>1, <2>3 DEF lease_view, discover
<1>4. StopsWitnessed'
  BY <1>2, <1>3 DEF StopsWitnessed
<1>5. ObservedUnheld'
  BY <1>2, <1>3 DEF ObservedUnheld
<1> QED
  BY <1>4, <1>5

\* Time keeps what is held of a stopped target covered by the stop's witness.
LEMMA StopTick ==
    ASSUME StopInv, Tick PROVE StopsWitnessed' /\ ObservedUnheld'
<1> USE DEF StopInv, ServingInv, ServingTypeInv
<1>1. UNCHANGED <<target_stops, boot, observed_stops>>
  BY DEF Tick, records
<1>2. PICK b \in Advance : drains' = Aged(drains, b)
  BY DEF Tick
<1>3. b \in Int /\ drains \in [Ids -> Witness \cup {None}]
  BY RatePositive DEF Advance, TypeInv, AuthorityTypeOK, LeaderTypeOK
<1>4. /\ drains' \in [Ids -> Witness \cup {None}]
      /\ \A k \in Ids : drains'[k] # None <=> drains[k] # None
      /\ \A k \in Ids : drains[k] # None =>
            drains'[k].elapsed = AtMost(drains[k].elapsed + b, Horizon)
  BY <1>2, <1>3, AgedIs
<1>5. ASSUME NEW p \in Processes, NEW u \in Purposes, NEW n \in 1 .. MaxLease, Holds(p, u, n)'
      PROVE  \E a \in Advance : n + a \in 1 .. MaxLease /\ Holds(p, u, n + a)
  BY <1>5, TickHolds
<1>6. ObservedUnheld'
  BY <1>1, <1>5 DEF ObservedUnheld
<1>7. StopsWitnessed'
  <2> SUFFICES ASSUME NEW p \in Processes, NEW u \in Purposes, NEW n \in 1 .. MaxLease,
                      Holds(p, u, n)', target_stops[boot[p].tenant][boot[p].incarnation] # None,
                      drains'[target_stops[boot[p].tenant][boot[p].incarnation].command.id] # None
               PROVE  n * RateHi
                      + drains'[target_stops[boot[p].tenant][boot[p].incarnation].command.id].elapsed
                        * RateLo <= MaxLease * RateHi
    BY <1>1 DEF StopsWitnessed
  <2> DEFINE k == target_stops[boot[p].tenant][boot[p].incarnation].command.id
  <2>1. PICK a \in Advance : n + a \in 1 .. MaxLease /\ Holds(p, u, n + a)
    BY <1>5
  <2>2. k \in Ids
    BY <2>1, HolderBoot, StopIdentity
  <2>3. drains[k] # None
    BY <1>4, <2>2
  <2>4. (n + a) * RateHi + drains[k].elapsed * RateLo <= MaxLease * RateHi
    BY <2>1, <2>3 DEF StopsWitnessed
  <2> HIDE DEF k
  <2>5. /\ drains[k].elapsed \in Int /\ drains'[k].elapsed \in Int
        /\ drains'[k].elapsed = AtMost(drains[k].elapsed + b, Horizon)
    BY <1>3, <1>4, <2>2, <2>3 DEF Witness
  <2>6. drains'[k].elapsed <= drains[k].elapsed + b
    BY <1>3, <2>5, DrainNatural DEF AtMost
  <2>7. n \in Nat /\ n + a \in Nat
    BY <2>1
  <2>8. n * RateHi + drains'[k].elapsed * RateLo <= MaxLease * RateHi
    BY <2>4, <2>5, <2>6, <2>7, CoveredAfterTick
  <2> QED
    BY <2>8 DEF k
<1> QED
  BY <1>6, <1>7

\* The invariant of stops holds initially ...
LEMMA StopInvInit == Init => StopInv
<1> SUFFICES ASSUME Init PROVE StopInv
  OBVIOUS
<1>1. \A p \in Processes, u \in Purposes : \A n \in 1 .. MaxLease : ~Holds(p, u, n)
  BY DEF Init, Holds, Live, Grant
<1> QED
  BY <1>1, ServingInvInit DEF Init, StopInv, StopsWitnessed, ObservedUnheld

\* ... and every step keeps it.
LEMMA StopInvNext == StopInv /\ [Next]_vars => StopInv'
<1> SUFFICES ASSUME StopInv, [Next]_vars PROVE StopsWitnessed' /\ ObservedUnheld'
  BY ServingInvNext DEF StopInv
<1>1. CASE AuthorityStep /\ UNCHANGED <<clients, observed_stops>>
  BY <1>1, StopApply, StopLeader
<1>2. CASE UNCHANGED vars
  <2>1. UNCHANGED <<target_stops, drains, boot, observed_stops>> /\ UNCHANGED clients
    BY <1>2 DEF vars, authorityVars, records, leader, clients
  <2> QED
    BY <2>1, LeasedUnchanged DEF StopInv, StopsWitnessed, ObservedUnheld
<1> QED
  BY <1>1, <1>2, StopObserved, StopProcess, StopTick DEF Next

\* Once a target stop is observed as drained, no process holds a live gate for
\* that incarnation, serving or preparing, ever again: for any number of
\* processes, rate errors, clock regressions, leaders and forgotten witnesses.
THEOREM ObservedStopsAreFinal == Spec => []ObservedStopIsFinal
<1>1. StopInv => ObservedStopIsFinal
  <2> SUFFICES ASSUME StopInv, NEW p \in Processes, Live(p)
               PROVE  <<boot[p].tenant, boot[p].incarnation>> \notin observed_stops
    BY DEF ObservedStopIsFinal
  <2>1. gate[p].purpose \in Purposes /\ gate[p].left \in 1 .. MaxLease
    BY ClientFacts DEF StopInv, ServingInv, ServingTypeInv, Live, Gates
  <2>2. Holds(p, gate[p].purpose, gate[p].left)
    BY DEF Holds
  <2> QED
    BY <2>1, <2>2 DEF StopInv, ObservedUnheld
<1> QED
  BY <1>1, StopInvInit, StopInvNext, PTL DEF Spec

----------------------------------------------------------------------------
(* The leases implement exclusive ownership.                               *)

OwnerOf(t) == IF tenant[t] = None THEN None ELSE tenant[t].incarnation
RetiredOf(t) == {i \in Incarnations : incarnations[t][i] # None /\ tenant[t].incarnation # i}

OwnerInv == ServingInv /\ EpochInv

OwnersOnly ==
    \A t \in Tenants :
        /\ ServingIncarnations(t) \subseteq Incarnations
        /\ \A i \in ServingIncarnations(t) : tenant[t] # None /\ i = OwnerOf(t)

\* Only the owner serves.
LEMMA OnlyOwnerServes == ServingInv => OwnersOnly
<1> SUFFICES ASSUME ServingInv, NEW p \in Processes, check_serving(p)
             PROVE  /\ boot[p].incarnation \in Incarnations
                    /\ tenant[boot[p].tenant] # None
                    /\ boot[p].incarnation = OwnerOf(boot[p].tenant)
  BY DEF OwnersOnly, ServingIncarnations
<1> QED
  BY ServersLeased DEF IsCurrent, OwnerOf, Boots

\* The ownership invariant holds initially ...
LEMMA OwnerInvInit == Init => OwnerInv
BY ServingInvInit, EpochsInit DEF OwnerInv, Init

\* ... and every step keeps it.
LEMMA OwnerInvNext == OwnerInv /\ [Next]_vars => OwnerInv'
<1> SUFFICES ASSUME OwnerInv, [Next]_vars PROVE EpochInv'
  BY ServingInvNext DEF OwnerInv
<1>1. CASE [AuthorityNext]_authorityVars
  BY <1>1, EpochsNext DEF OwnerInv, ServingInv, ServingTypeInv
<1>2. ASSUME NEW k \in Ids, NEW a \in Principals, WitnessStop(k, a) PROVE EpochInv'
  <2>1. UNCHANGED <<tenant, incarnations, preparations>>
    BY <1>2 DEF WitnessStop, records
  <2>2. EpochsNameIncarnations'
    BY <2>1 DEF OwnerInv, EpochInv, EpochsNameIncarnations
  <2>3. \A t \in Tenants : HeldBy(t)' = HeldBy(t)
    BY <2>1 DEF HeldBy
  <2>4. EpochsBounded'
    BY <2>1, <2>3 DEF OwnerInv, EpochInv, EpochsBounded
  <2> QED
    BY <2>2, <2>4 DEF EpochInv
<1>3. ASSUME NEW q \in Processes, ProcessStep(q) PROVE UNCHANGED authorityVars
  BY <1>3 DEF ProcessStep, IssueLease, ReleaseLease, Boot, BeginAcquisition, RetryAttempt,
         DropAttempt, OpenGate, RenewGate, PromotePrepared, Install, CloseGate, Restart
<1>4. Tick => IssuerTick
  BY DEF Tick, IssuerTick
<1> QED
  BY <1>1, <1>2, <1>3, <1>4 DEF Next, AuthorityNext, VerifyTargetStop, AwaitStopDrain, vars

\* A step that moves no tenant lets it begin or cease to be served.
LEMMA ServiceStep ==
    ASSUME OwnersOnly', UNCHANGED <<tenant, incarnations>>,
           NEW s \in Tenants,
           \A t \in Tenants : t # s => ServingIncarnations(t)' \subseteq ServingIncarnations(t),
           \A t \in Tenants : t # s => ServingIncarnations(t) \subseteq ServingIncarnations(t)'
    PROVE  [Owner!Next]_(Owner!vars)
<1>1. \A t \in Tenants :
         /\ ServingIncarnations(t)' \subseteq Incarnations
         /\ \A i \in ServingIncarnations(t)' : tenant[t] # None /\ i = OwnerOf(t)
  BY DEF OwnersOnly, OwnerOf
<1>2. CASE ServingIncarnations(s)' = {}
  <2>1. Owner!Cease
    BY <1>1, <1>2 DEF Owner!Cease
  <2> QED
    BY <2>1 DEF Owner!Next
<1>3. CASE ServingIncarnations(s)' # {}
  <2>1. ServingIncarnations(s)' = {OwnerOf(s)} /\ tenant[s] # None /\ OwnerOf(s) # None
    BY <1>1, <1>3, AuthorityAssumption
  <2>2. Owner!Serve(s)
    BY <2>1 DEF Owner!Serve, OwnerOf
  <2> QED
    BY <2>2 DEF Owner!Next
<1> QED
  BY <1>2, <1>3

\* A process's step begins or ends the service of its own tenant only.
LEMMA ProcessService ==
    ASSUME ClientTypeOK, NEW q \in Processes, ProcessStep(q), NEW t \in Tenants,
           boot[q] # None => boot[q].tenant # t
    PROVE  ServingIncarnations(t)' = ServingIncarnations(t)
<1>1. ASSUME NEW p \in Processes, p # q
      PROVE  boot'[p] = boot[p] /\ gate'[p] = gate[p]
  BY <1>1 DEF ProcessStep, IssueLease, ReleaseLease, Boot, BeginAcquisition, RetryAttempt,
         DropAttempt, OpenGate, RenewGate, PromotePrepared, Install, CloseGate, Restart,
         ClientTypeOK
<1>2. ~(check_serving(q) /\ boot[q].tenant = t)
  BY DEF check_serving, Live, ClientTypeOK
<1>3. ~(check_serving(q)' /\ boot'[q].tenant = t)
  <2>1. CASE boot[q] # None
    <3>1. boot'[q] = boot[q] \/ gate'[q] = None
      BY <2>1 DEF ProcessStep, IssueLease, ReleaseLease, Boot, BeginAcquisition, RetryAttempt,
         DropAttempt, OpenGate, RenewGate, PromotePrepared, Install, CloseGate, Restart,
         ClientTypeOK
    <3> QED
      BY <2>1, <3>1 DEF check_serving, Live
  <2>2. CASE boot[q] = None
    <3>1. gate[q] = None /\ attempt[q] = None
      BY <2>2 DEF ClientTypeOK
    <3>2. gate'[q] = None
      BY <2>2, <3>1 DEF ProcessStep, IssueLease, ReleaseLease, Boot, BeginAcquisition,
         RetryAttempt, DropAttempt, OpenGate, RenewGate, PromotePrepared, Verified, CloseGate,
         Restart, Live
    <3> QED
      BY <3>2 DEF check_serving, Live
  <2> QED
    BY <2>1, <2>2
<1>4. {p \in Processes : check_serving(p) /\ boot[p].tenant = t}' =
      {p \in Processes : check_serving(p) /\ boot[p].tenant = t}
  BY <1>1, <1>2, <1>3 DEF check_serving, Live
<1> QED
  BY <1>1, <1>2, <1>4 DEF ServingIncarnations

\* Every step of a process is a step of the owner specification.
LEMMA ProcessSimulates ==
    ASSUME ServingInv, OwnersOnly', NEW q \in Processes, ProcessStep(q)
    PROVE  [Owner!Next]_(Owner!vars)
<1> USE DEF ServingInv, ServingTypeInv
<1>1. UNCHANGED <<tenant, incarnations>>
  BY DEF ProcessStep, IssueLease, ReleaseLease, Boot, BeginAcquisition, RetryAttempt,
         DropAttempt, OpenGate, RenewGate, PromotePrepared, Install, CloseGate, Restart,
         authorityVars, records
<1>2. CASE boot[q] # None
  <2>1. boot[q].tenant \in Tenants
    BY <1>2, ClientFacts DEF Boots
  <2>2. \A t \in Tenants : t # boot[q].tenant =>
           ServingIncarnations(t)' = ServingIncarnations(t)
    BY ProcessService
  <2> QED
    BY <1>1, <2>1, <2>2, ServiceStep
<1>3. CASE boot[q] = None
  <2>1. \A t \in Tenants : ServingIncarnations(t)' = ServingIncarnations(t)
    BY <1>3, ProcessService
  <2> QED
    BY <1>1, <2>1 DEF Owner!vars
<1> QED
  BY <1>2, <1>3

\* Time only ends service.
LEMMA TickSimulates ==
    ASSUME ServingInv, OwnersOnly', Tick
    PROVE  [Owner!Next]_(Owner!vars)
<1> USE DEF ServingInv, ServingTypeInv
<1>1. UNCHANGED <<tenant, incarnations, boot>>
  BY DEF Tick, records
<1>2. ASSUME NEW p \in Processes, check_serving(p)' PROVE check_serving(p)
  <2>1. gate'[p] \in Gates /\ gate'[p].left \in 1 .. MaxLease
    BY <1>2, ClientTick DEF ClientTypeOK, check_serving, Live, Gates
  <2>2. PICK a \in Advance : gate'[p] = (IF gate[p] = None THEN None
                                         ELSE [gate[p] EXCEPT !.left = AtLeast(@ - a, 0)])
    BY TickIs
  <2>3. gate[p] # None /\ gate[p] \in Gates
    BY <1>2, <2>2, ClientFacts DEF check_serving, Live
  <2>4. gate'[p].purpose = gate[p].purpose /\ gate'[p].left = AtLeast(gate[p].left - a, 0)
    BY <2>2, <2>3 DEF Gates
  <2>5. gate[p].left \in Nat /\ a \in Nat
    BY <2>3, RatePositive DEF Gates, Advance
  <2>6. gate[p].left > 0
    BY <2>1, <2>4, <2>5 DEF AtLeast
  <2> QED
    BY <1>2, <2>3, <2>4, <2>6 DEF check_serving, Live
<1>3. \A t \in Tenants : ServingIncarnations(t)' \subseteq ServingIncarnations(t)
  BY <1>1, <1>2 DEF ServingIncarnations
<1>4. \A t \in Tenants : ServingIncarnations(t)' \subseteq Incarnations
  BY DEF OwnersOnly
<1>5. Owner!Cease
  BY <1>1, <1>3, <1>4 DEF Owner!Cease
<1> QED
  BY <1>5 DEF Owner!Next

\* Every step of the authority is a step of the owner specification: enrollment
\* gives a tenant its first owner, an activation replaces an owner nobody serves
\* under, and nothing else moves a tenant.
LEMMA AuthoritySimulates ==
    ASSUME OwnerInv, [AuthorityNext]_authorityVars, UNCHANGED clients
    PROVE  [Owner!Next]_(Owner!vars)
<1> USE DEF OwnerInv, ServingInv, ServingTypeInv
<1>1. \A t \in Tenants : ServingIncarnations(t)' = ServingIncarnations(t)
  BY DEF clients, ServingIncarnations, check_serving, Live
<1>2. ASSUME NEW d \in proposals, NEW e \in 1 .. MaxTerm, ApplyEnroll(d, e) \/ ApplyActivate(d, e)
      PROVE  [Owner!Next]_(Owner!vars)
  <2> DEFINE s == d.command.tenant
  <2>1. PICK i \in Incarnations :
           /\ s \in Tenants /\ (tenant[s] # None => incarnations[s][i] = None)
           /\ tenant'[s] # None /\ tenant'[s].incarnation = i
           /\ incarnations'[s][i] # None
           /\ \A t \in Tenants : t # s => tenant'[t] = tenant[t]
           /\ \A t \in Tenants, j \in Incarnations :
                 t # s \/ j # i => incarnations'[t][j] = incarnations[t][j]
    <3>1. CASE ApplyEnroll(d, e)
      BY <3>1, EnrollView
    <3>2. CASE ApplyActivate(d, e)
      BY <3>2, ActivateView
    <3> QED
      BY <1>2, <3>1, <3>2
  <2>2. ServingIncarnations(s) = {}
    <3> SUFFICES ASSUME NEW p \in Processes, check_serving(p), boot[p].tenant = s PROVE FALSE
      BY DEF ServingIncarnations
    <3>1. /\ gate[p].left \in 1 .. MaxLease /\ Leased(p, gate[p].left)
          /\ tenant[s] # None
      BY ServersLeased DEF IsCurrent
    <3>2. ApplyActivate(d, e)
      BY <1>2, <3>1 DEF ApplyEnroll, EnrollOK
    <3>3. Fenced(s) /\ d.drained = tenant[s].fence
      BY <3>2 DEF ApplyActivate, ActivateOK
    <3> QED
      BY <3>1, <3>3 DEF DrainedUnleased
  <2>3. EpochsOf(s)
    BY <2>1, EpochInvIs
  <2>4. i # OwnerOf(s) /\ i \notin RetiredOf(s)
    BY <2>1, <2>3, AuthorityAssumption DEF OwnerOf, RetiredOf, EpochsOf, HeldBy
  <2>5. /\ OwnerOf(s)' = i
        /\ RetiredOf(s)' = RetiredOf(s) \cup ({OwnerOf(s)} \ {None})
    <3>1. CASE tenant[s] = None
      <4>1. \A j \in Incarnations : incarnations[s][j] = None
        BY <2>3, <3>1 DEF EpochsOf, HeldBy
      <4> QED
        BY <2>1, <3>1, <4>1 DEF OwnerOf, RetiredOf
    <3>2. CASE tenant[s] # None
      <4>1. incarnations[s][OwnerOf(s)] # None /\ OwnerOf(s) \in Incarnations /\ OwnerOf(s) # None
        BY <2>3, <3>2, AuthorityAssumption DEF EpochsOf, HeldBy, OwnerOf
      <4>2. \A j \in Incarnations : j \in RetiredOf(s)' <=> j \in RetiredOf(s) \/ j = OwnerOf(s)
        BY <2>1, <2>4, <3>2, <4>1 DEF OwnerOf, RetiredOf
      <4>3. OwnerOf(s)' = i
        BY <2>1 DEF OwnerOf
      <4> QED
        BY <4>1, <4>2, <4>3 DEF RetiredOf
    <3> QED
      BY <3>1, <3>2
  <2>6. \A t \in Tenants : t # s => OwnerOf(t)' = OwnerOf(t) /\ RetiredOf(t)' = RetiredOf(t)
    BY <2>1 DEF OwnerOf, RetiredOf
  <2>7. /\ [t \in Tenants |-> OwnerOf(t)]' =
              [[t \in Tenants |-> OwnerOf(t)] EXCEPT ![s] = i]
        /\ [t \in Tenants |-> RetiredOf(t)]' =
              [[t \in Tenants |-> RetiredOf(t)] EXCEPT ![s] = @ \cup ({OwnerOf(s)} \ {None})]
        /\ [t \in Tenants |-> ServingIncarnations(t)]' =
              [t \in Tenants |-> ServingIncarnations(t)]
    BY <1>1, <2>1, <2>5, <2>6
  <2>8. Owner!Replace(s, i)
    BY <2>1, <2>2, <2>4, <2>7 DEF Owner!Replace, OwnerOf, RetiredOf
  <2> QED
    BY <2>1, <2>8 DEF Owner!Next
<1>3. CASE ~ \E d \in proposals, e \in 1 .. MaxTerm : ApplyEnroll(d, e) \/ ApplyActivate(d, e)
  <2>1. \A t \in Tenants :
           /\ \A i \in Incarnations : incarnations'[t][i] = incarnations[t][i]
           /\ tenant'[t] # None <=> tenant[t] # None
           /\ tenant[t] # None => tenant'[t].incarnation = tenant[t].incarnation
    BY <1>3, SameEpochs
  <2>2. \A t \in Tenants : OwnerOf(t)' = OwnerOf(t)
    BY <2>1 DEF OwnerOf
  <2>3. \A t \in Tenants : RetiredOf(t)' = RetiredOf(t)
    BY <2>1, EpochInvIs DEF RetiredOf, EpochsOf, HeldBy
  <2> QED
    BY <1>1, <2>2, <2>3 DEF Owner!vars, OwnerOf, RetiredOf
<1> QED
  BY <1>2, <1>3

\* The authority and its replicas, with leases, drifting clocks, drains and
\* crashes, implement exclusive ownership: service is handed over only after it
\* has ceased everywhere, and never back to an incarnation that was replaced.
THEOREM LeasesImplementOwnership == Spec => ImplementsOwner
<1>1. Init => Owner!Init
  <2> SUFFICES ASSUME Init PROVE Owner!Init
    OBVIOUS
  <2>1. \A p \in Processes : ~check_serving(p)
    BY DEF Init, check_serving, Live
  <2>2. \A t \in Tenants : ServingIncarnations(t) = {}
    BY <2>1 DEF ServingIncarnations
  <2> QED
    BY <2>2 DEF Init, AuthorityInit, Owner!Init
<1>2. ServingInv' => OwnersOnly'
  BY OnlyOwnerServes, PTL
<1>3. OwnerInv /\ [Next]_vars => [Owner!Next]_(Owner!vars)
  <2> SUFFICES ASSUME OwnerInv, [Next]_vars PROVE [Owner!Next]_(Owner!vars)
    OBVIOUS
  <2>1. ServingInv /\ OwnersOnly'
    BY <1>2, ServingInvNext DEF OwnerInv
  <2>2. ASSUME NEW k \in Ids, NEW a \in Principals, WitnessStop(k, a)
        PROVE  [Owner!Next]_(Owner!vars)
    <3>1. UNCHANGED <<tenant, incarnations, boot, gate>>
      BY <2>2 DEF WitnessStop, records, clients
    <3>2. \A t \in Tenants : ServingIncarnations(t)' = ServingIncarnations(t)
      BY <3>1 DEF ServingIncarnations, check_serving, Live
    <3> QED
      BY <3>1, <3>2 DEF Owner!vars
  <2>3. CASE AuthorityStep /\ UNCHANGED <<clients, observed_stops>>
    BY <2>3, AuthoritySimulates DEF AuthorityNext
  <2>4. CASE UNCHANGED vars
    BY <2>4, AuthoritySimulates DEF vars
  <2> QED
    BY <2>1, <2>2, <2>3, <2>4, ProcessSimulates, TickSimulates
       DEF Next, VerifyTargetStop, AwaitStopDrain
<1> QED
  BY <1>1, <1>3, OwnerInvInit, OwnerInvNext, PTL DEF Spec, ImplementsOwner, Owner!Spec
=============================================================================
