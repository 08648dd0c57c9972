# Kasumi: the serving authority and the durable state below it

Kasumi is a replicated, encrypted, multi-tenant document store. Several
*incarnations* of a tenant's database can exist at once (a source, a restored
replacement, a target being prepared), and the property everything else rests
on is that at most one of them serves. A separate Raft group, the *independent
authority* (`crates/kasumi-authority`), decides which. Replica processes hold
bounded leases it signs (`crates/kasumi-serving`) and stop by themselves when
the lease runs out on their own clock; the authority waits long enough before it
lets a replacement start.

Below both, every durable record lives in the store's own key-value engine
(`crates/kasumi-kv`), written through a journal (`crates/kasumi-raft`).

This directory specifies the authority, its leases, its administration (signer
rotation and membership) and the durable layers (root publication, commit log,
reclamation, the standalone group's journal), checks them with TLC and proves with
TLAPS the safety of the authority, its leases, its request registry and signer
rotation, of root publication and of reclamation.

## Inventory

| Part | State | Operations | Hard behaviour |
|---|---|---|---|
| Administrative reducer (`kasumi-authority/src/state.rs`) | `Meta` counters, policy epoch, tenants with their fence, permanent receipts, preparations, incarnations, target stops | Enroll, Fence, PrepareTarget, Activate, StopTarget, StopActivation, ReplaceAdministrators, each through `reduce`/`effect` | commands in the log whose admission is stale, unknown outcomes, quota while a source is fenced |
| Admission (`service.rs`, `target_stop_service.rs`) | in-memory drain witnesses, leader term | `execute`, `acquire`, `discover`, `verify_target_stop` | leader changes, restarts, a clock that jumps back, a full witness map |
| Child request registry (`request_jobs.rs`, `kasumi-serving/src/background_work.rs`) | slots, joined outcomes, drain report | submit, observe, claim, drain | callers that vanish, workers that panic, shutdown racing submission |
| Leases and gates (`kasumi-serving/src/proof.rs`, `gate.rs`; `kasumi-server/src/serving_runtime.rs`) | boot identity, one acquisition attempt, the gate's current lease | discover, acquire, renew, promote, close | late answers, retries, drifting clocks, crashes |
| Signer rotation (`signing_state.rs`, `signer_*`, `kasumi-serving/src/live_trust.rs`) | generation, phase, rosters, coverage evidence | stage, acknowledge, activate, retire | partitions that learn of a rotation at different times |
| Lifecycle leases and control epochs (`lifecycle_*.rs`, `activation_state.rs`) | control epochs, per-node lifecycle grants | issue, observe, supersede, ActivateCommitted | an activation whose target must have committed first |
| Maintenance and membership (`maintenance_*.rs`) | members, capacity, revoked members | replace member, change capacity | joint membership changes |
| Raft group (`kasumi-raft`) | durable log, vote, snapshots, joint apply publication | append, apply, install snapshot, recover | crash between log and application writes |
| Key-value store (`kasumi-kv`) | segments, directory pages, roots, pins | commit group, publish root, compact, reclaim, recover | crash between pages and root, readers pinning old roots |
| Document engine (`kasumi-engine`) | documents, mutation receipts, staged transactions, snapshot leases, audit | mutate, stage, commit, backup, restore | exactly-once retries, restore into a new incarnation |
| Store, query, server, client, transport, types, clock, journal, evidence | files, keys, sessions | | mostly encoding, I/O and wiring |

Who calls whom: a replica process discovers its identity and asks for a lease
over the network (`KasumiAuthorityPool`); an administrator submits commands to
any authority member; the leader proposes them to the Raft group; every member
applies them in order; the leader alone counts drains, in memory.

What makes it correct, part by part: a permanent outcome never changes and is
never lost to a late duplicate; epochs and incarnations are never reused; a
stopped target is never activated; a fenced tenant can be completed as long as
maintenance leaves it the room; a drain is never reported early; and, across the whole system, two incarnations
never serve together. `PROJECT.json` lists the hazards behind each of these.

## Modules

| Module | Models |
|---|---|
| `DrainWitness` | `drain_ms`, `Drain`, `require_drain_witness` as operators on a witness map |
| `DrainLedger` | one authority process using the map for many stops, with restarts, terms and clock jumps |
| `Authority` | the reducer, the ordered log with its terms, the leader's admission; extends `DrainWitness` |
| `Serving` | `Authority` composed with replica processes, their leases, gates and clocks |
| `TenantOwner` | abstract: one owner per tenant, handed over only while nobody serves; `Serving` implements it |
| `SignerRotation` | one rotation of the signing key: the replicated head, the members' own trust records, coverage, leases issued meanwhile |
| `Maintenance` | the phases of a membership or capacity operation around an external Raft change, with leaders that lose and regain office |
| `BackgroundWork` | one background child: completion cell, custody map entry, join handle, racing observers and drains |
| `RequestJobs` | admission, custody and shutdown of the authority's accepted requests |
| `RootSlots` | the mirrored root file of a key-value group: publication, selection, repair, create intents, unlink |
| `DurableRoot` | abstract: one durable register; `RootSlots` implements it |
| `KvLog` | the commit log: batches, rolls, aborts, replay and recovery on a device that reorders and tears |
| `Reclaim` | compaction cycles, certified cohorts, reader pins and foreground commits |
| `LocalJournal` | the standalone group: opening, the append paths, joint publication, snapshots, purge, shutdown |
| `MC*` | command sets, symmetry and the stories a run keeps to |
| `*Proofs` | theorems |

`KvLog` and `Reclaim` take a root publication as one atomic step, which is what
`RootSlots` shows of it; `LocalJournal` takes one commit of the paired storage
domains as atomic, which is what `KvLog` shows of a batch.

### How state and actions correspond to the code

* **Commands and receipts.** An `Id` is the pair (tenant, command_id). A command
  stands for its own digest, and the code's digest of a receipt is the receipt's
  `Id`: receipts are permanent (proved), so the `Id` determines the receipt.
  `receipts`, `tenant`, `preparations`, `incarnations` and `target_stops` are the
  keyed records of `state.rs`; `administrators`, `policy_epoch`, `active_fences`
  and `state_bytes` are the fields of `Meta`. `revision` counts effective entries
  where the code uses the log index: only its order is used.
* **The log.** `proposals` are entries some leader appended. `Apply` picks any of
  them with the term of the entry; order in the log is the order of application.
  `LoseProposal` is truncation by a newer leader, `ApplyMetadata` the blank entry
  of a new term, without which no barrier succeeds (`Ready`). A caller that timed
  out after five seconds leaves its proposal behind, so unknown outcomes,
  duplicates under one identity and late applications all occur. An entry that
  fails a check of `reduce` is consumed by `ApplyWithoutEffect` and writes
  nothing; a business rejection writes a permanent `Rejected` receipt.
* **Quota.** Every record has size one, its maximum; a rewritten record does not grow.
  `state_bytes` is shared by the administrative reducer, by maintenance and by signer
  coverage, as in `Meta`. `completion_reserve` is three records for each fence, one for each
  dispatch of coverage that is not acknowledged and two for each that is not permitted;
  the open control epochs the code adds do not exist without lifecycle controls. An
  administrative command is held against `max_state_bytes - maintenance_reserve_bytes`;
  an entry of maintenance or coverage against all of `max_state_bytes`, one of maintenance
  with a record to spare while an operation is pending. The entries of those two are
  actions of their own (`ApplyOperational`), which count records in `operational` and keep
  only the phase of the pending operation; `Maintenance` and `SignerRotation` say what
  they do. A proposal of one that is lost or refused changes nothing here.
* **Time.** A witness stores ages instead of instants, since the code only ever
  subtracts clock readings. Ages saturate at `drain_ms + MaxRegression`: above
  that a witness stays complete whatever jump is still allowed, so saturation
  loses nothing. In one unit of real time every clock advances by some amount in
  `RateScale - RateError .. RateScale + RateError`.
* **Leases.** An attempt carries `spent`, the time on the process clock since
  `begin_acquisition` sampled it, and the phase of its request: `Sent`, `Viewed`
  (first view and signature), `Granted` (second barrier and response fence). A
  gate carries the time its lease has `left`; expired and closed are both 0,
  because neither admits an access and neither can be renewed.
* **Process clock.** `ServingBoot::now` poisons itself on any backward step, so a
  process whose clock regresses is one that has stopped: `CloseGate` or `Restart`.
  A signer the process no longer trusts closes its gate likewise.
* **Renewals** of one process are serialised by the client mutex, so there is one
  attempt at a time. `promote_prepared` is part of the gate's public interface;
  `BeginAcquisition` offers it its Serving attempt.
* **Custody of a child** (`BackgroundWork`). One step is what the code does under
  one acquisition of the cell's lock, the custody map's lock or the handle's lock;
  `pc` is where each caller stands between two of them. `remove_observed` and
  `remove_drained` are the gap in `publish` between releasing the cell and removing
  the entry, during which the handle's lock is still held; `remove_reported` is the
  gap in `report_terminal`. `CancelDrain` drops a drain's future at either of its
  awaits. An issue is kept or not: what it says does not matter.
* **Requests** (`RequestJobs`). A job is one public request; who holds a permit, a
  read guard of `request_owners` or a budget slot is derived from where its caller
  and its child are, because in the code these are guards that move with them.
  `observe` is the whole loop, under the registry's lock, and is part of every
  action whose code calls it. Joining a child is one step here: `BackgroundWork`
  shows that its callers cannot tell the difference. The census of a shutdown
  keeps its own position and may be cancelled between two slots; `rejections` is
  `DrainReport::local` for the component "authority request outcome".
* **Signer rotation** (`SignerRotation`). The head never clears its retirement, so
  there is one rotation and a certificate is its generation. `meta` is what the
  group has committed; `view` is what a deposed leader that does not know it still
  believes. `inv` is an invocation of `administer` between its awaits, with the
  owner's lock dropped for the second authorization; `CommitUncertain` is a commit
  of the trust record that fails and may have happened. `fresh` stands for the
  equality of the operational revision. Every modelled verifier belongs to a member
  of the issuing group. The policy epoch of a coverage permission
  (`signer_coverage_service.rs:173`) is not compared, so more permissions are granted
  than in the code. An activation whose limit has expired is refused, as
  `docs/signer-trust.md` says; the operator uses another identity.
* **Maintenance** (`Maintenance`). A call is one `maintenance_owned` under the
  proposal lock; `at` is the await it stands at. `Change` appends a membership, in
  force at once; `Commit` applies the oldest entry of `tail`. `Elect` truncates what the new
  leader does not have. Capacity is a small number; voter-set validity
  and credential deadlines are left out, byte accounting is in `Authority`; the details of the drain clock are in
  `DrainLedger`.
* **Root file** (`RootSlots`). `slots` is what reads return and `stable` the medium;
  `PowerLoss` keeps, loses or tears each write that was not synchronized, within
  the promise of an ordering synchronization. The root directory listing and the
  garbage of a root are sets of files. `Damage` is damage at rest. The
  owner's own check before an unlink (that both copies have forgotten the file)
  never refuses in a reachable state: it is defence in depth.
* **Commit log** (`KvLog`). Positions count records. A checksum is the `form` of a
  record; the operation digest and the commit chain are the attempt identities they
  cover, and the number of operations is kept beside them. A failure that left nothing
  of the commit is a rejection: of an operation or directory record or a page, and in a roll within a batch
  the seal, the new file, its header and whatever precedes the first write of the new root. A failure after
  that write, or of the commit record, is an unknown commit. An opened store
  decides what the caller of an unknown commit can learn. A directory anchor
  (`validate_directory_anchor`) is the position after a commit record whose sequence,
  directory and chain must be the root's; that the pages it names exist
  (`PagesReachable`) is the separate check of the opening. Damage at rest, the contents of
  directory pages and the roll of arenas are left out.
* **Reclamation** (`Reclaim`). A directory root is its generation, its arena and the
  files its tree references. One item of maintenance is one step, the smallest
  budget. The `Invalidated` outcome of a cohort, and a cohort over garbage the same
  owner recorded, are not actions: `ChurnNeverInvalidates` shows that they would
  never be enabled. A kept segment that only a pin newer than `evacuated` reaches
  waits for the next cycle. The values a batch writes lie in one file, an evacuation ends
  when no page is left in the old arenas (the code: when its worklist is exhausted), and a
  pin of the empty root, which reaches nothing, is no pin.
* **Journal** (`LocalJournal`). An entry is the identity of the attempt that wrote
  it. An error during opening is the crash of an opening group. A refused first
  entry leaves an empty journal. Restoring an image sets the application rows to it.
  The initial disks include those of a clustered predecessor. Left out: retirement
  and custody commands, seeds, membership checks, terms, installed snapshots, metrics.
* **Manifest.** No lifecycle controls are configured, so `Activate` is the
  activation command and `ActivateCommitted` is rejected by validation.

### Runs

| Run | Question | Bounds |
|---|---|---|
| `drain_ledger` | is a stop ever reported drained early, with more stops than witnesses? | 3 stops, 2 witnesses, 2 terms, 3 ticks of regression, rates 2..4 of 3 |
| `authority` | do replacement, preparation, stop, resolution and a change of administrators ever contradict each other, do three writers of one quota keep what each reserved, and is a fenced tenant eventually replaced? | 12 commands about one tenant, 2 in the log at once, 2 terms, 1 tick of regression, one signer rotation, capacities of 12, 14 and 20 records with 4 of them for maintenance, 9 records of maintenance and coverage |
| `serving` | do the leases implement `TenantOwner`, through replacement, promotion and stop of a prepared target? | 2 processes, 2 incarnations, 2 terms, leases of 3 ticks with rates 2..4 of 3, credentials of 2 or 3 ticks |
| `background_work` | can racing observers, drains and cancellations lose a child or its failure, or hang? | 3 callers, 1 child |
| `request_jobs` | does shutdown miss a child, stop the group under a request, report clean wrongly, or hang? do slots come back? | 3 requests, 2 slots |
| `signer_rotation` | do head, local trust, coverage and leases agree at every await, and does the rotation finish? | 2 members, 1 other verifier, 1 lease in flight, 2 identities per command, 2 policies, 2 terms, 1 fault |
| `maintenance` | does every dispatched operation resolve forward, with the journal first? | 4 nodes, 2 leaders, 5 operations in two plans, 2 terms, 1 fault |
| `maintenance_return` | may a replaced voter be made a voter again? (no: see Findings) | 3 operations, 1 leader |
| `root_slots` | do two slots implement one register, with faults in publication and repair? | 10 generations, 2 files, 2 faults, 2 damaged slots |
| `kv_log` | does replay accept every crash of its own writer and never undo a selection? | 3 attempts of up to 2 operations, 3 records a segment, 4 segments, 3 faults |
| `reclaim` | is a file a reader still reaches ever unlinked, and is a free one ever kept? | 3 commits, 2 segments and 2 arenas, 1 pin, 1 cycle, 1 fault |
| `local_journal` | does the standalone group open what any crash leaves, with position and rows together? | indices 0..2, 3 attempts, 2 captures, 2 faults, snapshots every 2 entries, purges of 1 entry |

**Properties.** A run's invariants are conjunctions of named parts, each with its own
comment, about one question: `ReplacementNeverForks`, for instance, is
`EpochsNameIncarnations`, `FenceConsumedOnce` and `ActivationResolvedOnce`. In most
modules the type invariant is a part of the first of them.

**Bounds.** They are the smallest at which each hazard happens: two proposals suffice
for every race through the log because the reducer looks at one entry at a time
and at records; three stops against two witnesses reach refusal and eviction;
with rates 2..4 of 3 the drain interval is twice the longest lease, so ignoring
the rate error, or rounding it down, is visible; two terms separate a witness of
a former term; three callers give a drain, a
second joiner and an observer of one child; two slots and three requests reach a
full registry, the reuse of a slot and a census between two installs; three
records a segment make a batch of two operations roll between any two of its
records; three faults in the log are a failed write, a power loss and a second
one during recovery; an interval of two entries makes a snapshot, a purge in
two pieces and a further write fall within three indices. A capacity of 14 records refuses
an administrative command even when nobody else has written; with 12, a record of
maintenance after a fence is in the way of its activation; 20 leaves room
for a rotation and a dispatch of coverage that then meets the limit.

**Stories.** Several runs name a `CONSTRAINT`: the run explores the states in which
only the commands of one of a few stories have been used (replacing one tenant
twice, stopping a target, changing the administrators, failing over, maintenance or
coverage crowding a fenced tenant), rather than
all of them together. Each story is closed under everything the rest of the system
does. Where the run also checks liveness, the constraint never cuts a step that
fairness asks for, so a behaviour that stays in the run is judged on its own
continuation: `Retried` commands belong to every story of `authority`, and in
`signer_rotation` only the second identity of a command is ever cut. `InOrder` of
`request_jobs` starts alike requests in order.

Symmetry permutes stops or processes only, which no definition
distinguishes; it is not used with a liveness property. `ImplementsOwner` is a
safety specification.

Deadlock is checked except in `root_slots`, `kv_log` and `reclaim`: there time is
not modelled, and an idle owner that has used up the bounds on generations, attempts
or commits really has nothing left to do.

### Fairness

`authority` assumes: a live quorum applies what was proposed and the blank
entry of a new term (Raft's own promise with a majority up); the issuer's clock
advances; each activation in `Retried` is retried, which is what the `Unavailable`
answer of `require_drain_witness` asks of its caller, with strong fairness because
the proposal lock is a tokio mutex, first come, first served. Leader changes are
bounded by `MaxTerm`. The property ends where a command that was
ordered first rules the activation out: a stop, a resolution, a new policy, or records
of maintenance and coverage that leave it no room (`Completable`; see Findings).

`background_work` assumes that the child ends, that a runnable caller runs, and
strong fairness of taking the handle's lock: tokio's mutex is first come, first
served, so a waiter cannot be overtaken for ever by drains that start and are
cancelled. `request_jobs` assumes that children run, that a caller makes progress
until its deadline and then drops what it got (every public call has one), that
admission checks go on (each Raft message makes one through `check_open`), and
that the serving loop keeps polling shutdown. Cancellations are not bounded; the
properties end where one happens.

`signer_rotation` assumes that entries are applied, calls run (strong fairness: the
locks are first come, first served), operators retry with a usable identity,
closed processes are restarted and time passes. `maintenance` assumes that commits
happen, calls run, time passes and operators resume an open operation, as
`docs/authority-maintenance.md` asks of them. `root_slots`, `kv_log`, `reclaim` and
`local_journal` assume only that the owner's next step runs, and in `reclaim` that
readers release their pins; weak fairness suffices because faults are bounded.

## Proofs

Assumptions: those named in the modules. They say that bounds are natural numbers,
that commands pass `AuthorityCommand::validate` (`AuthorityAssumption`), capacities
`AuthorityCapacity::validate` (`CapacityAssumption`), that `None`
is not a record (`NoneAssumption`, `RecordAssumption`, `BootAssumption`), that
verifiers and operations name members (`RotationAssumption`), and that a group starts
with at least one member and its operations are of the kinds `AuthorityMaintenanceAction`
has, on nodes and sizes (`MaintenanceAssumption`). Bounds that must not be
zero are those the code cannot have at zero: a term, a capacity, a lease,
`MaxGeneration` of `RootSlots`, because creating a group publishes generation one, and
`MaxCaptures` of `LocalJournal`, because a predecessor may leave an image. No
set of constants is assumed finite, except the members of a group
(`RotationAssumption`) and where a theorem says so. Bounds that exist for TLC only
(`MaxFaults`, `MaxTerm`, `MaxGeneration` and the like) are arbitrary in the theorems.

The proofs of a module stand together: its inductive invariant first, then a
lemma for each action or group of actions that disturbs the same parts, then the
theorems. `AuthorityProcessProofs` holds those of the two parts that one authority
process keeps in memory, the drain ledger and the request registry; `ServingProofs`
those of `Authority` and of `Serving`, which extends it.

* `AuthorityProcessProofs`, the ledger: `NeverReleasedEarly`. The inductive invariant adds
  `WitnessNeverAhead`: no witness claims more than was really waited. A regression
  shrinks ages and leaves the truth alone; an eviction forgets; a reset sets an
  age to zero. `LedgerBounded` is the capacity, for a finite set of stops.
* `ServingProofs`, the authority, begins with what ageing, observing and starting do to a witness, and
  `DrainCovers`, the arithmetic fact that `drain_ms * RateLo >= MaxLease * RateHi`.
  * `AuthorityTypeSafe`, `ReceiptsArePermanent` and
    `StoppedNeverActivated`. Types need one strengthening: the receipts inside
    `TargetAlreadyActivated` and `ActivationResolved` do not nest again, because the
    receipt of an activation is plain.
  * `HistoryNeverForks`. `ReplacementNeverForks` is not inductive: that one fence
    admits one replacement needs that an open fence is a retained receipt which no
    activation names (`FencesOpen`), that the receipt of an incarnation is retained and
    is an enrolment or an activation (`IncarnationsRecorded`), that no epoch is
    ahead of its tenant's (`EpochsBounded`), and that a resolution carries the receipt
    that is retained (`ResolvedAsRetained`).
  * `OrderedEffects` adds to this that the policy epoch counts the replacements of the
    administrators on record (`PolicyCounted`).
  * `ReserveIsKept`. The counters of `Meta` are updated by increments; the invariant
    (`QuotaInv`) says they are the cardinalities of the records and that bytes
    and reserve together stay within the full capacity, whichever reducer writes and
    however the capacity is changed. A permission or an acknowledgment of coverage spends
    what its dispatch had reserved and gives it back in the same step, so neither is
    ever refused. The same holds of an activation and its fence only within the smaller
    bound of administrative commands: the theorem has it under `ReserveUntouched`, and
    without that premise it is false of the code (see Findings).
* `ServingProofs`, the leases: `ServingTypeSafe` and `ServingIsExclusive`. The invariant says:
  1. whoever holds a live serving gate, or a viewed or granted serving attempt
     that could still become one, is for the tenant's current incarnation and epoch
     (`LeasesCurrent`);
  2. while a fence is witnessed, `left * RateHi + elapsed * RateLo` is at most
     `MaxLease * RateHi` for every lease it must outlast, and for every attempt that
     could still be turned into one (`LeasesWitnessed`). Each tick preserves it
     because a lease loses at least `RateLo` while the witness gains at most
     `RateHi`; renewals start from the sample before dispatch;
  3. hence a complete witness means no lease is left, and an activation in the log
     that carries a drained fence finds none when it is applied
     (`DrainedUnleased`), however late;
  4. stops in the records are retained (`StopsRetained`).
  `NoSplitServing` follows from the first part. Four more theorems rest on it:
  * `ClosedStaysClosed`: no step turns a gate with nothing left into one with time
    left; an action property, from the types alone.
  * `ServiceIsAsActivated`: every grant under way or installed carries the activation
    that its process's incarnation and epoch stand for (`LeasesBound`), so an old grant
    cannot bring the material of another activation.
  * `ObservedStopsAreFinal`: the argument of part 2 again, for the witness of a target
    stop and for both purposes (`StopsWitnessed`); an observed stop has no holder left
    and admits none (`ObservedUnheld`).
  * `LeasesImplementOwnership`: `Serving` implements `TenantOwner`. Enrolment and
    activation are the abstract hand-over, and find nobody serving by `DrainedUnleased`; a grant
    installed in a gate is `Serve`, for the owner by `LeasesCurrent`; ticks, closures and
    restarts are `Cease`; all else stutters. A replaced owner never returns because an
    activation needs an incarnation that is not on record.
* `BackgroundWorkProofs`: `CustodyIsKept` (from `CustodyIsNeverLost` and
  `RunningChildIsOwned`) and `OutcomesAreReported` (from `FailureIsHeldUntilReported` and
  `AnswersAreTrue`), for any number of callers. The
  invariant has two halves. `PhaseInv` ties the phase to the child, the handle and
  the entry: `Running` means that all three are there, `Joined` that the handle is
  spent, and an unreported failure keeps its entry. `CallerInv` says what a caller
  between two locks may rely on: whoever looked the child up did so after it was
  started, whoever awaits it holds the only handle lock, whoever is about to remove
  the entry has published a clean join, and a drain about to report a `New` cell has
  closed it first, so nobody starts it in between.
* `AuthorityProcessProofs`, the requests: `NobodyIsMissed` and `CleanReportsAreTrue`, for any number of
  requests and slots. `CallersMatch` ties a caller's stage to its child, `ChildrenHeld`
  says that a child is in exactly one slot until its handle was joined, and
  `CensusSweeps` that a census of a closed registry leaves nothing behind it: nothing
  is installed after the close, so what it passed stays empty even if it is cancelled
  and started again. `OwnersGone` is the second half of shutdown: past the write lock on
  `request_owners` no request holds a guard. `OutcomesKept` accounts for every rejection
  and panic: with its caller, in its slot or in the report.
* `SignerRotationProofs`: `TrustIsNeverEarly`, `CoverageIsSound` and `LeasesAreCurrent`. A
  deposed leader acts on an older head, so the invariant is about heads in order:
  whatever a member believes is something the group has reached (`ViewsBehind`). From it
  follow the others: an acknowledgement is backed by the member's own durable record
  (`CoverageBacked`), a retirement witness never shows more time than has really passed
  (`TrustOrdered`), and what an invocation or a lease request carries across
  its awaits was true when it was read and cannot be undone (`InvocationBacked`,
  `RequestBacked`).
* `RootSlotsProofs`: `FoundRootsAreUsable` and `SlotsImplementRegister`. The heart is
  `ImagesCurrent`: in the slots and on the medium together, every intact image is the
  root that was told last or one and the same successor of it. With it go `UnbornIsEmpty` (a group
  whose slot A was never written has no files), `SomeRootSurvives` (whatever a power loss
  keeps or tears, a reopen selects a root), `OwnerSound` and `SlotsFollow` (where each
  phase stands between its two writes) and `CopyKept` (unless it was damaged, a
  publication has a copy to fall back on). The refinement maps the abstract
  `possible` to the roots of all selections a power loss could leave: the first write is
  `Begin`; a synchronization, the second write and a power loss are `Settle`; the last
  synchronization and an opening are `Tell`; damage is `Damaged`.
* `ReclaimProofs`: `RetainedRootsStay` and `ConclusionsHold`, which is the argument in
  the comment at the head of `reclaim.rs`. A cohort's chain leads unbroken from the root it
  captured to the selected one, and a pin is captured or taken on the chain
  (`ChainHolds`); a commit takes new references from above the range being reclaimed
  (`StagedAbove`); so a file that no walked tree references is referenced by none
  (`WalkHolds`), stays so, and is dead once recorded (`GarbageDead`). `CensusComplete` is
  the converse: the floor never rises past a file that is neither proved nor reached.

* `MaintenanceProofs`: `RecordsLeadAlways` and `RevocationDrainedAlways`. A call reads the
  records, awaits, and writes; meanwhile it may be deposed and another leader may have gone
  further. So the invariant says what every call has established by the await it stands
  at (`CallBacked`) and what every uncommitted entry rests on (`EntryBacked`), in a form
  that later commits cannot undo: an entry either finds the phase it was written for,
  and then its premise still holds, or it changes nothing.
  * A `Begin` or `Dispatch` rests on acknowledgements of what the operation needs as
    configured now. A transition that changes what is needed makes every earlier preflight
    stale (`drawn`), and while an operation is prepared no other is open to change it.
  * A `CompleteDrain` rests on a witness no older than the time that really passed
    (`WitnessBacked`); truth only grows while the operation drains, and there is one
    such operation at a time (`PendingIsTheOpenOne`).
  * At most one membership entry is uncommitted, and it names nodes on record, revoked
    ones included: the re-enrolment described under Findings is within the invariant,
    which is why `JournalPrecedesMembership` allows it.
* `LocalJournalProofs`: `JournalAgrees`, and from it `JournalOpensAlways`,
  `ServesCommittedAlways` and `HistoryOnlyGrowsAlways`, for any bounds and any predecessor.
  No variable holds the history, so the invariant says that there is one: a
  sequence `h`, the last stored index `e` and the last application row `r` such that
  (`Sound`)
  1. `h` reaches as far as the commit cursor or the published image, whichever is
     further; the journal after the purge cursor agrees with it, and what lies past it is
     the suffix a predecessor left (`JournalSound`);
  2. the application rows are a start of `h` and do not pass the durable applied position,
     which is not behind the published image (`RowsSound`);
  3. every image is a start of `h`, the published one has its chunks, and every other
     chunk has a marker that a cleanup finds (`ImagesSound`, `ChunksSound`);
  4. the span in memory is the stored one, except after a failure and between a barrier
     that committed the record of a prepared append and its completion (`SpanSound`);
  5. each phase of an opening has established what the next one checks (`OpenSound`), and
     likewise the steps of a purge, a build and the worker (`PurgeSound`, `SnapSound`,
     `ServeSound`);
  6. attempts are numbered after everything stored, and a refused one is not stored
     (`ClientSound`).
  Each action is then one of a few changes of a disk (`RecordedSound`, `AppliedSound`,
  `PublishSound`, `PurgedSound`, `TruncatedSound` and the like), each with its lemma, and
  leaves `h` alone or makes it longer. That is the step lemma (`HistoryGrows`) from
  which the action property follows. The two invariants of the runs are conclusions from
  `Sound`; that what an opening expects to find (`OpensWhatItLeft`) follows is the reason
  for parts 1 to 3.

`NoSplitServing` is not a property of the run because `ImplementsOwner` implies it.

Only model-checked:

* liveness under fairness, which TLAPS does not handle: the eventual replacement of a
  fenced tenant, the ends of shutdown, rotation, maintenance, reopening and
  reclamation;
* `KvLog`, all of it: `LogPassesItsChecks`, `DeniedStaysUncommitted` and
  `SelectionsOnlyExtend` all speak of what replay computes from the records it folds over,
  and that, for every log, is induction over data.

Every other safety property that a run checks is a theorem.

## Plan

1. Done: drains, the authority's administrative reducer and admission, leases and
   gates, the abstract owner, and their first theorems.
2. Done: custody of accepted authority requests and of background children.
3. Done: signer rotation; maintenance and membership.
4. Done: root publication and the register it implements, the commit log,
   reclamation, and the journal of the standalone group on top of them.
5. Lifecycle leases, control epochs and `ActivateCommitted`, within `Authority`.
6. Mutation receipts and staged transactions of the engine, as exactly-once
   execution.
7. Done: the safety of every component except the commit log, and both refinements, as
   theorems.
8. Left to a prover with induction over sequences: the replay of `KvLog`. Left to TLC:
   liveness.

## Findings

**A replaced voter cannot return** (`maintenance_return`). `ReplaceVoters` removes the
replaced voter from the Raft nodes while it stays a member on record until it is
revoked. A later `ReplaceVoters` that names it passes `prepare_maintenance_start`, is
dispatched, and is then refused by every resume (`maintenance_service.rs:255`): it
can neither be finished nor stopped, and blocks all later maintenance, although
`docs/authority-maintenance.md:75` says that a dispatched operation must resolve
forward. The run `maintenance` shows that operations which do not name a replaced
voter do resolve.

Met while modelling, and not the subject of a run:

* The reserve of a fence can be spent. `state.rs:733` says "Other commands cannot spend
  that reserved completion capacity", and `docs/independent-serving-authority.md:32`
  "Subsequent commands cannot spend this reserved headroom". Administrative
  commands cannot; but an activation is held against `max_state_bytes` less the
  maintenance reserve (`state.rs:735-748`), whereas an entry of maintenance
  (`maintenance_state.rs:431-444`) or coverage (`signer_coverage_state.rs:509-518`) adds to the same
  `state_bytes` up to all of `max_state_bytes`. After a fence at the limit, one enrolled
  verifier is enough for the drained activation to be refused with `ResourceExhausted`, and the
  source stays frozen until the capacity is raised. `FencedSourceCanComplete` states what the comment
  says; checked as an invariant with `Authority.cfg` it fails (capacity 12, enrolment,
  fence, `CompleteAtOnce`, activation), and `FenceReserveKept` states what does hold.
* `AuthorityCapacity` says (`kasumi-serving/src/maintenance.rs:58`) that its reserve serves the "durable
  completion of an already accepted operation". A pending operation keeps one record
  free, but a dispatched revocation needs two at its `Finish`: the identity of the
  member, and still one to spare while it drains. Entries of coverage
  ignore the spare record too. At the limit the operation can then not be
  finished, nor stopped once dispatched, and the capacity cannot be changed while it is
  pending (`AdvanceMaintenance`, `SetCapacity`).
* `RequestJobs::observe` says (`request_jobs.rs:114`) that a rejection whose waiter is
  gone moves to the drain report, "which keeps the original error for shutdown". The
  report is keyed by slot position and keeps the first error of a key
  (`drain.rs:154`, as `DrainReport`'s own comment says), while slots are used again:
  the second abandoned rejection of a slot is dropped. Shutdown still never reports
  clean wrongly (`CleanReportIsTrue`), and the slot is never leaked (`SlotsComeBack`).
* `prepare_maintenance_start` records a permanent rejection when the operational
  revision has moved (`maintenance_state.rs:459`), although the comment at 222-224
  explains that a passing obstacle must not consume an identity that signer coverage
  retries. The revision is read before the barrier
  (`signer_coverage_service.rs:169`), so an entry somebody appended earlier and
  stopped waiting for can consume the permission of a dispatch for good.
* The barrier between the dispatch of an operation and its Raft change discards its
  term (`maintenance_service.rs:241`). A leader deposed there, and elected again after
  another leader finished the enrolment and revoked the member, appends the enrolment
  once more, and a revoked member is in the Raft membership
  (`docs/authority-maintenance.md:64` forbids it). It takes a call held up across two
  elections; the transport still refuses the member.

The arms of `background_work.rs` that publish `CustodyLost` or answer `Retained` are
unreachable (`CustodyIsNeverLost`); they guard against errors the code does not make.

## Not modelled

Cryptography (signatures are taken as unforgeable and bound to their claims),
encodings, file formats, TLS, HTTP/MCP/CLI surfaces, the query language,
benchmarks and the vendored consensus library. Of the key-value store: the page
cache, the pages of the directory tree, tables and transactions. Of the Raft crate:
clustered mode, which is mostly the vendored library. The document engine and the
lifecycle leases are on the plan. Most of the repository's lines are such code
(surfaces, encodings, tests inside the source files), so the models cover a small
share of its lines and the part of it where its protocols are decided. `PROJECT.json` lists every part
with its reason.
