------------------------------- MODULE Reclaim -------------------------------
(***************************************************************************)
(* Reclamation of old files under live readers: the compaction cycle, the  *)
(* certified cohorts that prove files unreachable, the snapshot pins they  *)
(* must cover, the foreground commits that run between their steps, and    *)
(* the reopen that finishes an interrupted unlink (kasumi-kv reclaim.rs,   *)
(* disk_reclaim.rs, disk_compact.rs, root_compaction.rs, snapshot_pins.rs, *)
(* and the install funnel of disk_state.rs).                               *)
(*                                                                         *)
(* A directory root is its generation, the arena of its root page and the  *)
(* set of files its tree references. Superblock publications are atomic    *)
(* here (RootSlots shows that they may be taken so). Maintenance runs one  *)
(* item per step, the smallest budget, so commits and readers interleave   *)
(* with every item. Byte measurements, the triggers computed from them and *)
(* the survey that picks the segments to empty are nondeterministic. Pins  *)
(* handed over by a history transfer keep root and stamp and are the same  *)
(* pin here.                                                               *)
(***************************************************************************)
EXTENDS Naturals, FiniteSets, FiniteSetsExt

CONSTANTS MaxId,       \* bound: segments and arenas ever created
          MaxCommits,  \* bound: directory generations
          MaxCycles,   \* bound: compaction cycles
          MaxFaults,   \* bound: crashes and local refusals
          MAX_GARBAGE, \* candidates of one cohort
          Pins         \* slots of the pin registry

ASSUME ReclaimAssumption ==
    /\ MaxId \in Nat \ {0} /\ MaxCommits \in Nat \ {0} /\ MaxCycles \in Nat
    /\ MaxFaults \in Nat /\ MAX_GARBAGE \in Nat \ {0}

VARIABLES files,    \* the files present
          root,     \* the durable superblock
          staged,   \* a commit in the log whose root is being published
          pins,     \* slot -> the pinned root and its stamp
          coverage, \* the active cohort's nonce and the root it certifies
          nonce,    \* the last cohort nonce used by this owner
          cycle,    \* the reclaim cycle or round in progress
          cohort,   \* its active cohort
          floor,    \* no file below these identifiers is present
          owed,     \* the round a cycle owes to files held by pins
          evacuated,\* the oldest generation free of what was evacuated
          mode, faults

vars == <<files, root, staged, pins, coverage, nonce, cycle, cohort, floor,
          owed, evacuated, mode, faults>>
----------------------------------------------------------------------------
(* Files and superblocks.                                                  *)

Kinds == {"Segment", "Directory"}
File(k, i) == [kind |-> k, id |-> i]
Files == {File(k, i) : k \in Kinds, i \in 1 .. MaxId}
PerKind == [Kinds -> 0 .. MaxId + 1]

\* Segments are probed before arenas, each in identifier order.
ProbeOrder(f) == IF f.kind = "Segment" THEN f.id ELSE MaxId + f.id

DirectoryRoot == [generation : 0 .. MaxCommits, arena : 0 .. MaxId, refs : SUBSET Files]
NoDirectory == [generation |-> 0, arena |-> 0, refs |-> {}]

Phases == {"Idle", "Evacuating", "Reclaiming", "Packing"}
Superblock == [directory : DirectoryRoot, start : 0 .. MaxId, last : [Kinds -> 1 .. MaxId],
               garbage : SUBSET Files, phase : Phases, cycle : 0 .. MaxCycles,
               cutoff : PerKind, source : DirectoryRoot]

compaction_cutoffs(r) == [k \in Kinds |-> r.last[k] - 1]

\* The structural guard of retirement: the worklist of an evacuation, the
\* newest files, the log from the replay start on and the arena of the root
\* page are protected whatever a proof says.
file_is_retirable(r, f) ==
    /\ r.phase # "Evacuating"
    /\ r.directory # NoDirectory
    /\ f.id < r.last[f.kind]
    /\ f.kind = "Segment" => f.id < r.start
    /\ f.kind = "Directory" => f.id # r.directory.arena
----------------------------------------------------------------------------
(* Pins and coverage.                                                      *)

NoPin == [root |-> NoDirectory, stamp |-> 0]
NoCoverage == [nonce |-> 0, root |-> NoDirectory]
Live == {p \in Pins : pins[p] # NoPin}
PinnedRoots == {pins[p].root : p \in Live}

stamp(r) == IF coverage.nonce # 0 /\ coverage.root = r THEN coverage.nonce ELSE 0

validate_cohort_coverage(c) ==
    /\ c.nonce # 0 /\ coverage.nonce = c.nonce
    /\ \A p \in Live : \/ pins[p].root = root.directory
                       \/ pins[p].root \in c.capture
                       \/ pins[p].stamp = c.nonce

pinned_before(generation) == \E p \in Live : pins[p].root.generation < generation
----------------------------------------------------------------------------
(* Cohorts and cycles.                                                     *)

Stages == {"None", "Collecting", "Walking", "Walked", "Draining"}
Cohort == [stage : Stages, nonce : Nat,
           r0 : DirectoryRoot, latest : DirectoryRoot, broken : BOOLEAN,
           capture : SUBSET DirectoryRoot, candidates : SUBSET Files,
           current : SUBSET Files, pinned : SUBSET Files,
           unwalked : SUBSET DirectoryRoot, proofs : SUBSET Files,
           probed : SUBSET Files, skipped : SUBSET Files]
NoCohort == [stage |-> "None", nonce |-> 0,
             r0 |-> NoDirectory, latest |-> NoDirectory, broken |-> FALSE,
             capture |-> {}, candidates |-> {}, current |-> {}, pinned |-> {},
             unwalked |-> {}, proofs |-> {}, probed |-> {}, skipped |-> {}]

\* What a cycle still has to probe, and what it has kept so far.
ReclaimCycle == [active : BOOLEAN, limits : PerKind, unprobed : SUBSET Files,
                 kept : SUBSET Files, pin_retained : SUBSET Files]
NoCycle == [active |-> FALSE, limits |-> [k \in Kinds |-> 0], unprobed |-> {},
            kept |-> {}, pin_retained |-> {}]
NewCycle(limits) ==
    [NoCycle EXCEPT !.active = TRUE, !.limits = limits,
                    !.unprobed = {f \in Files : floor[f.kind] <= f.id /\ f.id < limits[f.kind]}]

NoRound == [limits |-> [k \in Kinds |-> 0], evacuated |-> 0]

Least(a, b) == IF a <= b THEN a ELSE b

\* The exclusive limits of a range below the given cutoffs.
ReclaimLimits(cutoff) ==
    [k \in Kinds |-> IF k = "Segment" THEN Least(cutoff[k] + 1, root.start) ELSE cutoff[k] + 1]

\* Nothing below the lowest kept file of a completed range, or below its
\* limits, is present.
raise_floor(c) ==
    floor' = [k \in Kinds |->
                LET low == Min({f.id : f \in {g \in c.kept : g.kind = k}} \cup {c.limits[k]})
                IN IF low > floor[k] THEN low ELSE floor[k]]

referenced(c) == c.current \cup c.pinned
has_unreferenced(c) == c.candidates \ referenced(c) # {}

seal(c) ==
    /\ ~c.broken
    /\ root.directory = c.latest
    /\ validate_cohort_coverage(c)
----------------------------------------------------------------------------
(* Readers.                                                                *)

Open == mode = "open"
Quiet == Open /\ staged = NoDirectory   \* no commit holds the core

Acquire(p) ==
    /\ Open
    /\ pins[p] = NoPin
    /\ root.directory # NoDirectory
    /\ pins' = [pins EXCEPT ![p] = [root |-> root.directory, stamp |-> stamp(root.directory)]]
    /\ UNCHANGED <<files, root, staged, coverage, nonce, cycle, cohort, floor, owed,
                   evacuated, mode, faults>>

Release(p) ==
    /\ p \in Live
    /\ pins' = [pins EXCEPT ![p] = NoPin]
    /\ UNCHANGED <<files, root, staged, coverage, nonce, cycle, cohort, floor, owed,
                   evacuated, mode, faults>>
----------------------------------------------------------------------------
(* Installations.                                                          *)

\* The files a batch may append to: the newest ones, and their successors
\* when it rolls.
Fresh(next) == {f \in Files : root.last[f.kind] <= f.id /\ f.id <= next[f.kind]}
Rolls == {next \in [Kinds -> 1 .. MaxId] :
            \A k \in Kinds : next[k] \in {root.last[k], root.last[k] + 1}}

\* A copy-on-write successor of the selected tree: it keeps some references,
\* and its root page and new values are in fresh files.
Successors(next) ==
    {[generation |-> root.directory.generation + 1, arena |-> a,
      refs |-> kept \cup {File("Directory", a)} \cup new] :
        a \in root.last["Directory"] .. next["Directory"],
        kept \in SUBSET root.directory.refs,
        new \in SUBSET {File("Segment", next["Segment"])}}

\* New values and the active arena must lie at or above the active cohort's
\* limits, or the cohort is invalidated before the installation.
certify_install(d, next) ==
    cohort.stage = "None" \/
    \A f \in d.refs \ root.directory.refs : f.id >= cycle.limits[f.kind]

observe_install_KeepStamp(d, certified) ==
    IF cohort.stage = "None" THEN UNCHANGED <<cohort, coverage>>
    ELSE /\ cohort' = [cohort EXCEPT !.latest = d,
                                     !.broken = @ \/ ~certified \/ cohort.latest # root.directory]
         /\ UNCHANGED coverage

\* The chain advances from the commit the owner replaced, and the registry's
\* stamped root with it.
observe_install(d, certified) ==
    IF cohort.stage = "None" THEN UNCHANGED <<cohort, coverage>>
    ELSE /\ cohort' = [cohort EXCEPT !.latest = d,
                                     !.broken = @ \/ ~certified \/ cohort.latest # root.directory]
         /\ coverage' = IF certified /\ coverage.nonce = cohort.nonce
                          THEN [coverage EXCEPT !.root = d] ELSE NoCoverage

\* Phase one and two of a foreground commit: the batch is in the log and the
\* successor root is written while readers go on at the selected root.
StageCommit ==
    /\ Quiet
    /\ root.directory.generation < MaxCommits
    /\ \E next \in Rolls : \E d \in Successors(next) :
         /\ staged' = d
         /\ files' = files \cup Fresh(next)
         /\ root' = [root EXCEPT !.last = next]
    /\ UNCHANGED <<pins, coverage, nonce, cycle, cohort, floor, owed, evacuated, mode, faults>>

\* Phase three, under the state lock.
AdoptCommit ==
    /\ Open /\ staged # NoDirectory
    /\ root' = [root EXCEPT !.directory = staged, !.start = root.last["Segment"]]
    /\ observe_install(staged, certify_install(staged, root.last))
    /\ staged' = NoDirectory
    /\ UNCHANGED <<files, pins, nonce, cycle, floor, owed, evacuated, mode, faults>>

\* A batch that rolled and was then aborted leaves the newer empty files.
RollFile ==
    /\ Quiet
    /\ \E next \in Rolls :
         /\ next # root.last
         /\ files' = files \cup Fresh(next)
         /\ root' = [root EXCEPT !.last = next]
    /\ UNCHANGED <<staged, pins, coverage, nonce, cycle, cohort, floor, owed, evacuated,
                   mode, faults>>

\* A leaf rewritten by evacuation or packing: references move to fresh files.
Relocate ==
    /\ Quiet
    /\ root.phase \in {"Evacuating", "Packing"}
    /\ root.directory.generation < MaxCommits
    /\ \E next \in Rolls : \E d \in Successors(next) :
         /\ root.phase = "Evacuating" =>
              \E f \in root.directory.refs \ d.refs : f.id <= root.cutoff[f.kind]
         /\ files' = files \cup Fresh(next)
         /\ root' = [root EXCEPT !.last = next, !.directory = d, !.start = next["Segment"]]
         /\ observe_install(d, certify_install(d, next))
    /\ UNCHANGED <<staged, pins, nonce, cycle, floor, owed, evacuated, mode, faults>>
----------------------------------------------------------------------------
(* The compaction cycle.                                                   *)

begin_compaction ==
    /\ Quiet
    /\ root.phase = "Idle" /\ ~cycle.active
    /\ root.garbage = {} /\ root.directory # NoDirectory
    /\ \E k \in Kinds : root.last[k] > 1
    /\ root.cycle < MaxCycles
    /\ root' = [root EXCEPT !.phase = "Evacuating", !.cycle = @ + 1,
                            !.cutoff = compaction_cutoffs(root), !.source = root.directory]
    /\ owed' = NoRound
    /\ UNCHANGED <<files, staged, pins, coverage, nonce, cycle, cohort, floor, evacuated,
                   mode, faults>>

\* The worklist is exhausted: no page is left in an old arena. The segments
\* that the survey kept may still be referenced.
advance_to_reclaiming ==
    /\ Quiet
    /\ root.phase = "Evacuating"
    /\ \A f \in root.directory.refs : f.kind = "Directory" => f.id > root.cutoff[f.kind]
    /\ root' = [root EXCEPT !.phase = "Reclaiming", !.source = NoDirectory]
    /\ evacuated' = root.directory.generation
    /\ UNCHANGED <<files, staged, pins, coverage, nonce, cycle, cohort, floor, owed,
                   mode, faults>>

start_reclaim_cycle ==
    /\ Quiet
    /\ root.phase = "Reclaiming" /\ ~cycle.active
    /\ cycle' = NewCycle(ReclaimLimits(root.cutoff))
    /\ UNCHANGED <<files, root, staged, pins, coverage, nonce, cohort, floor, owed, evacuated,
                   mode, faults>>

RangeDone == cycle.active /\ cohort = NoCohort /\ root.garbage = {} /\ cycle.unprobed = {}

\* Mutant: the cycle waits for the readers that keep its files.
complete_reclaim_cycle_AwaitPins ==
    /\ Quiet
    /\ root.phase = "Reclaiming" /\ RangeDone /\ cycle.pin_retained = {}
    /\ root' = [root EXCEPT !.phase = "Packing"]
    /\ raise_floor(cycle)
    /\ cycle' = NoCycle /\ owed' = NoRound
    /\ UNCHANGED <<files, staged, pins, coverage, nonce, cohort, evacuated, mode, faults>>

complete_reclaim_cycle ==
    /\ Quiet
    /\ root.phase = "Reclaiming" /\ RangeDone
    /\ root' = [root EXCEPT !.phase = "Packing"]
    /\ raise_floor(cycle)
    /\ owed' = IF cycle.pin_retained = {} THEN NoRound
               ELSE [limits |-> cycle.limits, evacuated |-> evacuated]
    /\ cycle' = NoCycle
    /\ UNCHANGED <<files, staged, pins, coverage, nonce, cohort, evacuated, mode, faults>>

finish_compaction ==
    /\ Quiet
    /\ root.phase = "Packing"
    /\ root' = [root EXCEPT !.phase = "Idle", !.cutoff = [k \in Kinds |-> 0]]
    /\ UNCHANGED <<files, staged, pins, coverage, nonce, cycle, cohort, floor, owed, evacuated,
                   mode, faults>>

round_ready == owed # NoRound /\ ~pinned_before(owed.evacuated)

start_round ==
    /\ Quiet
    /\ root.phase = "Idle" /\ ~cycle.active /\ round_ready
    /\ cycle' = NewCycle(owed.limits)
    /\ owed' = NoRound
    /\ UNCHANGED <<files, root, staged, pins, coverage, nonce, cohort, floor, evacuated,
                   mode, faults>>

complete_round ==
    /\ Quiet
    /\ root.phase = "Idle" /\ RangeDone
    /\ raise_floor(cycle)
    /\ cycle' = NoCycle
    /\ UNCHANGED <<files, root, staged, pins, coverage, nonce, cohort, owed, evacuated,
                   mode, faults>>
----------------------------------------------------------------------------
(* One cohort.                                                             *)

CanStep == Quiet /\ root.phase \in {"Idle", "Reclaiming"} /\ cycle.active

StartCohort ==
    /\ CanStep /\ cohort = NoCohort /\ ~RangeDone
    /\ nonce' = nonce + 1
    /\ cohort' = [NoCohort EXCEPT
                    !.stage = "Collecting", !.nonce = nonce + 1,
                    !.r0 = root.directory, !.latest = root.directory,
                    !.capture = PinnedRoots, !.unwalked = PinnedRoots \cup {root.directory}]
    /\ coverage' = [nonce |-> nonce + 1, root |-> root.directory]
    /\ UNCHANGED <<files, root, staged, pins, cycle, floor, owed, evacuated, mode, faults>>

\* Identifiers are probed in order until the batch of present files is full,
\* skipping the arena of R0's own root page.
collect ==
    /\ CanStep /\ cohort.stage = "Collecting" /\ ~cohort.broken
    /\ LET r0Arena == {f \in cycle.unprobed : f = File("Directory", cohort.r0.arena)}
           present == (cycle.unprobed \cap files) \ r0Arena
           full == {f \in present : Cardinality({g \in present : ProbeOrder(g) <= ProbeOrder(f)})
                                       <= MAX_GARBAGE}
           probed == IF full = present THEN cycle.unprobed
                     ELSE {f \in cycle.unprobed : \E g \in full : ProbeOrder(f) <= ProbeOrder(g)}
       IN cohort' = [cohort EXCEPT !.stage = "Walking", !.candidates = full,
                                   !.probed = probed, !.skipped = r0Arena \cap probed]
    /\ UNCHANGED <<files, root, staged, pins, coverage, nonce, cycle, floor, owed, evacuated,
                   mode, faults>>

\* One whole tree per step: R0 first, then every captured root. With nothing
\* to prove, no tree is read.
walk ==
    /\ CanStep /\ cohort.stage = "Walking" /\ ~cohort.broken
    /\ \/ /\ cohort.candidates = {} \/ cohort.unwalked = {}
          /\ cohort' = [cohort EXCEPT !.stage = "Walked"]
       \/ /\ cohort.candidates # {}
          /\ \E r \in cohort.unwalked :
               /\ cohort.r0 \in cohort.unwalked => r = cohort.r0
               /\ LET hit == cohort.candidates \cap r.refs
                  IN cohort' = [cohort EXCEPT !.unwalked = @ \ {r},
                                  !.current = IF r = cohort.r0 THEN @ \cup hit ELSE @,
                                  !.pinned = IF r = cohort.r0 THEN @ ELSE @ \cup hit]
    /\ UNCHANGED <<files, root, staged, pins, coverage, nonce, cycle, floor, owed, evacuated,
                   mode, faults>>

end_coverage == coverage' = NoCoverage /\ cohort' = NoCohort

\* A finished cohort moves the cycle past what it probed and reports the
\* candidates it left in place.
Finished ==
    LET kept == (cohort.candidates \ cohort.proofs) \cup cohort.skipped
    IN /\ cycle' = [cycle EXCEPT !.unprobed = @ \ cohort.probed, !.kept = @ \cup kept,
                       !.pin_retained = @ \cup (cohort.pinned \ (cohort.current \cup cohort.proofs))]
       /\ end_coverage

mint_proofs(c) == {f \in c.candidates \ referenced(c) : file_is_retirable(root, f)}

Seal ==
    /\ CanStep /\ cohort.stage = "Walked" /\ ~cohort.broken
    /\ has_unreferenced(cohort) /\ seal(cohort)
    /\ mint_proofs(cohort) # {}
    /\ root' = [root EXCEPT !.garbage = mint_proofs(cohort)]
    /\ cohort' = [cohort EXCEPT !.stage = "Draining", !.proofs = mint_proofs(cohort)]
    /\ UNCHANGED <<files, staged, pins, coverage, nonce, cycle, floor, owed, evacuated,
                   mode, faults>>

Drain_Candidates ==
    /\ CanStep /\ cohort.stage = "Draining" /\ ~cohort.broken
    /\ \E f \in cohort.candidates :
         /\ seal(cohort)
         /\ files' = files \ {f}
         /\ root' = [root EXCEPT !.garbage = @ \ {f}]
    /\ UNCHANGED <<staged, pins, coverage, nonce, cycle, cohort, floor, owed, evacuated,
                   mode, faults>>

\* Unlink and forget one recorded file; a failure between the two leaves the
\* record of a missing file and fences the owner.
Drain ==
    /\ CanStep /\ cohort.stage = "Draining" /\ ~cohort.broken
    /\ \E f \in root.garbage :
         /\ seal(cohort) /\ f \in cohort.proofs
         /\ files' = files \ {f}
         /\ \/ root' = [root EXCEPT !.garbage = @ \ {f}] /\ UNCHANGED <<mode, faults>>
            \/ /\ faults < MaxFaults
               /\ mode' = "failed" /\ faults' = faults + 1 /\ UNCHANGED root
    /\ UNCHANGED <<staged, pins, coverage, nonce, cycle, cohort, floor, owed, evacuated>>

FinishCohort ==
    /\ CanStep /\ ~cohort.broken
    /\ \/ cohort.stage = "Walked" /\ ~has_unreferenced(cohort)
       \/ /\ cohort.stage = "Walked" /\ has_unreferenced(cohort)
          /\ seal(cohort) /\ mint_proofs(cohort) = {}
       \/ cohort.stage = "Draining" /\ root.garbage = {}
    /\ Finished
    /\ UNCHANGED <<files, root, staged, pins, nonce, floor, owed, evacuated, mode, faults>>

\* A refused admission ends a cohort that has recorded nothing yet.
local_reclaim_failure ==
    /\ CanStep /\ cohort.stage \in {"Collecting", "Walking", "Walked"} /\ faults < MaxFaults
    /\ end_coverage
    /\ faults' = faults + 1
    /\ UNCHANGED <<files, root, staged, pins, nonce, cycle, floor, owed, evacuated, mode>>
----------------------------------------------------------------------------
(* Crash and reopen.                                                       *)

\* The log record and the root of a commit being published are ordered, and
\* durable only with its last synchronization: replay and selection find the
\* commit or its predecessor. The floor is the lowest present file.
Crash ==
    /\ mode # "corrupt"
    /\ mode = "failed" \/ faults < MaxFaults
    /\ faults' = IF mode = "failed" THEN faults ELSE faults + 1
    /\ \E d \in {root.directory, IF staged = NoDirectory THEN root.directory ELSE staged} :
         /\ root' = [root EXCEPT !.directory = d,
                       !.start = IF d = root.directory THEN @ ELSE root.last["Segment"]]
         /\ evacuated' = d.generation
    /\ staged' = NoDirectory
    /\ pins' = [p \in Pins |-> NoPin] /\ coverage' = NoCoverage /\ nonce' = 0
    /\ cycle' = NoCycle /\ cohort' = NoCohort /\ owed' = NoRound
    /\ floor' = [k \in Kinds |-> Min({f.id : f \in {g \in files : g.kind = k}})]
    /\ mode' = "opening"
    /\ UNCHANGED files

\* Recorded garbage is proved again against the selected tree before any of
\* it is unlinked, and fails the reopen when it is reachable.
finish_recorded_garbage ==
    /\ mode = "opening" /\ root.garbage # {}
    /\ IF root.garbage \cap root.directory.refs # {}
         THEN mode' = "corrupt" /\ UNCHANGED <<files, root>>
         ELSE \E f \in root.garbage :
                /\ files' = files \ {f}
                /\ \/ root' = [root EXCEPT !.garbage = @ \ {f}] /\ UNCHANGED mode
                   \/ f \in files /\ mode' = "failed" /\ UNCHANGED root
    /\ UNCHANGED <<staged, pins, coverage, nonce, cycle, cohort, floor, owed, evacuated, faults>>

arm_reopen_round ==
    /\ mode = "opening" /\ root.garbage = {}
    /\ mode' = "open"
    /\ cycle' = IF /\ root.directory # NoDirectory
                   /\ (root.phase = "Idle" /\ root.cycle # 0) \/ root.phase = "Packing"
                  THEN NewCycle(ReclaimLimits(compaction_cutoffs(root))) ELSE NoCycle
    /\ UNCHANGED <<files, root, staged, pins, coverage, nonce, cohort, floor, owed, evacuated,
                   faults>>
----------------------------------------------------------------------------
Init ==
    /\ files = {File(k, 1) : k \in Kinds}
    /\ root = [directory |-> NoDirectory, start |-> 0, last |-> [k \in Kinds |-> 1],
               garbage |-> {}, phase |-> "Idle", cycle |-> 0,
               cutoff |-> [k \in Kinds |-> 0], source |-> NoDirectory]
    /\ staged = NoDirectory
    /\ pins = [p \in Pins |-> NoPin]
    /\ coverage = NoCoverage /\ nonce = 0
    /\ cycle = NoCycle /\ cohort = NoCohort
    /\ floor = [k \in Kinds |-> 1]
    /\ owed = NoRound /\ evacuated = 0
    /\ mode = "open" /\ faults = 0

Maintenance ==
    \/ advance_to_reclaiming \/ start_reclaim_cycle \/ complete_reclaim_cycle
    \/ finish_compaction \/ start_round \/ complete_round
    \/ StartCohort \/ collect \/ walk \/ Seal \/ Drain \/ FinishCohort

Next ==
    \/ \E p \in Pins : Acquire(p) \/ Release(p)
    \/ StageCommit \/ AdoptCommit \/ RollFile \/ Relocate
    \/ begin_compaction \/ Maintenance
    \/ local_reclaim_failure \/ Crash \/ finish_recorded_garbage \/ arm_reopen_round

Spec == Init /\ [][Next]_vars

\* The maintenance thread keeps calling, a commit completes, a failed owner is
\* reopened, and readers do not keep one snapshot for ever.
FairSpec ==
    /\ Spec
    /\ WF_vars(Maintenance) /\ WF_vars(AdoptCommit)
    /\ WF_vars(mode = "failed" /\ Crash)
    /\ WF_vars(finish_recorded_garbage) /\ WF_vars(arm_reopen_round)
    /\ \A p \in Pins : WF_vars(Release(p))
----------------------------------------------------------------------------
\* Type correctness of the owner's state (DiskState, Reclamation, Cohort).
TypeOK ==
    /\ files \subseteq Files /\ root \in Superblock /\ staged \in DirectoryRoot
    /\ pins \in [Pins -> [root : DirectoryRoot, stamp : Nat]]
    /\ coverage \in [nonce : Nat, root : DirectoryRoot] /\ nonce \in Nat
    /\ cycle \in ReclaimCycle /\ cohort.stage \in Stages /\ cohort.proofs \subseteq Files
    /\ floor \in PerKind /\ owed \in [limits : PerKind, evacuated : 0 .. MaxCommits]
    /\ evacuated \in 0 .. MaxCommits
    /\ mode \in {"open", "failed", "opening", "corrupt"} /\ faults \in 0 .. MaxFaults

RetainedRoots ==
    {root.directory, staged} \cup PinnedRoots
        \cup (IF root.phase = "Evacuating" THEN {root.source} ELSE {})
        \cup (IF cohort.stage = "Walking" THEN cohort.unwalked ELSE {})

\* No unlink takes a file that is still needed: every file of the selected
\* root, of a root being published, of every pinned snapshot, of the
\* evacuation worklist and of a tree a cohort still has to walk is present,
\* and so is the log from the replay start on. A proof made before commits
\* and acquisitions that run between the cohort's steps still holds when the
\* file goes (the argument at the head of reclaim.rs).
RetainedRootsReadable ==
    /\ \A r \in RetainedRoots : r.refs \subseteq files
    /\ \A i \in root.start .. root.last["Segment"] : i = 0 \/ File("Segment", i) \in files

\* What is recorded as garbage is never reachable again from the selected
\* root, a root being published or a snapshot, so a reopen that proves the
\* record afresh never has to refuse the group as corrupt.
RecordedGarbageUnreachable ==
    /\ mode # "corrupt"
    /\ \A r \in {root.directory, staged} \cup PinnedRoots : root.garbage \cap r.refs = {}

\* Commits and readers never invalidate a cohort: one that has walked its
\* trees seals at every later moment, and in a running owner recorded garbage
\* always belongs to a draining cohort that proved it. So the Invalidated
\* outcome and the recorded-garbage cohort of cohort_item are never taken.
ChurnNeverInvalidates ==
    /\ cohort.stage \in {"Walked", "Draining"} => seal(cohort)
    /\ mode = "open" /\ root.garbage # {} =>
         cohort.stage = "Draining" /\ root.garbage \subseteq cohort.proofs

\* The reclaim floor never passes a present file, which no later census or
\* cohort of this owner would look at again.
FloorHidesNothing == \A f \in files : f.id >= floor[f.kind]

\* What one cohort concluded stays true until it is used, by this owner or the
\* next: its proof, the garbage it recorded and the floor it raised.
ConclusionsStayTrue ==
    TypeOK /\ RecordedGarbageUnreachable /\ ChurnNeverInvalidates /\ FloorHidesNothing

\* A Reclaiming phase ends, whatever readers hold and however often the owner
\* is reopened in it.
ReclaimingEnds == root.phase = "Reclaiming" ~> root.phase # "Reclaiming"

\* A file that only snapshots from before the evacuation still reach is
\* unlinked by the round its cycle owes once they are released, although
\* newer snapshots come and go, unless a new cycle takes the file over.
HeldFilesAreFreed ==
    \A f \in Files :
      (/\ owed # NoRound /\ f \in files /\ f.id < owed.limits[f.kind]
       /\ f \notin root.directory.refs /\ f \notin staged.refs
       /\ \A p \in Live : f \in pins[p].root.refs => pins[p].root.generation < owed.evacuated)
      ~> (f \notin files \/ root.phase = "Evacuating")

\* Reclamation is never held up for good: a cycle ends, and what it had to leave
\* for readers follows when they are gone.
ReclamationCompletes == ReclaimingEnds /\ HeldFilesAreFreed
=============================================================================
