---------------------------- MODULE RequestJobs ----------------------------
(***************************************************************************)
(* Custody of accepted authority requests (kasumi-authority/src/           *)
(* request_jobs.rs and the admission and shutdown of service.rs): bounded  *)
(* capacity, children that outlive their callers, the registry that keeps  *)
(* their outcomes, and a shutdown that must miss none of them.             *)
(*                                                                         *)
(* A job is one public request.  One step is what the code does under one  *)
(* lock; joining a child is atomic here, which BackgroundWork justifies.   *)
(***************************************************************************)
EXTENDS Integers, FiniteSets

CONSTANTS
    Jobs,      \* bound: the requests of one process lifetime
    Capacity,  \* AUTHORITY_REQUEST_SLOTS
    NoJob      \* no job: an empty slot

ASSUME JobsAssumption == Capacity \in Nat \ {0} /\ NoJob \notin Jobs

Slots == 1 .. Capacity
Ended == {"ok", "rejected", "panicked"}

VARIABLES
    closed,               \* the request semaphore
    caller,               \* per job: how far its caller is
    child,                \* per job: its accepted execution
    joined, reported,     \* children whose handle was joined, whose drain returned
    claimed, abandoned,   \* flags of RequestJob
    registry,             \* slot -> job
    rejections,           \* DrainReport::local of the outcomes: slot -> first job
    failures,             \* DrainReport: join errors merged so far
    shutdown, slot, target,  \* the one running shutdown: phase, census position, job it joins
    proposal,             \* the proposal mutex is held by a child
    group                 \* the Raft group

callers   == <<caller, child, claimed, abandoned>>
custody   == <<registry, rejections, failures, joined, reported>>
stopping  == <<shutdown, slot, target, group>>
vars == <<closed, callers, custody, stopping, proposal>>

----------------------------------------------------------------------------
(* Derived ownership *)

\* A RequestPermit: with its caller, then its child, then the response.
HoldsPermit(j) ==
    \/ caller[j] \in {"capacity", "owner", "admitted", "submitting"}
    \/ child[j] \in {"queued", "proposing"}
    \/ child[j] = "ok" /\ caller[j] \in {"waiting", "joining", "claimed", "returned"}

\* The permit's read guard of request_owners.
HoldsOwner(j) == HoldsPermit(j) /\ caller[j] # "capacity"

Registered(j) == \E s \in Slots : registry[s] = j

\* A budget slot lives as long as any reference to the child's cell.
Funded(j) ==
    \/ Registered(j) \/ target = j
    \/ caller[j] \in {"waiting", "joining", "claimed"}
    \/ child[j] # "none" /\ j \notin joined
    \/ child[j] = "panicked" /\ j \notin reported

\* Its handle's lock is held across somebody's await.
Awaited(j) == caller[j] = "joining" \/ target = j

----------------------------------------------------------------------------
(* observe: every admission check joins what has ended and frees slots *)

NowJoined == joined \cup
    {j \in Jobs : Registered(j) /\ child[j] \in Ended /\ ~Awaited(j)}

\* Mutant: a rejection whose caller is gone keeps its slot.
Reclaimable_Claimed(j) ==
    /\ j \in NowJoined
    /\ child[j] = "ok" \/ (child[j] = "rejected" /\ j \in claimed)

\* Successes resolve through their receipt; a rejection was delivered, or its
\* waiter will never ask for it.
Reclaimable(j) ==
    /\ j \in NowJoined
    /\ \/ child[j] = "ok"
       \/ child[j] = "rejected" /\ j \in claimed \cup abandoned

observe ==
    LET broken == {j \in NowJoined : Registered(j) /\ child[j] = "panicked"}
    IN  /\ joined' = NowJoined
        /\ failures' = failures \cup broken
        /\ closed' = (closed \/ broken # {})
        /\ rejections' = [s \in Slots |->
              IF /\ rejections[s] = NoJob /\ registry[s] # NoJob
                 /\ Reclaimable(registry[s])
                 /\ child[registry[s]] = "rejected" /\ registry[s] \notin claimed
              THEN registry[s] ELSE rejections[s]]
        /\ registry' = [s \in Slots |->
              IF registry[s] # NoJob /\ Reclaimable(registry[s]) THEN NoJob ELSE registry[s]]
        /\ UNCHANGED reported

Become(j, from, to) == caller[j] = from /\ caller' = [caller EXCEPT ![j] = to]

\* check_open on behalf of a peer, a response fence or a barrier.
CheckOpen ==
    /\ observe
    /\ UNCHANGED <<callers, stopping, proposal>>

----------------------------------------------------------------------------
(* Admission: permit, operation_owner *)

TakeCapacity(j) ==
    /\ caller[j] = "none"
    /\ observe /\ ~closed'
    /\ Cardinality({i \in Jobs : HoldsPermit(i)}) < Capacity
    /\ Become(j, "none", "capacity")
    /\ UNCHANGED <<child, claimed, abandoned, stopping, proposal>>

\* The check before it only refuses earlier than Enter's.  try_read_owned fails
\* while a writer waits for or holds request_owners.
TakeOwner(j) ==
    /\ caller[j] = "capacity"
    /\ shutdown \notin {"owners", "proposal"}
    /\ Become(j, "capacity", "owner")
    /\ UNCHANGED <<closed, child, claimed, abandoned, custody, stopping, proposal>>

\* Mutant: admission is not checked again once the guard is held.
Enter_Unchecked(j) ==
    /\ observe
    /\ Become(j, "owner", "admitted")
    /\ UNCHANGED <<child, claimed, abandoned, stopping, proposal>>

Enter(j) ==
    /\ observe
    /\ Become(j, "owner", IF closed' THEN "gone" ELSE "admitted")
    /\ UNCHANGED <<child, claimed, abandoned, stopping, proposal>>

\* A refused, failed or cancelled request releases both guards.
Leave(j) ==
    /\ caller[j] \in {"capacity", "owner", "admitted", "submitting"}
    /\ caller' = [caller EXCEPT ![j] = "gone"]
    /\ UNCHANGED <<closed, child, claimed, abandoned, custody, stopping, proposal>>

----------------------------------------------------------------------------
(* submit *)

BeginSubmit(j) ==
    /\ observe /\ ~closed'
    /\ Become(j, "admitted", "submitting")
    /\ UNCHANGED <<child, claimed, abandoned, stopping, proposal>>

\* The first free slot, under the lock that closure takes too.
Install(j, s) ==
    /\ ~closed
    /\ registry[s] = NoJob /\ \A r \in Slots : r < s => registry[r] # NoJob
    /\ Cardinality({i \in Jobs : Funded(i)}) < Capacity
    /\ Become(j, "submitting", "waiting")
    /\ child' = [child EXCEPT ![j] = "queued"]
    /\ registry' = [registry EXCEPT ![s] = j]
    /\ UNCHANGED <<closed, claimed, abandoned, rejections, failures, joined, reported,
                   stopping, proposal>>

----------------------------------------------------------------------------
(* The child *)

LockProposal(j) ==
    /\ child[j] = "queued" /\ ~proposal
    /\ child' = [child EXCEPT ![j] = "proposing"]
    /\ proposal' = TRUE
    /\ UNCHANGED <<closed, caller, claimed, abandoned, custody, stopping>>

\* A panic closes admission while it unwinds; a response nobody waits for is
\* destroyed here with its permit.
ChildEnds(j) ==
    /\ child[j] = "proposing" /\ proposal' = FALSE
    /\ \E r \in Ended :
          /\ child' = [child EXCEPT ![j] = r]
          /\ closed' = (closed \/ r = "panicked")
    /\ UNCHANGED <<caller, claimed, abandoned, custody, stopping>>

----------------------------------------------------------------------------
(* accepted_request, after submission *)

Receive(j) ==
    /\ child[j] \in Ended
    /\ Become(j, "waiting", "joining")
    /\ UNCHANGED <<closed, child, claimed, abandoned, custody, stopping, proposal>>

\* child.drain() returned; only a positive join goes on to claim.
JoinChild(j) ==
    /\ caller[j] = "joining"
    /\ joined' = joined \cup {j} /\ reported' = reported \cup {j}
    /\ \/ /\ child[j] = "panicked" /\ closed' = TRUE
          /\ Become(j, "joining", "gone") /\ abandoned' = abandoned \cup {j}
          /\ UNCHANGED claimed
       \/ /\ child[j] # "panicked"
          /\ Become(j, "joining", "claimed")
          /\ claimed' = IF Registered(j) THEN claimed \cup {j} ELSE claimed
          /\ UNCHANGED <<closed, abandoned>>
    /\ UNCHANGED <<child, registry, rejections, failures, stopping, proposal>>

\* The caller has its answer; a response keeps its permit until it is dropped.
Deliver(j) ==
    /\ observe
    /\ Become(j, "claimed", IF child[j] = "ok" THEN "returned" ELSE "answered")
    /\ abandoned' = abandoned \cup {j}
    /\ UNCHANGED <<child, claimed, stopping, proposal>>

\* The deadline passed, or the caller's future was dropped.
Abandon(j) ==
    /\ caller[j] \in {"waiting", "joining"}
    /\ caller' = [caller EXCEPT ![j] = "gone"]
    /\ abandoned' = abandoned \cup {j}
    /\ UNCHANGED <<closed, child, claimed, custody, stopping, proposal>>

DropResponse(j) ==
    /\ Become(j, "returned", "gone")
    /\ UNCHANGED <<closed, child, claimed, abandoned, custody, stopping, proposal>>

----------------------------------------------------------------------------
(* shutdown *)

\* Mutant: shutdown takes the proposal lock before it drains the children.
BeginShutdown_Proposal ==
    /\ shutdown = "idle" /\ ~proposal
    /\ proposal' = TRUE
    /\ closed' = TRUE /\ shutdown' = "census" /\ slot' = 1
    /\ UNCHANGED <<callers, custody, target, group>>

\* close, then the census of the registry.
BeginShutdown ==
    /\ shutdown = "idle"
    /\ closed' = TRUE /\ shutdown' = "census" /\ slot' = 1
    /\ UNCHANGED <<callers, custody, target, group, proposal>>

CensusPick ==
    /\ shutdown = "census" /\ target = NoJob
    /\ \/ /\ slot \in Slots /\ registry[slot] # NoJob
          /\ target' = registry[slot] /\ UNCHANGED <<shutdown, slot>>
       \/ /\ slot \in Slots /\ registry[slot] = NoJob
          /\ slot' = slot + 1 /\ UNCHANGED <<shutdown, target>>
       \/ /\ slot \notin Slots
          /\ shutdown' = "owners" /\ UNCHANGED <<slot, target>>
    /\ UNCHANGED <<closed, callers, custody, group, proposal>>

\* Mutant: a joined failure is not merged into the report.
CensusJoin_Unmerged ==
    /\ target # NoJob /\ child[target] \in Ended
    /\ joined' = joined \cup {target} /\ reported' = reported \cup {target}
    /\ registry' = [registry EXCEPT ![slot] = NoJob]
    /\ slot' = slot + 1 /\ target' = NoJob
    /\ UNCHANGED <<failures, rejections, closed, callers, shutdown, group, proposal>>

\* The child it picked was joined: merge, record an unclaimed outcome, free.
CensusJoin ==
    /\ target # NoJob /\ child[target] \in Ended
    /\ joined' = joined \cup {target} /\ reported' = reported \cup {target}
    /\ failures' = IF child[target] = "panicked" THEN failures \cup {target} ELSE failures
    /\ rejections' =
          IF child[target] = "rejected" /\ target \notin claimed /\ rejections[slot] = NoJob
          THEN [rejections EXCEPT ![slot] = target] ELSE rejections
    /\ registry' = [registry EXCEPT ![slot] = NoJob]
    /\ slot' = slot + 1 /\ target' = NoJob
    /\ UNCHANGED <<closed, callers, shutdown, group, proposal>>

LockOwners ==
    /\ shutdown = "owners"
    /\ \A j \in Jobs : ~HoldsOwner(j)
    /\ shutdown' = "proposal"
    /\ UNCHANGED <<closed, callers, custody, slot, target, group, proposal>>

StopGroup ==
    /\ shutdown = "proposal" /\ ~proposal
    /\ group' = "down" /\ shutdown' = "idle"
    /\ UNCHANGED <<closed, callers, custody, slot, target, proposal>>

\* A dropped shutdown leaves admission closed and every owner installed.
CancelShutdown ==
    /\ shutdown # "idle"
    /\ shutdown' = "idle" /\ target' = NoJob
    /\ UNCHANGED <<closed, callers, custody, slot, group, proposal>>

----------------------------------------------------------------------------
Init ==
    /\ closed = FALSE /\ proposal = FALSE /\ group = "up"
    /\ caller = [j \in Jobs |-> "none"] /\ child = [j \in Jobs |-> "none"]
    /\ joined = {} /\ reported = {} /\ claimed = {} /\ abandoned = {} /\ failures = {}
    /\ registry = [s \in Slots |-> NoJob] /\ rejections = [s \in Slots |-> NoJob]
    /\ shutdown = "idle" /\ slot = 1 /\ target = NoJob

ChildStep(j) == LockProposal(j) \/ ChildEnds(j)

CallerStep(j) ==
    \/ TakeOwner(j) \/ Enter(j) \/ Leave(j)
    \/ BeginSubmit(j) \/ \E s \in Slots : Install(j, s)
    \/ Receive(j) \/ JoinChild(j) \/ Deliver(j) \/ Abandon(j) \/ DropResponse(j)

ShutdownStep == CensusPick \/ CensusJoin \/ LockOwners \/ StopGroup

Next ==
    \/ \E j \in Jobs : TakeCapacity(j) \/ CallerStep(j) \/ ChildStep(j)
    \/ CheckOpen
    \/ BeginShutdown \/ ShutdownStep \/ CancelShutdown

Spec == Init /\ [][Next]_vars

\* Children run, callers wait only until their deadline and drop what they
\* got, admission checks go on (every Raft message makes one), and the serving
\* loop drives shutdown to its end.
Fairness ==
    /\ \A j \in Jobs : WF_vars(ChildStep(j)) /\ WF_vars(CallerStep(j))
    /\ WF_vars(CheckOpen)
    /\ WF_vars(ShutdownStep)

LiveSpec == Spec /\ Fairness

----------------------------------------------------------------------------
\* Every variable has its type.
TypeOK ==
    /\ {closed, proposal} \subseteq BOOLEAN /\ group \in {"up", "down"}
    /\ caller \in [Jobs -> {"none", "capacity", "owner", "admitted", "submitting", "waiting",
                            "joining", "claimed", "returned", "answered", "gone"}]
    /\ child \in [Jobs -> {"none", "queued", "proposing"} \cup Ended]
    /\ joined \subseteq Jobs /\ reported \subseteq Jobs /\ failures \subseteq Jobs
    /\ claimed \subseteq Jobs /\ abandoned \subseteq Jobs
    /\ registry \in [Slots -> Jobs \cup {NoJob}]
    /\ rejections \in [Slots -> Jobs \cup {NoJob}]
    /\ shutdown \in {"idle", "census", "owners", "proposal"}
    /\ slot \in 1 .. Capacity + 1 /\ target \in Jobs \cup {NoJob}

\* The Raft group is stopped under nobody: no admitted request, running child
\* or returned response outlives it, whichever shutdown was cancelled before.
GroupOutlivesRequests ==
    group = "down" =>
        \A j \in Jobs : HoldsOwner(j) => caller[j] = "owner"

\* A census that has passed every slot has joined every child: no request that
\* was being submitted when admission closed slips into a slot behind it.
CensusMissesNobody ==
    shutdown \in {"owners", "proposal"} \/ group = "down" =>
        \A j \in Jobs : child[j] # "none" => j \in joined /\ ~Registered(j)

\* Shutdown misses nobody: neither its census a child, nor the stop of the group
\* somebody who still relies on it.
ShutdownMissesNobody == CensusMissesNobody /\ GroupOutlivesRequests

\* A shutdown that reports no issue is the truth: every rejection reached its
\* own caller and no child panicked.
CleanReportIsTrue ==
    /\ group = "down" /\ failures = {} /\ \A s \in Slots : rejections[s] = NoJob
    => \A j \in Jobs :
          /\ child[j] # "panicked"
          /\ child[j] = "rejected" => caller[j] \in {"claimed", "answered"}

\* Slots held by vanished callers come back: an open registry that is full does
\* not refuse requests for ever.
SlotsComeBack ==
    (\A s \in Slots : registry[s] # NoJob) ~> (closed \/ \E s \in Slots : registry[s] = NoJob)

\* A shutdown that is not cancelled stops the group, although the children it
\* joins still need the proposal lock.
ShutdownCompletes ==
    shutdown = "census" ~> (shutdown = "idle" \/ group = "down")
=============================================================================
