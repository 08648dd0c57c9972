---------------------------- MODULE LocalJournal ----------------------------
(***************************************************************************)
(* The standalone raft group of kasumi-raft: local.rs (LocalGroup, its     *)
(* retained worker and its snapshot task), the LogStore and StateMachine   *)
(* of storage.rs they drive, the joint publication of an applied entry     *)
(* (apply_publication.rs, control.rs) and the deferred journal record of   *)
(* kasumi-store/deferred_batch.rs.                                         *)
(*                                                                         *)
(* An entry is the identity of the attempt that wrote it.  Each commit of  *)
(* the paired storage domains is one atomic step (what the store below     *)
(* promises); a crash may fall between any two of them.                    *)
(***************************************************************************)
EXTENDS Integers, Sequences, FiniteSets, Functions

CONSTANTS
    MaxIndex,          \* last journal index a behaviour reaches
    MaxAttempts,       \* client commands, refused ones included
    MaxCaptures,       \* snapshot captures
    MaxFaults,         \* storage errors and crashes
    SnapshotInterval,  \* SNAPSHOT_INTERVAL
    Chunk,             \* entries purged or truncated in one commit (21845, 16384)
    Legacy             \* last index a clustered predecessor may have written, or -1

ASSUME BoundsAssumption ==
    /\ MaxIndex \in Nat /\ MaxAttempts \in Nat /\ MaxCaptures \in Nat \ {0}
    /\ MaxFaults \in Nat /\ SnapshotInterval \in Nat \ {0}
    /\ Chunk \in Nat \ {0} /\ Legacy \in Int /\ Legacy >= -1 /\ Legacy <= MaxIndex

None == -1
Index == None .. MaxIndex
\* Legacy entries are 0..Legacy, the group's own first membership entry is
\* Legacy + 1 and the commands that clients submit follow.
Membership == Legacy + 1
Entry == 0 .. Membership + MaxAttempts
Image == 1 .. MaxCaptures      \* manifest identities, in the order of capture
NoSpan == [first |-> 0, last |-> None]
Idle == [pc |-> "idle", ids |-> <<>>]
NoBuild == [pc |-> "idle", image |-> None, target |-> None]
NoPurge == [on |-> FALSE, target |-> None, removed |-> None]

VARIABLES
    disk,     \* the two storage domains: what a crash leaves
    images,   \* the content of every image captured so far
    phase,    \* how far LocalGroup::open has come
    retained, \* LogStore.retained, the span of the headers
    served,   \* the backend's memory; its length gives AppliedState.log_id
    next,     \* LocalState.next_index
    covered,  \* LocalState.snapshot_index
    failed,   \* the fence shared by the machine and the group
    closed,   \* LocalGroup.closed
    worker,   \* the retained append worker
    snap,     \* the snapshot task
    purge,    \* a purge inside the log's I/O gate
    client,   \* attempts made, and those acknowledged and refused
    faults

vars == <<disk, images, phase, retained, served, next, covered, failed,
          closed, worker, snap, purge, client, faults>>

\* What belongs to the process.
memory == <<retained, served, next, covered, failed, closed>>
-----------------------------------------------------------------------------
(* Reading the disk. *)

LastLogId(span) == IF span = NoSpan THEN disk.purged ELSE span.last
ImagePosition(d) == IF d.current = None THEN None ELSE Len(images[d.current]) - 1

\* HeaderFold: the span of the stored headers, when they leave no hole.
Contiguous(l) == DOMAIN l = {} \/
    \E a, b \in DOMAIN l : DOMAIN l = a .. b
retained_span(l) ==
    IF DOMAIN l = {} THEN NoSpan
    ELSE [first |-> CHOOSE a \in DOMAIN l : \A i \in DOMAIN l : a <= i,
          last  |-> CHOOSE b \in DOMAIN l : \A i \in DOMAIN l : i <= b]

Including(span, i, n) ==
    [first |-> IF span = NoSpan THEN i ELSE span.first, last |-> i + n - 1]

\* The content of an image as stored rows.
RowsOf(image) == [i \in 0 .. Len(image) - 1 |-> image[i + 1]]
Extend(f, i, ids) ==
    [k \in DOMAIN f \cup i .. (i + Len(ids) - 1) |->
        IF k >= i /\ k < i + Len(ids) THEN ids[k - i + 1] ELSE f[k]]
Without(f, gone) == [k \in DOMAIN f \ gone |-> f[k]]

-----------------------------------------------------------------------------
(* The commits. *)

\* The journal record of entries ids at index i: headers and bodies, with the
\* committed cursor at the last of them.
Recorded(d, i, ids) ==
    [d EXCEPT !.log = Extend(@, i, ids), !.committed = i + Len(ids) - 1]

\* prepare_applied: a position the cursor already covers publishes only the
\* application writes; its identity must be the recorded one.
CoveredReplay(d, i) == d.applied.index >= i
ReplayMatches(d, i, id) == d.applied.index = i => d.applied.id = id
\* Mutant: a covered replay publishes nothing.
Applied_SkipsCovered(d, i, ids) ==
    LET last == i + Len(ids) - 1 IN
    IF CoveredReplay(d, last) THEN d
    ELSE [d EXCEPT !.rows = Extend(@, i, ids),
                   !.applied = [index |-> last, id |-> ids[Len(ids)]]]

Applied(d, i, ids) ==
    LET last == i + Len(ids) - 1 IN
    [d EXCEPT !.rows = Extend(@, i, ids),
              !.applied = IF CoveredReplay(d, last) THEN @
                          ELSE [index |-> last, id |-> ids[Len(ids)]]]

\* cleanup_snapshots, one commit: the chunks of a pending, then of an obsolete
\* image go before the marker that names them.
Clean(d) == d.pending = None /\ d.obsolete = None
\* Mutant: the marker goes before its chunks.
cleanup_snapshots_MarkerFirst(d) ==
    IF d.pending # None THEN [d EXCEPT !.pending = None] ELSE [d EXCEPT !.obsolete = None]

cleanup_snapshots(d) ==
    IF d.pending # None
    THEN IF d.pending \in d.chunks THEN [d EXCEPT !.chunks = @ \ {d.pending}]
                                   ELSE [d EXCEPT !.pending = None]
    ELSE IF d.obsolete \in d.chunks THEN [d EXCEPT !.chunks = @ \ {d.obsolete}]
                                    ELSE [d EXCEPT !.obsolete = None]

\* stage_snapshot: the pending marker precedes the chunks it names.
stage_marker(d, m) == [d EXCEPT !.pending = m]
stage_chunks(d, m) == [d EXCEPT !.chunks = @ \cup {m}]

\* installation_writes: an image at or past the cursor becomes the cursor.
installation_writes(applied, image) ==
    LET p == Len(image) - 1 IN
    IF p >= 0 /\ applied.index <= p THEN [index |-> p, id |-> image[p + 1]] ELSE applied

\* publish_snapshot: manifest, coverage and cursor in one commit.
publish_snapshot(d, m) ==
    [d EXCEPT !.current = m, !.pending = None, !.obsolete = d.current,
              !.coverage = m, !.applied = installation_writes(@, images[m])]

\* One chunk of a purge: a prefix of the span, with its exact cursor.
PurgeEnd(span, target) ==
    LET upto == span.first + Chunk - 1
        bound == IF target < span.last THEN target ELSE span.last
    IN IF upto < bound THEN upto ELSE bound
PurgedPrefix(d, end) ==
    [d EXCEPT !.log = Without(@, 0 .. end), !.purged = end]
-----------------------------------------------------------------------------
(* Faults. *)

Fault == faults < MaxFaults /\ faults' = faults + 1

\* A commit that reports an error took effect or did not.
Unknown(d) == disk' \in {disk, d}

\* The worker stops without a response: WorkFence closes the writer.
WorkFails ==
    /\ worker' = Idle
    /\ failed' = TRUE
    /\ UNCHANGED <<images, phase, retained, served, next, covered, closed, snap,
                   purge, client>>

BuildFails ==
    /\ snap' = NoBuild
    /\ failed' = TRUE
    /\ purge' = NoPurge
    /\ UNCHANGED <<images, phase, retained, served, next, covered, closed, worker, client>>

\* A proven capacity refusal: nothing of the attempt reached the journal.
Refused ==
    /\ client' = [client EXCEPT !.refused = @ \cup Range(worker.ids)]
    /\ worker' = Idle
    /\ UNCHANGED <<disk, images, phase, memory, snap, purge, faults>>
-----------------------------------------------------------------------------
(* Opening: LogStore::open, StateMachine::open_inner, LocalGroup::open.  An
   error of any of these steps is reported and the open is tried again, which
   is what Crash does to an opening group. *)

\* LogStore::open folds the headers; a hole is corruption.
Open ==
    /\ phase = "down"
    /\ retained' = retained_span(disk.log)
    /\ phase' = IF Contiguous(disk.log) THEN "cleaning" ELSE "corrupt"
    /\ UNCHANGED <<disk, images, served, next, covered, failed, closed, worker,
                   snap, purge, client, faults>>

OpenCleanup ==
    /\ phase = "cleaning" /\ ~Clean(disk)
    /\ disk' = cleanup_snapshots(disk)
    /\ UNCHANGED <<images, phase, memory, worker, snap, purge, client, faults>>

\* load_snapshot and validate_snapshot_coverage; the backend's application rows
\* go back to the image and the applied state to its position.
Restore ==
    /\ phase = "cleaning" /\ Clean(disk)
    /\ IF disk.current = None
       THEN phase' = "repair" /\ UNCHANGED <<disk, served>>
       ELSE IF disk.current \in disk.chunks /\ disk.coverage = disk.current
       THEN /\ phase' = "repair"
            /\ disk' = [disk EXCEPT !.rows = RowsOf(images[disk.current])]
            /\ served' = images[disk.current]
       ELSE phase' = "corrupt" /\ UNCHANGED <<disk, served>>
    /\ UNCHANGED <<images, retained, next, covered, failed, closed, worker, snap,
                   purge, client, faults>>

AppliedPosition == Len(served) - 1

\* An installed image beyond the commit cursor or the log: purge through it.
Repair ==
    /\ phase = "repair"
    /\ IF AppliedPosition # None /\
          (disk.committed < AppliedPosition \/ LastLogId(retained) < AppliedPosition)
       THEN /\ phase' = "purging"
            /\ purge' = [on |-> TRUE, target |-> AppliedPosition, removed |-> None]
       ELSE phase' = "commit" /\ UNCHANGED purge
    /\ UNCHANGED <<disk, images, memory, worker, snap, client, faults>>

\* save_committed needs the exact header or an equal purge cursor; then the
\* journal must reach the commit cursor.
RepairCommit ==
    /\ phase = "commit"
    /\ LET committed == IF disk.committed < AppliedPosition THEN AppliedPosition
                                                            ELSE disk.committed
           exact == \/ disk.committed = committed
                    \/ committed \in DOMAIN disk.log
                    \/ disk.purged = committed
           whole == LastLogId(retained) >= committed
       IN /\ disk' = [disk EXCEPT !.committed = IF exact THEN committed ELSE @]
          /\ phase' = IF exact /\ whole THEN "replay" ELSE "corrupt"
    /\ UNCHANGED <<images, memory, worker, snap, purge, client, faults>>

Replay ==
    /\ phase = "replay" /\ Len(served) <= disk.committed
    /\ LET i == Len(served) IN
       IF i \in DOMAIN disk.log /\
          (CoveredReplay(disk, i) => ReplayMatches(disk, i, disk.log[i]))
       THEN /\ disk' = Applied(disk, i, <<disk.log[i]>>)
            /\ served' = Append(served, disk.log[i])
            /\ UNCHANGED phase
       ELSE phase' = "corrupt" /\ UNCHANGED <<disk, served>>
    /\ UNCHANGED <<images, retained, next, covered, failed, closed, worker, snap,
                   purge, client, faults>>

\* Mutant: the truncation starts at the commit cursor.
Truncate_AtCommitted ==
    /\ phase = "replay" /\ Len(served) > disk.committed
    /\ LastLogId(retained) > disk.committed
    /\ LET keep == IF disk.committed > 0 THEN disk.committed ELSE 0
           from == IF keep > retained.first THEN keep ELSE retained.first
       IN /\ disk' = [disk EXCEPT !.log = Without(@, from .. retained.last)]
          /\ retained' = IF from = retained.first THEN NoSpan
                         ELSE [retained EXCEPT !.last = from - 1]
    /\ UNCHANGED <<images, phase, served, next, covered, failed, closed, worker, snap,
                   purge, client, faults>>

\* An uncommitted suffix is removed from its end.
Truncate ==
    /\ phase = "replay" /\ Len(served) > disk.committed
    /\ LastLogId(retained) > disk.committed
    /\ LET keep == disk.committed + 1
           start == IF retained.last - Chunk + 1 > keep
                    THEN retained.last - Chunk + 1 ELSE keep
           from == IF start > retained.first THEN start ELSE retained.first
       IN /\ disk' = [disk EXCEPT !.log = Without(@, from .. retained.last)]
          /\ retained' = IF from = retained.first THEN NoSpan
                         ELSE [retained EXCEPT !.last = from - 1]
    /\ UNCHANGED <<images, phase, served, next, covered, failed, closed, worker, snap,
                   purge, client, faults>>

Opened ==
    /\ phase = "replay" /\ Len(served) > disk.committed
    /\ LastLogId(retained) <= disk.committed
    /\ phase' = IF disk.committed = None THEN "first" ELSE "serving"
    /\ next' = disk.committed + 1
    /\ covered' = ImagePosition(disk)
    /\ UNCHANGED <<disk, images, retained, served, failed, closed, worker, snap, purge,
                   client, faults>>

\* An empty journal starts with its membership, appended and then applied.
FirstAppend ==
    /\ phase = "first"
    /\ disk' = Recorded(disk, 0, <<Membership>>)
    /\ retained' = Including(retained, 0, 1)
    /\ phase' = "first_apply"
    /\ UNCHANGED <<images, served, next, covered, failed, closed, worker, snap, purge,
                   client, faults>>

FirstApply ==
    /\ phase = "first_apply"
    /\ disk' = Applied(disk, 0, <<Membership>>)
    /\ served' = <<Membership>>
    /\ next' = 1
    /\ phase' = "serving"
    /\ UNCHANGED <<images, retained, covered, failed, closed, worker, snap, purge,
                   client, faults>>
-----------------------------------------------------------------------------
(* purge_original, inside the I/O gate. *)

PurgeStep ==
    /\ purge.on /\ retained # NoSpan /\ retained.first <= purge.target
    /\ LET end == PurgeEnd(retained, purge.target) IN
       /\ disk' = PurgedPrefix(disk, end)
       /\ retained' = IF end = retained.last THEN NoSpan
                      ELSE [retained EXCEPT !.first = end + 1]
       /\ purge' = [purge EXCEPT !.removed = end]
    /\ UNCHANGED <<images, phase, served, next, covered, failed, closed, worker, snap,
                   client, faults>>

PurgeDone ==
    /\ purge.on /\ (retained = NoSpan \/ retained.first > purge.target)
    /\ disk' = IF purge.removed = purge.target THEN disk
               ELSE [disk EXCEPT !.purged = purge.target]
    /\ purge' = NoPurge
    /\ phase' = IF phase = "purging" THEN "commit" ELSE phase
    /\ snap' = NoBuild
    /\ UNCHANGED <<images, memory, worker, client, faults>>

\* purge_local: a capacity refusal keeps the rest for a later snapshot.
PurgeRefused ==
    /\ purge.on /\ phase = "serving"
    /\ purge' = NoPurge
    /\ snap' = NoBuild
    /\ UNCHANGED <<disk, images, phase, memory, worker, client, faults>>

PurgeFails ==
    /\ purge.on /\ phase = "serving" /\ Fault
    /\ Unknown(IF retained # NoSpan /\ retained.first <= purge.target
               THEN PurgedPrefix(disk, PurgeEnd(retained, purge.target))
               ELSE [disk EXCEPT !.purged = purge.target])
    /\ BuildFails
-----------------------------------------------------------------------------
(* The append worker. *)

\* The log's I/O gate: a purge, or a prepared append that is not yet installed.
GateFree == ~purge.on /\ worker.pc \notin {"prepared", "recorded"}

\* append_payload and write_joined_group admit one worker at a time.
Submit(n, joined) ==
    /\ phase = "serving" /\ ~failed /\ ~closed /\ worker = Idle
    /\ next + n - 1 <= MaxIndex
    /\ client.attempts + n <= MaxAttempts
    /\ worker' = [pc |-> IF joined THEN "joined" ELSE "append",
                  ids |-> [k \in 1 .. n |-> Membership + client.attempts + k]]
    /\ client' = [client EXCEPT !.attempts = @ + n]
    /\ UNCHANGED <<disk, images, phase, memory, snap, purge, faults>>

write == Submit(1, FALSE)
write_joined == Submit(1, TRUE)
write_joined_group == Submit(2, TRUE)

\* check_append, and for a joined append that it extends the journal.
check_append ==
    /\ next > disk.committed
    /\ retained # NoSpan => retained.last + 1 = next

\* append_local: the record and the commit cursor, then the apply.
AppendLocal ==
    /\ worker.pc = "append" /\ GateFree /\ check_append
    /\ disk' = Recorded(disk, next, worker.ids)
    /\ retained' = Including(retained, next, Len(worker.ids))
    /\ worker' = [worker EXCEPT !.pc = "appended"]
    /\ UNCHANGED <<images, phase, served, next, covered, failed, closed, snap, purge,
                   client, faults>>

AppendRefused ==
    /\ worker.pc \in {"append", "joined"} /\ GateFree
    /\ Refused

AppendFails ==
    /\ worker.pc = "append" /\ GateFree /\ Fault
    /\ Unknown(Recorded(disk, next, worker.ids))
    /\ WorkFails

\* apply_serialized rechecks the fence under the state lock.
ApplyLocal ==
    /\ worker.pc = "appended" /\ ~failed
    /\ disk' = Applied(disk, next, worker.ids)
    /\ served' = served \o worker.ids
    /\ next' = next + Len(worker.ids)
    /\ worker' = [worker EXCEPT !.pc = "applied"]
    /\ UNCHANGED <<images, phase, retained, covered, failed, closed, snap, purge, client,
                   faults>>

\* prepare_local_append keeps the gate; nothing is written yet.
PrepareLocalAppend ==
    /\ worker.pc = "joined" /\ GateFree /\ check_append
    /\ worker' = [worker EXCEPT !.pc = "prepared"]
    /\ UNCHANGED <<disk, images, phase, memory, snap, purge, client, faults>>

\* The publication carries the record; install_local_append follows it.
ApplyJoined ==
    /\ worker.pc = "prepared" /\ ~failed
    /\ disk' = Applied(Recorded(disk, next, worker.ids), next, worker.ids)
    /\ served' = served \o worker.ids
    /\ retained' = Including(retained, next, Len(worker.ids))
    /\ next' = next + Len(worker.ids)
    /\ worker' = [worker EXCEPT !.pc = "applied"]
    /\ UNCHANGED <<images, phase, covered, failed, closed, snap, purge, client, faults>>

\* A refusal of a publication that carried the record proves no effect.
JoinedRefused ==
    /\ worker.pc = "prepared" /\ ~failed
    /\ Refused

\* before_write: another write of this apply commits the record by itself.
BarrierCommits ==
    /\ worker.pc = "prepared" /\ ~failed
    /\ disk' = Recorded(disk, next, worker.ids)
    /\ worker' = [worker EXCEPT !.pc = "recorded"]
    /\ UNCHANGED <<images, phase, memory, snap, purge, client, faults>>

\* The publication then applies an entry that is already committed.
ApplyRecorded ==
    /\ worker.pc = "recorded"
    /\ disk' = Applied(disk, next, worker.ids)
    /\ served' = served \o worker.ids
    /\ retained' = Including(retained, next, Len(worker.ids))
    /\ next' = next + Len(worker.ids)
    /\ worker' = [worker EXCEPT !.pc = "applied"]
    /\ UNCHANGED <<images, phase, covered, failed, closed, snap, purge, client, faults>>

\* The failure outcomes of an apply, by what its record already is.  A capacity
\* refusal of a publication that did not carry the record is a failure.
ApplyFails ==
    /\ Fault
    /\ \/ /\ worker.pc = "recorded" \/ (worker.pc = "appended" /\ ~failed)
          /\ Unknown(Applied(disk, next, worker.ids))
       \/ /\ worker.pc = "prepared" /\ ~failed
          /\ \/ Unknown(Recorded(disk, next, worker.ids))
             \/ Unknown(Applied(Recorded(disk, next, worker.ids), next, worker.ids))
    /\ WorkFails

\* The snapshot task fenced the machine between this worker's two steps.
ApplyFenced ==
    /\ worker.pc \in {"appended", "prepared"} /\ failed
    /\ WorkFails
    /\ UNCHANGED <<disk, faults>>
-----------------------------------------------------------------------------
(* The snapshot task: schedule_snapshot, SnapshotBuilder::build, purge_local. *)

\* The capture is ordered with commands; a refused one leaves nothing to build.
Capture ==
    \/ /\ Len(images) < MaxCaptures
       /\ images' = Append(images, served)
       /\ snap' = [pc |-> "captured", image |-> Len(images) + 1, target |-> None]
    \/ UNCHANGED <<images, snap>>

schedule_snapshot ==
    IF snap.pc # "idle" THEN UNCHANGED <<images, snap, covered>>
    ELSE /\ ~failed
         /\ Capture
         /\ covered' = next - 1

Due == next - (covered + 1) >= SnapshotInterval

\* The worker schedules a due snapshot, then answers.
Finish ==
    /\ worker.pc = "applied"
    /\ IF Due THEN schedule_snapshot ELSE UNCHANGED <<images, snap, covered>>
    /\ client' = [client EXCEPT !.acked = @ \cup Range(worker.ids)]
    /\ worker' = Idle
    /\ UNCHANGED <<disk, phase, retained, served, next, failed, closed, purge, faults>>

\* A fence raised meanwhile is an error of a due schedule: no response.
FinishFenced ==
    /\ worker.pc = "applied" /\ Due /\ snap.pc = "idle" /\ failed
    /\ WorkFails
    /\ UNCHANGED <<disk, faults>>

TriggerSnapshot ==
    /\ phase = "serving" /\ ~failed /\ ~closed /\ worker = Idle /\ snap.pc = "idle"
    /\ schedule_snapshot
    /\ UNCHANGED <<disk, phase, retained, served, next, failed, closed, worker, purge,
                   client, faults>>

\* A fence ends the build; a published image that covers the capture is reused.
Build ==
    /\ snap.pc = "captured"
    /\ snap' = IF failed THEN NoBuild
               ELSE IF disk.current # None /\ ImagePosition(disk) >= Len(images[snap.image]) - 1
               THEN [snap EXCEPT !.pc = "purge", !.target = ImagePosition(disk)]
               ELSE [snap EXCEPT !.pc = "cleanup"]
    /\ UNCHANGED <<disk, images, phase, memory, worker, purge, client, faults>>

\* Cleanup before staging, and again after publication.
BuildCleanup ==
    /\ snap.pc \in {"cleanup", "published"} /\ ~Clean(disk)
    /\ disk' = cleanup_snapshots(disk)
    /\ UNCHANGED <<images, phase, memory, worker, snap, purge, client, faults>>

StagePending ==
    /\ snap.pc = "cleanup" /\ Clean(disk)
    /\ disk' = stage_marker(disk, snap.image)
    /\ snap' = [snap EXCEPT !.pc = "chunks"]
    /\ UNCHANGED <<images, phase, memory, worker, purge, client, faults>>

StageChunks ==
    /\ snap.pc = "chunks"
    /\ disk' = stage_chunks(disk, snap.image)
    /\ snap' = [snap EXCEPT !.pc = "staged"]
    /\ UNCHANGED <<images, phase, memory, worker, purge, client, faults>>

\* Publication takes the applied-state lock, which an apply holds throughout.
PublishImage ==
    /\ snap.pc = "staged" /\ worker.pc # "recorded"
    /\ disk' = publish_snapshot(disk, snap.image)
    /\ snap' = [snap EXCEPT !.pc = "published", !.target = Len(images[snap.image]) - 1]
    /\ UNCHANGED <<images, phase, memory, worker, purge, client, faults>>

\* A cleanup refused after publication leaves garbage for the next build.
StartPurge ==
    /\ snap.pc \in {"published", "purge"} /\ GateFree
    /\ purge' = [on |-> TRUE, target |-> snap.target, removed |-> None]
    /\ snap' = [snap EXCEPT !.pc = "purging"]
    /\ UNCHANGED <<disk, images, phase, memory, worker, client, faults>>

\* Mutant: a refused build starts over at once.
BuildDeferred_Retries ==
    /\ snap.pc \in {"captured", "cleanup", "chunks", "staged"}
    /\ snap' = [snap EXCEPT !.pc = "captured"]
    /\ UNCHANGED <<disk, images, phase, memory, worker, purge, client, faults>>

\* Capacity refused before publication: deferred, staged chunks left behind.
BuildDeferred ==
    /\ snap.pc \in {"captured", "cleanup", "chunks", "staged"}
    /\ snap' = NoBuild
    /\ UNCHANGED <<disk, images, phase, memory, worker, purge, client, faults>>

BuildBreaks ==
    /\ Fault
    /\ \/ /\ snap.pc \in {"cleanup", "published"} /\ ~Clean(disk)
          /\ Unknown(cleanup_snapshots(disk))
       \/ /\ snap.pc = "cleanup" /\ Clean(disk)
          /\ Unknown(stage_marker(disk, snap.image))
       \/ /\ snap.pc = "chunks" /\ Unknown(stage_chunks(disk, snap.image))
       \/ /\ snap.pc = "staged" /\ worker.pc # "recorded"
          /\ Unknown(publish_snapshot(disk, snap.image))
    /\ BuildFails
-----------------------------------------------------------------------------
(* Ending: an orderly shutdown waits for both tasks; a crash does not. *)

Shutdown ==
    /\ phase = "serving" /\ ~closed
    /\ closed' = TRUE
    /\ UNCHANGED <<disk, images, phase, retained, served, next, covered, failed, worker,
                   snap, purge, client, faults>>

Gone ==
    /\ phase' = "down"
    /\ retained' = NoSpan /\ served' = <<>> /\ next' = 0 /\ covered' = None
    /\ failed' = FALSE /\ closed' = FALSE
    /\ worker' = Idle /\ snap' = NoBuild /\ purge' = NoPurge
    /\ UNCHANGED <<disk, images, client>>

Drained ==
    /\ phase = "serving" /\ closed /\ worker = Idle /\ snap = NoBuild
    /\ Gone
    /\ UNCHANGED faults

Crash ==
    /\ phase \notin {"down", "corrupt"} /\ Fault
    /\ Gone
-----------------------------------------------------------------------------
(* What a predecessor left: nothing, or the storage of a one-voter clustered
   group at any point of its own protocol, an image installed ahead of the
   log's cursors included.  external: openraft's order of calls. *)

Fresh == [log |-> <<>>, committed |-> None, purged |-> None,
          applied |-> [index |-> None, id |-> None], rows |-> <<>>,
          current |-> None, pending |-> None, obsolete |-> None, coverage |-> None,
          chunks |-> {}]

\* The log continues the purge cursor, which no image is behind; the applied
\* cursor is committed unless an installed image set it.
LegacyGroups ==
    { g \in [purged : None .. Legacy, last : None .. Legacy, committed : None .. Legacy,
             applied : None .. Legacy, image : None .. Legacy] :
        /\ g.purged <= g.image /\ g.purged <= g.committed /\ g.committed <= g.last
        /\ g.image <= g.applied
        /\ g.applied <= g.committed \/ g.applied = g.image
        /\ g.last # None \/ g.image # None }

LegacyDisk(g) ==
    LET manifest == IF g.image = None THEN None ELSE 1 IN
    [log |-> [i \in (g.purged + 1) .. g.last |-> i], committed |-> g.committed,
     purged |-> g.purged, applied |-> [index |-> g.applied, id |-> g.applied],
     rows |-> [i \in 0 .. g.applied |-> i], current |-> manifest, pending |-> None,
     obsolete |-> None, coverage |-> manifest, chunks |-> {manifest} \ {None}]

Init ==
    /\ \/ disk = Fresh /\ images = <<>> /\ client = [attempts |-> 0, acked |-> {}, refused |-> {}]
       \/ \E g \in LegacyGroups :
            /\ disk = LegacyDisk(g)
            /\ images = IF g.image = None THEN <<>> ELSE <<[k \in 1 .. g.image + 1 |-> k - 1]>>
            /\ client = [attempts |-> 0, refused |-> {},
                         acked |-> (0 .. g.committed) \cup (0 .. g.image)]
    /\ phase = "down"
    /\ retained = NoSpan /\ served = <<>> /\ next = 0 /\ covered = None
    /\ failed = FALSE /\ closed = FALSE
    /\ worker = Idle /\ snap = NoBuild /\ purge = NoPurge
    /\ faults = 0

OpenStep == Open \/ OpenCleanup \/ Restore \/ Repair \/ RepairCommit \/ Replay
            \/ Truncate \/ Opened \/ FirstAppend \/ FirstApply
WorkStep == AppendLocal \/ AppendRefused \/ ApplyLocal \/ PrepareLocalAppend
            \/ ApplyJoined \/ JoinedRefused \/ BarrierCommits \/ ApplyRecorded
            \/ ApplyFenced \/ Finish \/ FinishFenced
SnapStep == Build \/ BuildCleanup \/ StagePending \/ StageChunks \/ PublishImage
            \/ StartPurge \/ BuildDeferred
PurgeWork == PurgeStep \/ PurgeDone \/ PurgeRefused
Breaks == AppendFails \/ ApplyFails \/ BuildBreaks \/ PurgeFails \/ Crash

Next ==
    \/ OpenStep \/ WorkStep \/ SnapStep \/ PurgeWork \/ Breaks
    \/ write \/ write_joined \/ write_joined_group
    \/ TriggerSnapshot \/ Shutdown \/ Drained

Spec == Init /\ [][Next]_vars

\* The runtime polls the opening future, the retained worker and the snapshot
\* task; nothing obliges a client to write or an owner to shut down.
FairSpec ==
    /\ Spec
    /\ WF_vars(OpenStep) /\ WF_vars(WorkStep) /\ WF_vars(SnapStep)
    /\ WF_vars(PurgeWork) /\ WF_vars(Drained)
-----------------------------------------------------------------------------
(* Properties. *)

TypeOK ==
    /\ disk.committed \in Index /\ disk.purged \in Index
    /\ DOMAIN disk.log \subseteq 0 .. MaxIndex /\ Range(disk.log) \subseteq Entry
    /\ disk.applied \in [index : Index, id : Entry \cup {None}]
    /\ DOMAIN disk.rows \subseteq 0 .. MaxIndex /\ Range(disk.rows) \subseteq Entry
    /\ {disk.current, disk.pending, disk.obsolete, disk.coverage} \subseteq Image \cup {None}
    /\ disk.chunks \subseteq Image
    /\ images \in Seq(Seq(Entry)) /\ served \in Seq(Entry)
    /\ phase \in {"down", "cleaning", "repair", "purging", "commit", "replay", "first",
                  "first_apply", "serving", "corrupt"}
    /\ retained.first \in 0 .. MaxIndex + 1 /\ retained.last \in Index
    /\ next \in 0 .. MaxIndex + 1 /\ covered \in Index
    /\ failed \in BOOLEAN /\ closed \in BOOLEAN
    /\ worker.pc \in {"idle", "append", "appended", "joined", "prepared", "recorded",
                      "applied"}
    /\ snap.pc \in {"idle", "captured", "cleanup", "chunks", "staged", "published",
                    "purge", "purging"}
    /\ purge.on \in BOOLEAN
    /\ client.acked \subseteq Entry /\ client.refused \subseteq Entry
    /\ faults \in 0 .. MaxFaults

\* The committed history as the disk can reproduce it: the published image, then
\* the journal up to the commit cursor.
Reach == IF disk.committed < ImagePosition(disk) THEN ImagePosition(disk) ELSE disk.committed
History ==
    [i \in { k \in 0 .. Reach : k <= ImagePosition(disk) \/ k \in DOMAIN disk.log } |->
        IF i <= ImagePosition(disk) THEN images[disk.current][i + 1] ELSE disk.log[i]]

\* Whatever crash, refusal or storage error ended a group, the checks of
\* LogStore::open, open_inner and LocalGroup::open pass: no hole, no missing
\* chunk, no differing coverage, no replay of another identity.
OpensWhatItLeft == phase # "corrupt"

\* A serving group has applied every acknowledged entry, each entry once, and
\* what it serves is a prefix of the committed history.
ServesAcknowledged ==
    phase = "serving" =>
        /\ client.acked \subseteq Range(served)
        /\ \A i, j \in 1 .. Len(served) : served[i] = served[j] => i = j
        /\ \A i \in 1 .. Len(served) : i - 1 \in DOMAIN History /\ History[i - 1] = served[i]

\* Nothing of an attempt answered with LocalAppendCapacityDenied is ever stored,
\* replayed or served.
RefusedNeverAppears ==
    client.refused \cap (Range(disk.log) \cup Range(disk.rows) \cup Range(served)
                         \cup UNION { Range(images[k]) : k \in DOMAIN images }) = {}

\* An applied position and the application rows of its entry become durable
\* together: rows never pass the cursor, and they reach it once a group serves.
PositionAndEffectsTogether ==
    /\ DOMAIN disk.rows = 0 .. Cardinality(DOMAIN disk.rows) - 1
    /\ DOMAIN disk.rows \subseteq 0 .. disk.applied.index
    /\ phase = "serving" => DOMAIN disk.rows = 0 .. disk.applied.index
    /\ disk.applied.index \in DOMAIN disk.rows => disk.rows[disk.applied.index] = disk.applied.id

\* The published image keeps its chunks through staging, publication and cleanup,
\* and every stored chunk has a marker that a cleanup will follow.
ImageChunksAccounted ==
    /\ disk.current # None => disk.current \in disk.chunks
    /\ disk.chunks \subseteq {disk.current, disk.pending, disk.obsolete}

\* The in-memory span every append, read and purge relies on is the stored one,
\* and an append that was admitted extends it past the commit cursor.
SpanMirrorsJournal ==
    /\ (phase \notin {"down", "corrupt"} /\ ~failed /\ worker.pc # "recorded")
          => retained = retained_span(disk.log)
    /\ worker.pc \in {"append", "joined"} => check_append

\* A group opens whatever its predecessor left, and what it keeps in memory of
\* the journal and of its images is what is stored.
JournalOpens ==
    TypeOK /\ OpensWhatItLeft /\ SpanMirrorsJournal /\ ImageChunksAccounted

\* What is served is exactly what was committed: everything acknowledged, nothing
\* refused, and never a position without its rows or the reverse.
ServesCommitted ==
    ServesAcknowledged /\ RefusedNeverAppears /\ PositionAndEffectsTogether

\* Nothing rewrites or loses a committed entry: not a purge, a publication, a
\* truncation, a replay or a repair.
HistoryOnlyGrows ==
    [][/\ \A i \in DOMAIN History : i \in DOMAIN History' /\ History'[i] = History[i]
       /\ disk'.purged >= disk.purged]_vars

\* An opening ends, a submitted write is answered or fenced, a snapshot task
\* ends, and a shutdown drains.
TasksEnd ==
    /\ phase \notin {"down", "serving"} ~> phase \in {"down", "serving"}
    /\ worker # Idle ~> worker = Idle
    /\ snap # NoBuild ~> snap = NoBuild
    /\ closed ~> phase = "down"

=============================================================================
