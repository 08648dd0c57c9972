------------------------------- MODULE KvLog -------------------------------
(***************************************************************************)
(* The commit log of the native key-value store (kasumi-kv segment.rs, as   *)
(* driven by disk_state.rs and disk_opening.rs): operation records, the     *)
(* directory record and the commit record of a batch, the roll to a new     *)
(* segment, the abort of a prepared batch, and the replay, discard and      *)
(* install of a reopening owner.                                            *)
(*                                                                          *)
(* The device is the part of group.rs that makes this hard.  `kernel` is    *)
(* what reads return; `media` is the list of synchronization points since   *)
(* the last full one.  An ordered synchronization only promises that what   *)
(* it covers reaches the medium no later than anything written afterwards,  *)
(* so a power loss keeps everything up to one of these points, tears what   *)
(* was written before the next one, and loses the rest.                     *)
(*                                                                          *)
(* Bytes are abstracted to records: positions count records, a checksum     *)
(* is the `form` of a record, the operation digest and the commit chain are *)
(* the attempt identities they cover.  The root file is the register that   *)
(* RootSlots shows it to be: a publication is found whole or not at all.    *)
(***************************************************************************)
EXTENDS Integers, Sequences, FiniteSets, SequencesExt

CONSTANTS
    Capacity,     \* records a segment holds
    MaxOps,       \* operation records of one batch
    MaxSegment,   \* bound: segment identifiers
    MaxAttempts,  \* bound: batches prepared
    MaxFaults     \* bound: I/O errors, restarts and power losses together

ASSUME LogConstants ==
    /\ Capacity \in Nat \ {0} /\ MaxOps \in Nat \ {0}
    /\ MaxSegment \in Nat \ {0} /\ MaxAttempts \in Nat /\ MaxFaults \in Nat

VARIABLES
    kernel,   \* the group's files as reads return them
    media,    \* synchronization points the device may still fall back to
    pc,       \* where the owner is in its current operation
    then,     \* what a root publication, a discard or a roll continues with
    w,        \* the SegmentWriter and the batch it holds prepared
    re,       \* the ReplayEnd of the last replay
    visible,  \* chain of the batches readers were shown (the selected root)
    denied,   \* attempts a caller was told, or an opened store shows, did not commit
    attempts, \* number of batches prepared so far
    faults    \* number of faults so far

vars == <<kernel, media, pc, then, w, re, visible, denied, attempts, faults>>

Segments == 1..MaxSegment
Attempt  == 1..MaxAttempts

-----------------------------------------------------------------------------
(* Records, files and the root.                                             *)

\* A record: its header binds kind, batch and base sequence; `att` stands for
\* the content its checksums and digests cover, and a commit also carries the
\* operation count and the chain it extends to.  form "whole" passes both
\* checksums, "hole" only the header's, "cut" only the header's because the
\* file ends inside it, "tagged" neither but shows its kind byte, "blank"
\* shows no byte that identifies it.
Forms  == {"whole", "hole", "cut", "tagged", "blank"}
Kinds  == {"op", "dir", "commit"}
Record == [kind : Kinds, batch : Attempt, base : 0..MaxAttempts,
           att : Attempt, form : Forms,
           count : 0..MaxOps, chain : Seq(Attempt)]

Rec(kind) == [kind |-> kind, batch |-> w.batch, base |-> w.last,
              att |-> attempts, form |-> "whole",
              count |-> IF kind = "commit" THEN w.total ELSE 0,
              chain |-> IF kind = "commit" THEN Append(w.chain, attempts) ELSE <<>>]

HeaderValid(r) == r.form \in {"whole", "hole", "cut"}

NoSeal   == [seg |-> 0, len |-> 0, seq |-> 0]
NoFile   == [hdr |-> "none", recs |-> <<>>]

\* pending_segment, the outstanding create intent: next_segment_id runs one
\* ahead of last_segment_id while the intent is unconfirmed.
pending_segment(root) == IF root.next > root.last + 1 THEN root.last + 1 ELSE 0

GENESIS == [seg |-> 1, off |-> 0]

\* SegmentWriter::position, GENESIS while the log has no segment.
position(x) == IF x.seg = 0 THEN GENESIS ELSE [seg |-> x.seg, off |-> x.end]

EmptyRoot ==
    [position |-> GENESIS, seq |-> 0, chain |-> <<>>,
     last |-> 0, next |-> 1, sealed |-> NoSeal]

-----------------------------------------------------------------------------
(* The device: ordered and full synchronization, and what a power loss      *)
(* leaves.  A file is a segment identifier, ArenaFile or RootFile.          *)

ArenaFile == 0
RootFile  == MaxSegment + 1

Flush(image, f) ==
    CASE f = ArenaFile -> [image EXCEPT !.arena = kernel.arena]
      [] f = RootFile  -> [image EXCEPT !.root = kernel.root]
      [] OTHER         -> [image EXCEPT !.seg[f] = kernel.seg[f]]

\* sync_ordered: a point the device may fall back to, none it must keep.
SyncOrdered(f) ==
    media' = Append(media, [base |-> Flush(Last(media).base, f), seen |-> kernel])

\* sync, sync_root, sync_names: every earlier point is durable with it.
SyncedMedia(f) ==
    LET base == Flush(Last(media).base, f) IN <<[base |-> base, seen |-> base]>>

SyncFull(f) == media' = SyncedMedia(f)

\* What may be found of a record whose write was interrupted.
Torn(r, final) ==
    {[r EXCEPT !.form = f] : f \in IF final THEN Forms ELSE Forms \ {"cut"}}

\* The ways to pick one element from every set of a family.
PickEach(F) ==
    LET open == {x \in DOMAIN F : Cardinality(F[x]) > 1}
        one(x) == CHOOSE v \in F[x] : TRUE
    IN  {[x \in DOMAIN F |-> IF x \in open THEN g[x] ELSE one(x)] :
            g \in {h \in [open -> UNION {F[x] : x \in open}] :
                       \A x \in open : h[x] \in F[x]}}

\* The records of a file between two images of it: a record both hold stays,
\* one only the newer holds may be torn, a truncation may not have happened.
TornRecords(old, new) ==
    LET lengths == IF Len(new) < Len(old) THEN {Len(old), Len(new)}
                                          ELSE Len(old)..Len(new)
        At(i, n) == IF i > Len(new) THEN {old[i]}
                    ELSE IF i > Len(old) THEN Torn(new[i], i = n)
                    ELSE IF old[i] = new[i] THEN {old[i]}
                    ELSE {old[i]} \cup Torn(new[i], i = n)
    IN  UNION {PickEach([i \in 1..n |-> At(i, n)]) : n \in lengths}

TornFiles(old, new) ==
    IF old = new THEN {old}
    ELSE IF old.hdr = new.hdr
         THEN {[hdr |-> new.hdr, recs |-> r] : r \in TornRecords(old.recs, new.recs)}
         ELSE {[hdr |-> h, recs |-> <<>>] : h \in {old.hdr, new.hdr, "torn"}}

\* The images a power loss may leave: one synchronization point whole, the
\* writes up to the next one in any part.
TornImages ==
    UNION {LET old == media[k].base
               new == IF k = Len(media) THEN kernel ELSE media[k + 1].seen
           IN  {[seg |-> files, arena |-> a, root |-> r] :
                   files \in PickEach([s \in Segments |-> TornFiles(old.seg[s], new.seg[s])]),
                   a \in {old.arena, new.arena},
                   r \in {old.root, new.root}}
           : k \in DOMAIN media}

-----------------------------------------------------------------------------
(* Replay.  A scan state folds over the records of the confirmed segments.  *)

\* Op(a, b), with a evaluated once.
Strict(Op(_, _), a, b) == CHOOSE y \in {Op(x, b) : x \in {a}} : TRUE

ScanFrom(start) ==
    [status |-> "ok", seq |-> start.seq, chain |-> start.chain,
     maxSeen |-> start.seq, batch |-> 0, ops |-> <<>>, dir |-> 0,
     attempt |-> 0, seg |-> 0, at |-> 0, resume |-> 0, damage |-> 0,
     directoryEnd |-> GENESIS]

Corrupt(st) == [st EXCEPT !.status = "corrupt"]

\* Replay::commit: the commit must close the pending batch, with its operation
\* count, operation digest, directory root and chain.
commit(st, r) ==
    IF /\ st.batch = r.batch
       /\ Len(st.ops) = r.count /\ Range(st.ops) = {r.att}
       /\ st.dir = r.att
       /\ r.chain = Append(st.chain, r.att)
    THEN [st EXCEPT !.seq = r.batch, !.chain = Append(@, r.att), !.batch = 0,
                    !.ops = <<>>, !.dir = 0, !.attempt = 0, !.resume = st.at,
                    !.directoryEnd = [seg |-> st.seg, off |-> st.at]]
    ELSE Corrupt(st)

\* Replay::record for a directory record.
directory_record(st, r) ==
    IF st.batch = r.batch /\ st.ops # <<>> /\ st.dir = 0
    THEN [st EXCEPT !.dir = r.att]
    ELSE Corrupt(st)

\* Replay::record for an operation, with pending_for: a later sequence
\* abandons trailing records that never committed.
operation_record(st, r) ==
    IF \/ st.batch = r.batch /\ st.dir # 0
       \/ st.batch > r.batch
       \/ st.batch # r.batch /\ r.batch <= st.seq
    THEN Corrupt(st)
    ELSE [st EXCEPT !.batch = r.batch, !.dir = 0,
                    !.ops = IF st.batch = r.batch THEN Append(@, r.att) ELSE <<r.att>>]

\* Replay::record: one record of a segment, at the next position.
record(old, r) ==
    LET st   == [old EXCEPT !.at = @ + 1]
        seen == [st EXCEPT !.attempt = r.batch,
                           !.maxSeen = IF r.batch > @ THEN r.batch ELSE @]
        op   == operation_record(seen, r)
        damaged(x) == [x EXCEPT !.status = "damage", !.damage = x.at]
    IN  CASE old.status # "ok"        -> old
          [] ~HeaderValid(r)          -> damaged(st)
          [] r.base # st.seq          -> Corrupt(st)
          [] r.form = "cut"           -> damaged(st)
          [] r.kind = "commit"        -> IF r.form = "hole" THEN damaged(st) ELSE commit(st, r)
          [] st.attempt \notin {0, r.batch} -> Corrupt(st)
          [] r.kind = "dir"           -> IF r.form = "hole" THEN damaged(seen)
                                         ELSE directory_record(seen, r)
          [] OTHER                    -> IF r.form = "hole" /\ op.status = "ok"
                                         THEN damaged(op) ELSE op

\* check_interrupted_write: the first record from the damage on that was not
\* written whole must be what the writer was appending there.
check_interrupted_write(st, recs, attempt) ==
    LET stops == {i \in st.damage..Len(recs) :
                     recs[i].form \notin {"whole", "hole"} \/ recs[i].kind = "commit"}
        at    == CHOOSE i \in stops : \A j \in stops : i <= j
        r     == recs[at]
        Tag(k) == r.form # "blank" /\ r.kind = k
    IN  \/ stops = {}
        \/ /\ Tag("commit")
           /\ at = st.damage /\ st.dir # 0
           /\ r.batch = st.batch /\ r.base = st.seq /\ r.att = st.dir
           /\ r.count = Len(st.ops) /\ r.chain = Append(st.chain, r.att)
        \/ /\ ~Tag("commit")
           /\ Tag("dir") => at = st.damage
           /\ \/ r.form = "blank"
              \/ attempt \in {0, r.batch} /\ r.base = st.seq

\* check_torn_tail: damage in the newest segment is a torn append unless a
\* valid header after it shows that the damaged bytes had been synchronized.
check_torn_tail(st, recs) ==
    LET valid   == {i \in st.damage..Len(recs) : HeaderValid(recs[i])}
        batches == {recs[i].batch : i \in valid}
                       \cup (IF st.attempt = 0 THEN {} ELSE {st.attempt})
        attempt == IF batches = {} THEN 0 ELSE CHOOSE b \in batches : TRUE
    IN  /\ \A i \in valid : recs[i].base = st.seq
        /\ Cardinality(batches) <= 1
        /\ \A i \in valid : recs[i].kind \in {"dir", "commit"} => i = st.damage
        /\ check_interrupted_write(st, recs, attempt)

\* One segment: from the start position in the first, from its header in the
\* others.  Damage fails closed in a sealed segment; the sealed segment the
\* root recorded must have that length and that newest commit.
replay_segment(st, s, image, start) ==
    LET file   == image.seg[s]
        root   == image.root
        from   == IF s = start.position.seg THEN start.position.off ELSE 0
        newest == s = root.last
        sealed == ~newest \/ pending_segment(root) # 0
        entry  == [st EXCEPT !.attempt = 0, !.seg = s, !.at = from, !.resume = from]
        kept(scan) ==
            /\ scan.status # "corrupt"
            /\ scan.status = "damage" => ~sealed /\ check_torn_tail(scan, file.recs)
            /\ root.sealed.seg = s =>
                  root.sealed = [seg |-> s, len |-> Len(file.recs), seq |-> scan.seq]
        end(scan, length) ==
            IF ~kept(scan) THEN Corrupt(st)
            ELSE [scan EXCEPT !.status = "ok", !.resume = IF sealed THEN length ELSE @]
    IN  IF st.status = "corrupt" THEN st
        ELSE IF file.hdr # "ok" \/ from > Len(file.recs) THEN Corrupt(st)
        ELSE Strict(end, FoldLeft(LAMBDA x, r : Strict(record, x, r), entry,
                                  SubSeq(file.recs, from + 1, Len(file.recs))),
                    Len(file.recs))

\* replay_with_policy over the confirmed segments from the start position.
replay(image, start) ==
    LET root  == image.root
        first == start.position.seg
        ids   == [i \in 1..(root.last - first + 1) |-> first + i - 1]
        pend  == pending_segment(root)
    IN  IF pend # 0 /\ image.seg[pend].recs # <<>> THEN Corrupt(ScanFrom(start))
        ELSE IF root.last = 0
             THEN IF start.position = GENESIS THEN ScanFrom(start) ELSE Corrupt(ScanFrom(start))
        ELSE IF first > root.last THEN Corrupt(ScanFrom(start))
        ELSE FoldLeft(LAMBDA st, s : Strict(LAMBDA x, id : replay_segment(x, id, image, start), st, s),
                      ScanFrom(start), ids)

-----------------------------------------------------------------------------
(* The writer.                                                              *)

StartOf(root) == [position |-> root.position, seq |-> root.seq, chain |-> root.chain]

IdleWriter(last, next, chain, seg, end) ==
    [last |-> last, next |-> next, chain |-> chain, seg |-> seg, end |-> end,
     batch |-> 0, total |-> 0, written |-> 0,
     start |-> [position |-> GENESIS, seq |-> 0, chain |-> <<>>]]

\* SegmentWriter::resume of a replay end, in the newest confirmed segment.
resume(end, seg) ==
    IdleWriter(end.seq, end.maxSeen + 1, end.chain, seg, end.resume)

NoReplay == ScanFrom([seq |-> 0, chain |-> <<>>])

\* The newest segment and its records in the kernel's image.
Active == kernel.seg[w.seg].recs

Room == w.seg # 0 /\ w.end < Capacity

Init ==
    /\ kernel = [seg |-> [s \in Segments |-> NoFile], arena |-> {}, root |-> EmptyRoot]
    /\ media = <<[base |-> kernel, seen |-> kernel]>>
    /\ pc = "idle" /\ then = "none"
    /\ w = IdleWriter(0, 1, <<>>, 0, 0)
    /\ re = NoReplay
    /\ visible = <<>> /\ denied = {} /\ attempts = 0 /\ faults = 0

\* publish of a successor root: the write; publish_root continues at `next`.
WriteRoot(root, next) ==
    /\ kernel' = [kernel EXCEPT !.root = root]
    /\ pc' = "rootSync" /\ then' = next

\* The full synchronization that ends a root publication.
SyncRoot ==
    /\ pc = "rootSync"
    /\ SyncFull(RootFile)
    /\ pc' = then /\ then' = "none"
    /\ UNCHANGED <<kernel, w, re, visible, denied, attempts, faults>>

\* Append one record to the active segment.
AppendRecord(kind, next) ==
    /\ Room
    /\ kernel' = [kernel EXCEPT !.seg[w.seg].recs = Append(@, Rec(kind))]
    /\ pc' = next
    /\ UNCHANGED <<media, then, re, visible, denied, attempts, faults>>

\* prepare_batch: the batch takes the next sequence and the current tail.
prepare_batch(total) ==
    /\ pc = "idle"
    /\ attempts < MaxAttempts
    /\ attempts' = attempts + 1
    /\ w' = [w EXCEPT !.batch = w.next, !.total = total, !.written = 0,
                      !.start = [position |-> position(w), seq |-> w.last, chain |-> w.chain]]
    /\ pc' = "ops"
    /\ UNCHANGED <<kernel, media, then, re, visible, denied, faults>>

\* write_operations: one operation record.
write_operation ==
    /\ pc = "ops" /\ w.written < w.total
    /\ AppendRecord("op", "ops")
    /\ w' = [w EXCEPT !.written = @ + 1, !.end = @ + 1]

\* write_operations: the ordered synchronization that mints the token.
SyncOperations ==
    /\ pc = "ops" /\ w.written = w.total
    /\ SyncOrdered(w.seg)
    /\ pc' = "prepared"
    /\ UNCHANGED <<kernel, then, w, re, visible, denied, attempts, faults>>

\* DirectoryMutator: the pages of the batch's directory root.
write_pages ==
    /\ pc = "prepared"
    /\ kernel' = [kernel EXCEPT !.arena = @ \cup {attempts}]
    /\ pc' = "pages"
    /\ UNCHANGED <<media, then, w, re, visible, denied, attempts, faults>>

\* DirectoryMutator::finish: the arena is ordered before the log binds it.
finish_pages ==
    /\ pc = "pages"
    /\ SyncOrdered(ArenaFile)
    /\ pc' = "dir"
    /\ UNCHANGED <<kernel, then, w, re, visible, denied, attempts, faults>>

\* write_commit: the directory (preparation) record ...
write_directory ==
    /\ pc = "dir"
    /\ AppendRecord("dir", "dirSync")
    /\ UNCHANGED w

\* ... ordered before the commit record ...
SyncDirectory ==
    /\ pc = "dirSync"
    /\ SyncOrdered(w.seg)
    /\ w' = [w EXCEPT !.end = @ + 1]
    /\ pc' = "commit"
    /\ UNCHANGED <<kernel, then, re, visible, denied, attempts, faults>>

\* ... which is appended ...
write_commit ==
    /\ pc = "commit"
    /\ AppendRecord("commit", "commitSync")
    /\ UNCHANGED w

\* ... and ordered before the root publication.
SyncCommit ==
    /\ pc = "commitSync"
    /\ SyncOrdered(w.seg)
    /\ w' = IdleWriter(w.batch, w.batch + 1, Append(w.chain, attempts), w.seg, w.end + 1)
    /\ pc' = "publish"
    /\ UNCHANGED <<kernel, then, re, visible, denied, attempts, faults>>

InstallRoot(pos, seq, chain) ==
    [kernel.root EXCEPT !.position = pos, !.seq = seq, !.chain = chain]

\* Mutant: the commit is shown to readers before the root file is synchronized.
publish_root_NoSync ==
    /\ pc = "publish"
    /\ kernel' = [kernel EXCEPT !.root = InstallRoot(position(w), w.last, w.chain)]
    /\ pc' = "select"
    /\ UNCHANGED <<media, then, w, re, visible, denied, attempts, faults>>

\* PreparedCommit::publish_root of the staged successor.
publish_root ==
    /\ pc = "publish"
    /\ WriteRoot(InstallRoot(position(w), w.last, w.chain), "select")
    /\ UNCHANGED <<media, w, re, visible, denied, attempts, faults>>

\* complete_staged: readers see the new root and the caller its commit.
complete_commit ==
    /\ pc = "select"
    /\ visible' = w.chain
    /\ pc' = "idle"
    /\ UNCHANGED <<kernel, media, then, w, re, denied, attempts, faults>>

-----------------------------------------------------------------------------
(* Rolling to a new segment, within a batch or to settle an intent.         *)

\* Mutant: the segment is not synchronized before its successor's intent.
roll_segment_NoSeal ==
    /\ \/ /\ pc \in {"ops", "dir", "commit"} /\ ~Room
          /\ pc = "ops" => w.written < w.total
          /\ kernel.root.next <= MaxSegment
          /\ pc' = "reserve"
       \/ pc = "settle" /\ pc' = "create"
    /\ then' = IF pc = "settle" THEN "opened" ELSE pc
    /\ UNCHANGED <<kernel, media, w, re, visible, denied, attempts, faults>>

\* ensure_room and settle_intent: no room, or an intent left by an earlier
\* owner.  The active segment is sealed before a successor can exist.
roll_segment ==
    /\ \/ /\ pc \in {"ops", "dir", "commit"} /\ ~Room
          /\ pc = "ops" => w.written < w.total
          /\ kernel.root.next <= MaxSegment
          /\ pc' = "reserve"
       \/ /\ pc = "settle"
          /\ pc' = "create"
    /\ then' = IF pc = "settle" THEN "opened" ELSE pc
    /\ media' = IF w.seg = 0 THEN media ELSE SyncedMedia(w.seg)
    /\ UNCHANGED <<kernel, w, re, visible, denied, attempts, faults>>

\* Roll::reserve publishes the intent with the sealed segment's extent.  The
\* publication is one step here and `then` keeps the operation that rolls.
reserve ==
    /\ pc = "reserve"
    /\ kernel' = [kernel EXCEPT !.root.next = @ + 1,
                    !.root.sealed = IF w.seg = 0 THEN NoSeal
                                    ELSE [seg |-> w.seg, len |-> w.end, seq |-> w.last]]
    /\ pc' = "reserveSync"
    /\ UNCHANGED <<media, then, w, re, visible, denied, attempts, faults>>

reserve_sync ==
    /\ pc = "reserveSync"
    /\ SyncFull(RootFile)
    /\ pc' = "create"
    /\ UNCHANGED <<kernel, then, w, re, visible, denied, attempts, faults>>

\* create, or take_over_intent of a file an interrupted roll left.
create ==
    /\ pc = "create"
    /\ kernel' = [kernel EXCEPT !.seg[pending_segment(kernel.root)] = [hdr |-> "ok", recs |-> <<>>]]
    /\ pc' = "header"
    /\ UNCHANGED <<media, then, w, re, visible, denied, attempts, faults>>

header_sync ==
    /\ pc = "header"
    /\ SyncFull(pending_segment(kernel.root))
    /\ pc' = "confirm"
    /\ UNCHANGED <<kernel, then, w, re, visible, denied, attempts, faults>>

\* Roll::confirm; then the writer appends to the new segment.
confirm ==
    /\ pc = "confirm"
    /\ kernel' = [kernel EXCEPT !.root.last = @ + 1]
    /\ pc' = "confirmSync"
    /\ UNCHANGED <<media, then, w, re, visible, denied, attempts, faults>>

confirm_sync ==
    /\ pc = "confirmSync"
    /\ SyncFull(RootFile)
    /\ w' = [w EXCEPT !.seg = kernel.root.last, !.end = 0]
    /\ pc' = then /\ then' = "none"
    /\ UNCHANGED <<kernel, re, visible, denied, attempts, faults>>

-----------------------------------------------------------------------------
(* Aborting a prepared batch after a capacity denial.                       *)

\* The records the log holds from a start position on.
RecordsFrom(pos) ==
    UNION {{kernel.seg[s].recs[i] :
               i \in (IF s = pos.seg THEN pos.off + 1 ELSE 1)..Len(kernel.seg[s].recs)} :
           s \in pos.seg..kernel.root.last}

\* The replay of the prepared prefix finds its operations and nothing else.
PreparedPrefix(end) ==
    /\ kernel.root.last = w.seg /\ pending_segment(kernel.root) = 0
    /\ Len(Active) = w.end
    /\ end.status = "ok" /\ end.damage = 0 /\ end.seq = w.last
    /\ end.batch = w.batch /\ end.dir = 0
    /\ Len(end.ops) = w.total /\ Range(end.ops) = {attempts}
    /\ \A r \in RecordsFrom(w.start.position) : r.batch = w.batch /\ r.kind = "op"

\* abort_prepared: synchronize and replay, then discard what follows the
\* newest commit.  A prefix that differs fences the writer.
abort_prepared ==
    /\ pc \in {"prepared", "pages"}
    /\ SyncFull(w.seg)
    /\ \E end \in {replay(kernel, w.start)} :
         IF PreparedPrefix(end)
         THEN re' = end /\ pc' = "discard" /\ then' = "aborted"
         ELSE pc' = "refused" /\ UNCHANGED <<re, then>>
    /\ UNCHANGED <<kernel, w, visible, denied, attempts, faults>>

\* Mutant: a segment that already ends at the resume point is not accepted.
discard_tail_NeedsTail ==
    /\ pc = "discard"
    /\ kernel.root.last # 0
    /\ LET s == kernel.root.last IN
         /\ Len(kernel.seg[s].recs) > re.resume
         /\ kernel' = [kernel EXCEPT !.seg[s].recs = SubSeq(@, 1, re.resume)]
    /\ pc' = "discardSync"
    /\ UNCHANGED <<media, then, w, re, visible, denied, attempts, faults>>

\* ReplayEnd::discard_tail: cut the newest segment back to the resume point ...
discard_tail ==
    /\ pc = "discard"
    /\ LET s == kernel.root.last IN
         IF s = 0 \/ Len(kernel.seg[s].recs) = re.resume
         THEN pc' = then /\ UNCHANGED <<kernel, then>>
         ELSE /\ kernel' = [kernel EXCEPT !.seg[s].recs = SubSeq(@, 1, re.resume)]
              /\ pc' = "discardSync" /\ UNCHANGED then
    /\ UNCHANGED <<media, w, re, visible, denied, attempts, faults>>

\* ... and synchronize it.
DiscardSync ==
    /\ pc = "discardSync"
    /\ SyncFull(kernel.root.last)
    /\ pc' = then
    /\ UNCHANGED <<kernel, then, w, re, visible, denied, attempts, faults>>

\* The writer resumes at the discarded tail; the caller gets its denial.
Aborted ==
    /\ pc = "aborted"
    /\ w' = resume(re, kernel.root.last)
    /\ denied' = denied \cup {attempts}
    /\ pc' = "idle" /\ then' = "none" /\ re' = NoReplay
    /\ UNCHANGED <<kernel, media, visible, attempts, faults>>

-----------------------------------------------------------------------------
(* Reopening.                                                               *)

\* DiskOpening::open: the selected root, repaired if it was not mirrored.
open ==
    /\ pc = "down"
    /\ SyncFull(RootFile)
    /\ pc' = "replay"
    /\ UNCHANGED <<kernel, then, w, re, visible, denied, attempts, faults>>

\* validate_directory_anchor: the record that ends at a directory's start
\* position is the whole commit of its batch, with its root and its chain.
validate_directory_anchor(start) ==
    LET file == kernel.seg[start.position.seg]
        at   == start.position.off
        r    == file.recs[at]
    IN  IF start.seq = 0
        THEN start = StartOf(EmptyRoot)
        ELSE /\ file.hdr = "ok"
             /\ at \in DOMAIN file.recs
             /\ r.kind = "commit" /\ r.batch = start.seq
             /\ r.form = "whole"
             /\ r.att = Last(start.chain) /\ r.chain = start.chain

\* Replay synchronizes the file of an outstanding intent, if there is one, and
\* the newest segment before it reads them.
SyncNewest ==
    LET pend  == pending_segment(kernel.root)
        found == IF pend # 0 /\ kernel.seg[pend] # NoFile
                 THEN Flush(Last(media).base, pend) ELSE Last(media).base
        base  == IF kernel.root.last = 0 THEN found ELSE Flush(found, kernel.root.last)
    IN  media' = <<[base |-> base, seen |-> base]>>

\* replay_roots from the selected root, whose anchor is validated first.
replay_roots ==
    /\ pc = "replay"
    /\ SyncNewest
    /\ \E end \in {replay(kernel, StartOf(kernel.root))} :
         IF validate_directory_anchor(StartOf(kernel.root)) /\ end.status = "ok"
         THEN re' = end /\ pc' = "discard" /\ then' = "install"
         ELSE pc' = "corrupt" /\ UNCHANGED <<re, then>>
    /\ UNCHANGED <<kernel, w, visible, denied, attempts, faults>>

\* install_directory of a batch that committed past the selected root, once the
\* commit replay found is validated as its anchor.
install_directory ==
    /\ pc = "install"
    /\ LET start == [position |-> re.directoryEnd, seq |-> re.seq, chain |-> re.chain] IN
         IF re.seq = kernel.root.seq
         THEN pc' = "resume" /\ UNCHANGED <<kernel, then>>
         ELSE IF validate_directory_anchor(start)
         THEN WriteRoot(InstallRoot(start.position, start.seq, start.chain), "resume")
         ELSE pc' = "corrupt" /\ UNCHANGED <<kernel, then>>
    /\ UNCHANGED <<media, w, re, visible, denied, attempts, faults>>

\* The resumed writer, which settles an outstanding intent first.
Resume ==
    /\ pc = "resume"
    /\ w' = resume(re, kernel.root.last)
    /\ re' = NoReplay /\ then' = "none"
    /\ pc' = IF pending_segment(kernel.root) # 0 THEN "settle" ELSE "opened"
    /\ UNCHANGED <<kernel, media, visible, denied, attempts, faults>>

\* The first lookup of the opening finds the pages of the selected directory.
PagesReachable(chain) == chain = <<>> \/ Last(chain) \in kernel.arena

\* The opened store shows readers the selected root, and so decides every
\* attempt whose outcome was unknown.
Opened ==
    /\ pc = "opened"
    /\ IF PagesReachable(w.chain)
       THEN /\ visible' = w.chain
            /\ denied' = denied \cup ((1..attempts) \ Range(w.chain))
            /\ pc' = "idle"
       ELSE pc' = "corrupt" /\ UNCHANGED <<visible, denied>>
    /\ UNCHANGED <<kernel, media, then, w, re, attempts, faults>>

-----------------------------------------------------------------------------
(* Faults.                                                                  *)

\* The record the owner is about to append, and what an interrupted write of
\* it or of a segment header may leave in the file.
AppendingKind ==
    CASE pc = "ops" /\ w.written < w.total -> {"op"}
      [] pc = "dir"    -> {"dir"}
      [] pc = "commit" -> {"commit"}
      [] OTHER         -> {}

PartialWrites ==
    {kernel}
    \cup {[kernel EXCEPT !.seg[w.seg].recs = Append(@, [Rec(k) EXCEPT !.form = f])] :
             k \in IF Room THEN AppendingKind ELSE {}, f \in Forms}
    \cup (IF pc = "create"
          THEN {[kernel EXCEPT !.seg[pending_segment(kernel.root)].hdr = "torn"]} ELSE {})

\* The owner is gone; what it held in memory with it.
Down ==
    /\ faults < MaxFaults
    /\ faults' = faults + 1
    /\ pc' = "down" /\ then' = "none" /\ re' = NoReplay
    /\ w' = IdleWriter(0, 0, <<>>, 0, 0)

\* Mutant: a failed commit write is reported as Rejected too.
Rejected_CommitWrite ==
    \/ pc \in {"ops", "prepared", "pages", "dir", "dirSync", "commit", "commitSync"}
    \/ then \in {"ops", "dir", "commit"} /\ pc \in {"reserve", "create", "header", "confirm"}

\* The steps whose failure is reported as Rejected: no commit record was begun.
\* In a roll these are the seal, the new file and its header, and a root
\* publication up to its first write; from there its outcome is unknown.
Rejected ==
    \/ pc \in {"ops", "prepared", "pages", "dir", "dirSync"}
    \/ pc = "commit" /\ ~Room
    \/ then \in {"ops", "dir", "commit"} /\ pc \in {"reserve", "create", "header", "confirm"}

\* A write or synchronization fails: the writer and the owner are fenced, the
\* caller is told, and the group is reopened.
IoError ==
    /\ pc \notin {"idle", "down", "corrupt", "refused"}
    /\ Down
    /\ kernel' \in PartialWrites
    /\ denied' = IF Rejected THEN denied \cup {attempts} ELSE denied
    /\ UNCHANGED <<media, visible, attempts>>

\* The process stops and is started again; the kernel keeps what was written.
Restart ==
    /\ pc \notin {"down", "corrupt", "refused"}
    /\ Down
    /\ kernel' \in PartialWrites
    /\ UNCHANGED <<media, visible, denied, attempts>>

\* The machine loses power.
PowerLoss ==
    /\ pc \notin {"corrupt", "refused"}
    /\ Down
    /\ kernel' \in TornImages
    /\ media' = <<[base |-> kernel', seen |-> kernel']>>
    /\ UNCHANGED <<visible, denied, attempts>>

-----------------------------------------------------------------------------

Batch ==
    \/ \E n \in 1..MaxOps : prepare_batch(n)
    \/ write_operation \/ SyncOperations
    \/ write_pages \/ finish_pages
    \/ write_directory \/ SyncDirectory
    \/ write_commit \/ SyncCommit
    \/ publish_root \/ SyncRoot \/ complete_commit

Roll == \/ roll_segment \/ reserve \/ reserve_sync \/ create \/ header_sync
        \/ confirm \/ confirm_sync

Abort == abort_prepared \/ discard_tail \/ DiscardSync \/ Aborted

Opening == open \/ replay_roots \/ install_directory \/ Resume \/ Opened

Next == Batch \/ Roll \/ Abort \/ Opening \/ IoError \/ Restart \/ PowerLoss

Spec == Init /\ [][Next]_vars

\* The owner's own steps run to the end of the operation they belong to; only
\* a new batch waits for a caller.
Steps == (\/ write_operation \/ SyncOperations
          \/ write_pages \/ finish_pages
          \/ write_directory \/ SyncDirectory
          \/ write_commit \/ SyncCommit
          \/ publish_root \/ SyncRoot \/ complete_commit)
         \/ Roll \/ Abort \/ Opening

FairSpec == Spec /\ WF_vars(Steps)

-----------------------------------------------------------------------------

Image(i) ==
    /\ DOMAIN i.seg = Segments
    /\ \A s \in Segments : /\ i.seg[s].hdr \in {"none", "torn", "ok"}
                           /\ Len(i.seg[s].recs) <= Capacity
                           /\ \A k \in DOMAIN i.seg[s].recs : i.seg[s].recs[k] \in Record
    /\ i.arena \subseteq Attempt
    /\ i.root.last \in 0..MaxSegment /\ i.root.next \in 1..(MaxSegment + 1)
    /\ i.root.next - i.root.last \in {1, 2}

\* The files hold records within the segment capacity, an intent is at most one
\* identifier ahead of the confirmed log, and the writer's cursor is the end of
\* the newest confirmed segment whenever no append is in flight.
TypeOK ==
    /\ Image(kernel)
    /\ \A k \in DOMAIN media : Image(media[k].base)
    /\ denied \subseteq Attempt /\ attempts \in 0..MaxAttempts /\ faults \in 0..MaxFaults
    /\ pc \in {"idle", "ops", "prepared", "pages", "dir", "commit", "publish"} =>
          /\ w.seg = kernel.root.last
          /\ w.seg # 0 => Len(Active) = w.end

\* Whatever faults interrupted earlier owners, replay accepts the log they
\* left: a torn append, an abandoned attempt or an unfinished roll is never
\* mistaken for corruption (segment.rs replay_with_policy, check_torn_tail).
ReplayAcceptsItsOwnCrashes == pc # "corrupt"

\* An abort is never refused for a log the writer itself produced: the
\* prepared prefix is always found exactly as it was written
\* (segment.rs abort_prepared).
AbortFindsItsPrefix == pc # "refused"

\* The log is always one that its own checks accept: at a replay after any crash
\* and at an abort after any roll.
LogPassesItsChecks == TypeOK /\ ReplayAcceptsItsOwnCrashes /\ AbortFindsItsPrefix

\* What readers were shown is never lost or rewritten: every later selection,
\* across failures, restarts and power losses, extends it.
SelectionsOnlyExtend == [][IsPrefix(visible, visible')]_vars

\* An attempt reported as not committed (a capacity denial, or a failure before
\* its commit record), or absent from a store that was opened after it, is never
\* found committed by a later replay.
DeniedStaysUncommitted == Range(visible) \cap denied = {}

\* An owner that went down is open again once faults stop, and a batch in
\* progress ends: the store always returns to idle.
ReturnsToIdle == []<>(pc = "idle")

=============================================================================
