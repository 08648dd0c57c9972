------------------------- MODULE LocalJournalProofs -------------------------
(***************************************************************************)
(* A group opens whatever its predecessor left and serves exactly what was *)
(* committed, for any bound on the journal, the commands, the captures and *)
(* the faults, and any predecessor.                                        *)
(*                                                                         *)
(* The invariant speaks of the committed history h itself, of the last     *)
(* stored index e and of the last application row r: a state is sound when *)
(* there are such h, e and r, and a step only ever makes h longer.         *)
(***************************************************************************)
EXTENDS LocalJournal, FiniteSetTheorems, SequenceTheorems, TLAPS

Partial == UNION {[S -> Entry] : S \in SUBSET (0 .. MaxIndex)}
Marks == Image \cup {None}
Disks ==
    [log : Partial, committed : Index, purged : Index,
     applied : [index : Index, id : Entry \cup {None}], rows : Partial,
     current : Marks, pending : Marks, obsolete : Marks, coverage : Marks,
     chunks : SUBSET Image]

\* The position of the published image, for the images im.
Position(d, im) == IF d.current = None THEN None ELSE Len(im[d.current]) - 1

StartOf(s, h) == Len(s) <= Len(h) /\ \A i \in 1 .. Len(s) : s[i] = h[i]

----------------------------------------------------------------------------
(* The disk *)

\* The journal: what follows the purge cursor, which no image is behind.  With the
\* published image it covers the history; what is stored past it is a legacy suffix.
JournalSound(d, im, h, e) ==
    /\ Len(h) = (IF d.committed < Position(d, im) THEN Position(d, im) ELSE d.committed) + 1
    /\ d.purged <= Position(d, im) /\ d.purged <= e
    /\ DOMAIN d.log = (d.purged + 1) .. e
    /\ Position(d, im) + 1 < Len(h) => Len(h) <= e + 1
    /\ \A i \in DOMAIN d.log :
         IF i < Len(h) THEN d.log[i] = h[i + 1] ELSE d.log[i] <= Legacy

\* The applied cursor and the application rows, which do not pass it.
RowsSound(d, im, h, r) ==
    /\ Position(d, im) <= d.applied.index /\ d.applied.index < Len(h)
    /\ d.applied.index >= 0 => d.applied.id = h[d.applied.index + 1]
    /\ DOMAIN d.rows = 0 .. r /\ r <= d.applied.index
    /\ \A i \in 0 .. r : d.rows[i] = h[i + 1]

\* The published image has its chunks; every other chunk has a marker.
ChunksSound(d, im) ==
    /\ {d.current, d.pending, d.obsolete} \subseteq DOMAIN im \cup {None}
    /\ d.coverage = d.current
    /\ d.current # None => d.current \in d.chunks
    /\ d.chunks \subseteq {d.current, d.pending, d.obsolete}
    /\ d.pending # None => d.pending # d.current
    /\ d.obsolete # None => d.obsolete # d.current

\* Every image is a start of the history.
ImagesSound(im, h) ==
    /\ im \in Seq(Seq(Entry)) /\ Len(im) <= MaxCaptures
    /\ \A k \in 1 .. Len(im) : StartOf(im[k], h)

DiskSound(d, im, h, e, r) ==
    /\ d \in Disks /\ h \in Seq(Entry) /\ e \in Index /\ r \in Index
    /\ \A i, j \in 1 .. Len(h) : h[i] = h[j] => i = j
    /\ JournalSound(d, im, h, e) /\ RowsSound(d, im, h, r)
    /\ ChunksSound(d, im) /\ ImagesSound(im, h)

----------------------------------------------------------------------------
(* The process *)

Span(q, x) == IF x = q THEN NoSpan ELSE [first |-> q + 1, last |-> x]

\* While appends or a purge may still use it, the span in memory ends at x, where the
\* journal does, unless the worker failed or a barrier committed the record of a
\* prepared append.
SpanAt(e, x) ==
    /\ x \in disk.purged .. e /\ retained = Span(disk.purged, x)
    /\ ~failed /\ worker.pc # "recorded" => x = e
    /\ phase = "serving" => next - 1 <= x
    /\ worker.pc = "recorded" => x = next - 1
SpanSound(e) == ~failed \/ snap.pc # "idle" => \E x \in Index : SpanAt(e, x)

Phases == {"down", "cleaning", "repair", "purging", "commit", "replay", "first",
           "first_apply", "serving"}

\* How far an opening has come, and what it has established by then.
OpenSound(h, e, r) ==
    /\ phase \in Phases
    /\ phase # "serving" => worker = Idle /\ snap = NoBuild /\ ~failed /\ ~closed
    /\ phase \in {"down", "cleaning", "first", "first_apply"} => served = <<>>
    /\ phase \in {"repair", "purging", "commit"} =>
         Len(served) = ImagePosition(disk) + 1 /\ StartOf(served, h) /\ ImagePosition(disk) <= r
    /\ phase = "purging" => disk.committed <= ImagePosition(disk)
    /\ phase = "commit" => Len(h) <= e + 1 /\ Len(h) - 1 \in {disk.committed, disk.purged}
    /\ phase \in {"replay", "first", "first_apply", "serving"} =>
         disk.committed = Len(h) - 1 /\ Len(h) <= e + 1
    /\ phase = "replay" =>
         ImagePosition(disk) < Len(served) /\ Len(served) <= r + 1 /\ StartOf(served, h)
    /\ phase = "first" => Len(h) = 0 /\ e = None
    /\ phase = "first_apply" => h = <<Membership>> /\ e = 0 /\ r = None /\ disk.applied.index = None

PurgeSound ==
    /\ purge \in [on : BOOLEAN, target : Index, removed : Index]
    /\ ~purge.on => purge = NoPurge
    /\ purge.on =>
         /\ purge.target = ImagePosition(disk)
         /\ purge.removed # None => purge.removed = disk.purged
         /\ phase = "purging" \/ (phase = "serving" /\ snap.pc = "purging"
                                    /\ worker.pc \notin {"prepared", "recorded"})
    /\ phase = "purging" \/ snap.pc = "purging" => purge.on

SnapPcs == {"idle", "captured", "cleanup", "chunks", "staged", "published", "purge", "purging"}

\* What a build has done by its step.
SnapSound ==
    /\ snap \in [pc : SnapPcs, image : Marks, target : Index]
    /\ snap.pc = "idle" => snap = NoBuild
    /\ snap.pc # "idle" => snap.image \in DOMAIN images
    /\ snap.pc \in {"captured", "cleanup", "chunks", "staged"} => snap.image # disk.current
    /\ snap.pc \in {"cleanup", "chunks", "staged"} =>
         ImagePosition(disk) < Len(images[snap.image])
    /\ snap.pc \in {"chunks", "staged"} => disk.pending = snap.image /\ disk.obsolete = None
    /\ snap.pc = "staged" => snap.image \in disk.chunks
    /\ snap.pc \in {"published", "purge"} => snap.target = ImagePosition(disk)

WorkPcs == {"idle", "append", "appended", "joined", "prepared", "recorded", "applied"}

\* What a serving group holds, by the step of its worker.
ServeSound(h, e, r) ==
    /\ e + 1 = Len(h) /\ r = disk.applied.index
    /\ next = Len(served) /\ StartOf(served, h)
    /\ next - 1 <= r
    /\ \A k \in 1 .. Len(images) : Len(images[k]) <= next
    /\ client.acked \subseteq Range(served)
    /\ worker.pc = "idle" /\ ~failed => Len(h) = next
    /\ worker.pc \in {"append", "joined", "prepared"} =>
         Len(h) = next /\ next + Len(worker.ids) - 1 <= MaxIndex
    /\ worker.pc \in {"append", "joined"} /\ retained # NoSpan => retained.last + 1 = next
    /\ worker.pc \in {"appended", "recorded"} =>
         /\ Len(h) = next + Len(worker.ids) /\ r = next - 1
         /\ \A k \in 1 .. Len(worker.ids) : h[next + k] = worker.ids[k]
    /\ worker.pc = "applied" => Len(h) = next /\ Range(worker.ids) \subseteq Range(served)

\* Attempts are numbered after everything stored, and a refused one is not stored.
ClientSound(h) ==
    /\ client \in [attempts : 0 .. MaxAttempts, acked : SUBSET Entry, refused : SUBSET Entry]
    /\ worker \in [pc : WorkPcs, ids : Seq(Entry)]
    /\ worker.pc = "idle" => worker = Idle
    /\ worker.pc # "idle" => Len(worker.ids) > 0
    /\ client.acked \subseteq Range(h)
    /\ \A i \in 1 .. Len(h) : h[i] <= Membership + client.attempts /\ h[i] \notin client.refused
    /\ \A x \in client.refused : x > Membership /\ x <= Membership + client.attempts
    /\ \A i, j \in 1 .. Len(worker.ids) :
         /\ worker.ids[i] = worker.ids[j] => i = j
         /\ worker.ids[i] > Membership /\ worker.ids[i] <= Membership + client.attempts
         /\ worker.ids[i] \notin client.refused
    /\ worker.pc \in {"append", "joined", "prepared"} =>
         \A i \in 1 .. Len(worker.ids), j \in 1 .. Len(h) : worker.ids[i] # h[j]

MemorySound ==
    /\ retained \in [first : 0 .. MaxIndex + 1, last : Index]
    /\ served \in Seq(Entry) /\ next \in 0 .. MaxIndex + 1 /\ covered \in Index
    /\ failed \in BOOLEAN /\ closed \in BOOLEAN /\ faults \in 0 .. MaxFaults

Sound(h, e, r) ==
    /\ DiskSound(disk, images, h, e, r)
    /\ phase # "down" => SpanSound(e)
    /\ phase = "serving" => ServeSound(h, e, r)
    /\ OpenSound(h, e, r) /\ PurgeSound /\ SnapSound /\ ClientSound(h) /\ MemorySound

JournalInv == \E h \in Seq(Entry), e, r \in Index : Sound(h, e, r)

----------------------------------------------------------------------------
(* The operators on stored rows *)

\* The bounds, as the numbers they are.
LEMMA Bounds ==
    /\ MaxIndex \in Nat /\ MaxAttempts \in Nat /\ MaxCaptures \in Nat \ {0} /\ MaxFaults \in Nat
    /\ Chunk \in Nat \ {0} /\ Legacy \in Int /\ Legacy >= -1 /\ Legacy <= MaxIndex
    /\ None = -1 /\ Membership \in Nat /\ Membership = Legacy + 1
    /\ Index = -1 .. MaxIndex /\ Entry = 0 .. Membership + MaxAttempts
  BY BoundsAssumption DEF None, Membership, Index, Entry

\* Stored rows, as a function on their positions.
LEMMA PartialOut ==
    ASSUME NEW f \in Partial
    PROVE  f \in [DOMAIN f -> Entry] /\ DOMAIN f \subseteq 0 .. MaxIndex
  BY DEF Partial

\* A function on positions is a set of stored rows.
LEMMA PartialIn ==
    ASSUME NEW S \in SUBSET (0 .. MaxIndex), NEW f \in [S -> Entry]
    PROVE  f \in Partial
  BY DEF Partial

\* Extend writes ids at i and leaves the rest.
LEMMA ExtendIs ==
    ASSUME NEW f \in Partial, NEW i \in Nat, NEW ids \in Seq(Entry),
           i + Len(ids) - 1 <= MaxIndex
    PROVE  /\ Extend(f, i, ids) \in Partial
           /\ DOMAIN Extend(f, i, ids) = DOMAIN f \cup i .. (i + Len(ids) - 1)
           /\ \A k \in DOMAIN f : k < i \/ k >= i + Len(ids) => Extend(f, i, ids)[k] = f[k]
           /\ \A k \in i .. (i + Len(ids) - 1) : Extend(f, i, ids)[k] = ids[k - i + 1]
<1>1. f \in [DOMAIN f -> Entry] /\ DOMAIN f \subseteq 0 .. MaxIndex
  BY PartialOut
<1>2. Len(ids) \in Nat /\ \A k \in 1 .. Len(ids) : ids[k] \in Entry
  OBVIOUS
<1> DEFINE S == DOMAIN f \cup i .. (i + Len(ids) - 1)
<1>3. S \in SUBSET (0 .. MaxIndex)
  BY <1>1, <1>2, Bounds
<1>4. \A k \in S : k \in Int /\ (IF k >= i /\ k < i + Len(ids) THEN ids[k - i + 1] ELSE f[k]) \in Entry
  <2> SUFFICES ASSUME NEW k \in S
               PROVE  k \in Int /\ (IF k >= i /\ k < i + Len(ids) THEN ids[k - i + 1] ELSE f[k]) \in Entry
    OBVIOUS
  <2>1. k \in Int
    BY <1>3, Bounds
  <2>2. CASE k >= i /\ k < i + Len(ids)
    <3>1. k - i + 1 \in 1 .. Len(ids)
      BY <1>2, <2>1, <2>2
    <3> QED
      BY <1>2, <2>1, <2>2, <3>1
  <2>3. CASE ~(k >= i /\ k < i + Len(ids))
    BY <1>1, <1>2, <2>1, <2>3
  <2> QED
    BY <2>2, <2>3
<1>5. Extend(f, i, ids) = [k \in S |-> IF k >= i /\ k < i + Len(ids) THEN ids[k - i + 1] ELSE f[k]]
  BY DEF Extend
<1>6. Extend(f, i, ids) \in [S -> Entry]
  BY <1>4, <1>5
<1>7. Extend(f, i, ids) \in Partial
  BY <1>3, <1>6, PartialIn
<1>8. \A k \in S : Extend(f, i, ids)[k] = IF k >= i /\ k < i + Len(ids) THEN ids[k - i + 1] ELSE f[k]
  BY <1>5
<1>9. \A k \in i .. (i + Len(ids) - 1) : k >= i /\ k < i + Len(ids)
  BY <1>2
<1>10. \A k \in DOMAIN f : k < i \/ k >= i + Len(ids) => ~(k >= i /\ k < i + Len(ids))
  BY <1>2, <1>4
<1>11. DOMAIN Extend(f, i, ids) = S
  BY <1>6
<1> HIDE DEF S
<1>12. DOMAIN f \subseteq S /\ i .. (i + Len(ids) - 1) \subseteq S
  BY DEF S
<1> QED
  BY <1>7, <1>8, <1>9, <1>10, <1>11, <1>12 DEF S

\* Without removes rows and leaves the rest.
LEMMA WithoutIs ==
    ASSUME NEW f \in Partial, NEW gone
    PROVE  /\ Without(f, gone) \in Partial /\ DOMAIN Without(f, gone) = DOMAIN f \ gone
           /\ \A k \in DOMAIN f \ gone : Without(f, gone)[k] = f[k]
<1>1. f \in [DOMAIN f -> Entry] /\ DOMAIN f \subseteq 0 .. MaxIndex
  BY PartialOut
<1>2. Without(f, gone) \in [DOMAIN f \ gone -> Entry]
  BY <1>1 DEF Without
<1>3. DOMAIN f \ gone \in SUBSET (0 .. MaxIndex)
  BY <1>1
<1>4. Without(f, gone) \in Partial
  BY <1>2, <1>3, PartialIn
<1> QED
  BY <1>1, <1>4 DEF Without

\* A longer history.
LEMMA ConcatIs ==
    ASSUME NEW h \in Seq(Entry), NEW ids \in Seq(Entry)
    PROVE  /\ h \o ids \in Seq(Entry) /\ Len(h \o ids) = Len(h) + Len(ids)
           /\ Len(h) \in Nat /\ Len(ids) \in Nat
           /\ \A i \in 1 .. Len(h) : (h \o ids)[i] = h[i]
           /\ \A k \in 1 .. Len(ids) : (h \o ids)[Len(h) + k] = ids[k]
  OBVIOUS

----------------------------------------------------------------------------
(* What each commit does to a sound disk *)

\* What a sound disk says, with its positions as numbers.
LEMMA Numbers ==
    ASSUME NEW d, NEW im, NEW h, NEW e, NEW r, DiskSound(d, im, h, e, r)
    PROVE  /\ d \in Disks /\ h \in Seq(Entry) /\ Len(h) \in Nat /\ Len(h) <= MaxIndex + 1
           /\ d.log \in Partial /\ d.rows \in Partial
           /\ d.applied \in [index : Index, id : Entry \cup {None}]
           /\ Position(d, im) \in Int /\ Position(d, im) >= -1 /\ Position(d, im) < Len(h)
           /\ e \in Int /\ e <= MaxIndex /\ d.purged >= -1 /\ d.purged \in Int
           /\ d.purged <= Position(d, im) /\ d.purged <= e
           /\ d.committed \in Int /\ d.committed >= -1 /\ d.committed < Len(h)
           /\ d.applied.index \in Int /\ d.applied.index < Len(h)
           /\ Position(d, im) <= d.applied.index
           /\ r \in Int /\ r >= -1 /\ r <= d.applied.index
           /\ DOMAIN d.log = (d.purged + 1) .. e /\ DOMAIN d.rows = 0 .. r
           /\ \A i \in DOMAIN d.log : i < Len(h) => d.log[i] = h[i + 1]
           /\ \A i \in DOMAIN d.log : i >= Len(h) => d.log[i] <= Legacy
           /\ \A i \in 0 .. r : d.rows[i] = h[i + 1]
           /\ d.applied.index >= 0 => d.applied.id = h[d.applied.index + 1]
           /\ Position(d, im) + 1 < Len(h) => Len(h) <= e + 1
           /\ Len(h) = (IF d.committed < Position(d, im) THEN Position(d, im) ELSE d.committed) + 1
           /\ im \in Seq(Seq(Entry)) /\ Len(im) \in Nat /\ Len(im) <= MaxCaptures
           /\ \A k \in 1 .. Len(im) : StartOf(im[k], h) /\ im[k] \in Seq(Entry) /\ Len(im[k]) \in Nat
           /\ \A i, j \in 1 .. Len(h) : h[i] = h[j] => i = j
           /\ DOMAIN im = 1 .. Len(im)
<1>1. d \in Disks /\ h \in Seq(Entry) /\ e \in Index /\ r \in Index /\ Len(h) \in Nat
  BY DEF DiskSound
<1>2. /\ d.committed \in Index /\ d.purged \in Index
      /\ d.applied \in [index : Index, id : Entry \cup {None}]
      /\ d.log \in Partial /\ d.rows \in Partial
  BY <1>1 DEF Disks
<1>3. /\ im \in Seq(Seq(Entry)) /\ Len(im) \in Nat /\ Len(im) <= MaxCaptures
      /\ \A k \in 1 .. Len(im) : StartOf(im[k], h) /\ im[k] \in Seq(Entry) /\ Len(im[k]) \in Nat
      /\ DOMAIN im = 1 .. Len(im)
  BY DEF DiskSound, ImagesSound
<1>4. Position(d, im) \in Int /\ Position(d, im) >= -1
  <2>1. CASE d.current = None
    BY <2>1, Bounds DEF Position
  <2>2. CASE d.current # None
    <3>1. d.current \in DOMAIN im
      BY <2>2 DEF DiskSound, ChunksSound
    <3> QED
      BY <1>3, <2>2, <3>1 DEF Position
  <2> QED
    BY <2>1, <2>2
<1>5. JournalSound(d, im, h, e) /\ RowsSound(d, im, h, r) /\ \A i, j \in 1 .. Len(h) : h[i] = h[j] => i = j
  BY DEF DiskSound
<1>6. d.applied.index \in Index
  BY <1>2
<1>7. /\ Position(d, im) <= d.applied.index /\ d.applied.index < Len(h) /\ r <= d.applied.index
      /\ DOMAIN d.rows = 0 .. r /\ \A i \in 0 .. r : d.rows[i] = h[i + 1]
      /\ d.applied.index >= 0 => d.applied.id = h[d.applied.index + 1]
  BY <1>5 DEF RowsSound
<1>8. /\ d.purged <= Position(d, im) /\ d.purged <= e
      /\ Len(h) = (IF d.committed < Position(d, im) THEN Position(d, im) ELSE d.committed) + 1
      /\ DOMAIN d.log = (d.purged + 1) .. e
      /\ Position(d, im) + 1 < Len(h) => Len(h) <= e + 1
  BY <1>5 DEF JournalSound
<1>9. /\ \A i \in DOMAIN d.log : i < Len(h) => d.log[i] = h[i + 1]
      /\ \A i \in DOMAIN d.log : i >= Len(h) => d.log[i] <= Legacy
  <2> SUFFICES ASSUME NEW i \in DOMAIN d.log
               PROVE  /\ i < Len(h) => d.log[i] = h[i + 1]
                      /\ i >= Len(h) => d.log[i] <= Legacy
    OBVIOUS
  <2>1. IF i < Len(h) THEN d.log[i] = h[i + 1] ELSE d.log[i] <= Legacy
    BY <1>5 DEF JournalSound
  <2>2. i \in Int
    BY <1>1, <1>2, <1>8, Bounds
  <2> QED
    BY <1>1, <2>1, <2>2
<1>10. \A x \in Index : x \in Int /\ x >= -1 /\ x <= MaxIndex
  BY Bounds
<1>11. /\ e \in Int /\ e <= MaxIndex /\ d.purged >= -1 /\ d.purged \in Int
       /\ d.committed \in Int /\ d.committed >= -1 /\ r \in Int /\ r >= -1
       /\ d.applied.index \in Int /\ d.applied.index <= MaxIndex /\ d.committed <= MaxIndex
  BY <1>1, <1>2, <1>6, <1>10
<1>12. Position(d, im) < Len(h) /\ d.committed < Len(h)
  BY <1>1, <1>4, <1>8, <1>11
<1>13. Len(h) <= MaxIndex + 1
  <2>1. MaxIndex \in Int
    BY Bounds
  <2>2. /\ Position(d, im) <= d.applied.index /\ d.applied.index <= MaxIndex
        /\ d.committed <= MaxIndex /\ d.committed \in Int /\ d.applied.index \in Int
    BY <1>7, <1>11, Zenon
  <2>3. Len(h) = (IF d.committed < Position(d, im) THEN Position(d, im) ELSE d.committed) + 1
    BY <1>8, Zenon
  <2> QED
    BY <1>4, <2>1, <2>2, <2>3
<1>14. /\ d \in Disks /\ h \in Seq(Entry) /\ Len(h) \in Nat /\ Len(h) <= MaxIndex + 1
       /\ d.log \in Partial /\ d.rows \in Partial
       /\ d.applied \in [index : Index, id : Entry \cup {None}]
  BY <1>1, <1>2, <1>13, Zenon
<1>15. /\ Position(d, im) \in Int /\ Position(d, im) >= -1 /\ Position(d, im) < Len(h)
       /\ e \in Int /\ e <= MaxIndex /\ d.purged >= -1 /\ d.purged \in Int
       /\ d.purged <= Position(d, im) /\ d.purged <= e
       /\ d.committed \in Int /\ d.committed >= -1 /\ d.committed < Len(h)
  BY <1>4, <1>8, <1>11, <1>12, Zenon
<1>16. /\ d.applied.index \in Int /\ d.applied.index < Len(h)
       /\ Position(d, im) <= d.applied.index
       /\ r \in Int /\ r >= -1 /\ r <= d.applied.index
       /\ DOMAIN d.rows = 0 .. r /\ \A i \in 0 .. r : d.rows[i] = h[i + 1]
       /\ d.applied.index >= 0 => d.applied.id = h[d.applied.index + 1]
  BY <1>7, <1>11, Zenon
<1>17. \A i, j \in 1 .. Len(h) : h[i] = h[j] => i = j
  BY <1>5, Zenon
<1> QED
  BY <1>3, <1>8, <1>9, <1>14, <1>15, <1>16, <1>17, Zenon

\* The journal record of new entries makes the history longer by them.
LEMMA RecordedSound ==
    ASSUME NEW d, NEW im, NEW h, NEW e, NEW r, DiskSound(d, im, h, e, r),
           e + 1 = Len(h), d.committed = Len(h) - 1,
           NEW ids \in Seq(Entry), Len(ids) > 0, Len(h) + Len(ids) - 1 <= MaxIndex,
           \A i, j \in 1 .. Len(ids) : ids[i] = ids[j] => i = j,
           \A i \in 1 .. Len(ids), j \in 1 .. Len(h) : ids[i] # h[j]
    PROVE  /\ DiskSound(Recorded(d, Len(h), ids), im, h \o ids, Len(h) + Len(ids) - 1, r)
           /\ Recorded(d, Len(h), ids).committed = Len(h) + Len(ids) - 1
           /\ Recorded(d, Len(h), ids).purged = d.purged
           /\ Recorded(d, Len(h), ids).applied = d.applied
           /\ Recorded(d, Len(h), ids).current = d.current
           /\ Recorded(d, Len(h), ids).pending = d.pending
           /\ Recorded(d, Len(h), ids).obsolete = d.obsolete
           /\ Recorded(d, Len(h), ids).chunks = d.chunks
<1> DEFINE n == Len(ids)
<1>1. d \in Disks /\ h \in Seq(Entry) /\ Len(h) \in Nat /\ n \in Nat /\ d.log \in Partial
  BY Numbers
<1>2. PICK g : g = h \o ids
  OBVIOUS
<1>3. /\ g \in Seq(Entry) /\ Len(g) = Len(h) + n
      /\ \A i \in 1 .. Len(h) : g[i] = h[i]
      /\ \A k \in 1 .. n : g[Len(h) + k] = ids[k]
  BY <1>1, <1>2, ConcatIs
<1>4. PICK l : l = Extend(d.log, Len(h), ids)
  OBVIOUS
<1>5. /\ l \in Partial /\ DOMAIN l = DOMAIN d.log \cup Len(h) .. (Len(h) + n - 1)
      /\ \A k \in DOMAIN d.log : k < Len(h) \/ k >= Len(h) + n => l[k] = d.log[k]
      /\ \A k \in Len(h) .. (Len(h) + n - 1) : l[k] = ids[k - Len(h) + 1]
  <2>1. /\ Extend(d.log, Len(h), ids) \in Partial
        /\ DOMAIN Extend(d.log, Len(h), ids) = DOMAIN d.log \cup Len(h) .. (Len(h) + Len(ids) - 1)
        /\ \A k \in DOMAIN d.log : k < Len(h) \/ k >= Len(h) + Len(ids) =>
                                    Extend(d.log, Len(h), ids)[k] = d.log[k]
        /\ \A k \in Len(h) .. (Len(h) + Len(ids) - 1) :
              Extend(d.log, Len(h), ids)[k] = ids[k - Len(h) + 1]
    BY <1>1, ExtendIs, ZenonT(40)
  <2>2. l \in Partial /\ DOMAIN l = DOMAIN d.log \cup Len(h) .. (Len(h) + n - 1)
    BY <1>4, <2>1
  <2>3. \A k \in DOMAIN d.log : k < Len(h) \/ k >= Len(h) + n => l[k] = d.log[k]
    BY <1>4, <2>1
  <2>4. \A k \in Len(h) .. (Len(h) + n - 1) : l[k] = ids[k - Len(h) + 1]
    BY <1>4, <2>1
  <2> QED
    BY <2>2, <2>3, <2>4, Zenon
<1>6. PICK z : z = Recorded(d, Len(h), ids)
  OBVIOUS
<1>7. Len(h) + n - 1 \in Index
  BY <1>1, Bounds
<1>8. /\ z \in Disks /\ z.log = l /\ z.committed = Len(h) + n - 1
      /\ z.purged = d.purged /\ z.applied = d.applied /\ z.rows = d.rows /\ z.current = d.current
      /\ z.pending = d.pending /\ z.obsolete = d.obsolete /\ z.coverage = d.coverage
      /\ z.chunks = d.chunks
  BY <1>1, <1>4, <1>5, <1>6, <1>7 DEF Recorded, Disks
<1>9. Position(z, im) = Position(d, im)
  BY <1>8 DEF Position
<1>10. JournalSound(z, im, g, Len(h) + n - 1)
  <2>1. /\ Position(d, im) \in Int /\ Position(d, im) < Len(h) /\ d.purged \in Int /\ e \in Int
        /\ d.purged <= Position(d, im) /\ d.purged <= e /\ DOMAIN d.log = (d.purged + 1) .. e
        /\ \A i \in DOMAIN d.log : i < Len(h) => d.log[i] = h[i + 1]
    BY Numbers
  <2>2. DOMAIN l = (d.purged + 1) .. (Len(h) + n - 1)
    BY <1>1, <1>5, <2>1
  <2>3. d.purged >= -1
    BY Numbers
  <2>4. ASSUME NEW i \in DOMAIN l PROVE i < Len(g) /\ l[i] = g[i + 1]
    <3>1. i \in Int /\ i >= 0 /\ i < Len(h) + n
      BY <1>1, <2>1, <2>2, <2>3, <2>4
    <3>2. CASE i < Len(h)
      <4>1. i \in DOMAIN d.log /\ i + 1 \in 1 .. Len(h)
        BY <1>1, <2>1, <2>2, <3>1, <3>2
      <4> QED
        BY <1>3, <1>5, <2>1, <3>1, <3>2, <4>1
    <3>3. CASE i >= Len(h)
      <4>1. i \in Len(h) .. (Len(h) + n - 1) /\ i - Len(h) + 1 \in 1 .. n
        BY <1>1, <3>1, <3>3
      <4>2. g[Len(h) + (i - Len(h) + 1)] = ids[i - Len(h) + 1]
        BY <1>3, <4>1
      <4>3. Len(h) + (i - Len(h) + 1) = i + 1
        BY <1>1, <4>1
      <4>4. l[i] = ids[i - Len(h) + 1]
        BY <1>5, <4>1, Zenon
      <4> QED
        BY <1>1, <1>3, <3>1, <4>1, <4>2, <4>3, <4>4
    <3> QED
      BY <1>1, <3>1, <3>2, <3>3
  <2> QED
    BY <1>1, <1>3, <1>8, <1>9, <2>1, <2>2, <2>4 DEF JournalSound
<1>11. RowsSound(z, im, g, r)
  <2>1. /\ d.applied.index \in Int /\ d.applied.index < Len(h) /\ r \in Int /\ r <= d.applied.index
        /\ Position(d, im) <= d.applied.index
        /\ d.applied.index >= 0 => d.applied.id = h[d.applied.index + 1]
        /\ DOMAIN d.rows = 0 .. r /\ \A i \in 0 .. r : d.rows[i] = h[i + 1]
    <3>1. d.applied.index \in Int /\ d.applied.index < Len(h) /\ r \in Int /\ r <= d.applied.index
          /\ Position(d, im) <= d.applied.index
      BY Numbers
    <3>2. /\ d.applied.index >= 0 => d.applied.id = h[d.applied.index + 1]
          /\ DOMAIN d.rows = 0 .. r /\ \A i \in 0 .. r : d.rows[i] = h[i + 1]
      BY DEF DiskSound, RowsSound
    <3> QED
      BY <3>1, <3>2
  <2>2. \A i \in 0 .. r : i + 1 \in 1 .. Len(h)
    BY <1>1, <2>1
  <2>3. d.applied.index >= 0 => d.applied.index + 1 \in 1 .. Len(h)
    BY <1>1, <2>1
  <2> QED
    BY <1>1, <1>3, <1>8, <1>9, <2>1, <2>2, <2>3 DEF RowsSound
<1>12. ChunksSound(z, im)
  BY <1>8 DEF DiskSound, ChunksSound
<1>13. ImagesSound(im, g)
  <2>1. im \in Seq(Seq(Entry)) /\ Len(im) <= MaxCaptures
        /\ \A k \in 1 .. Len(im) : StartOf(im[k], h) /\ Len(im[k]) \in Nat
    BY Numbers
  <2>2. ASSUME NEW k \in 1 .. Len(im) PROVE StartOf(im[k], g)
    <3>1. StartOf(im[k], h) /\ Len(im[k]) \in Nat
      BY <2>1
    <3> QED
      BY <1>1, <1>3, <3>1 DEF StartOf
  <2> QED
    BY <2>1, <2>2 DEF ImagesSound
<1>14. \A i, j \in 1 .. Len(g) : g[i] = g[j] => i = j
  <2> SUFFICES ASSUME NEW i \in 1 .. Len(g), NEW j \in 1 .. Len(g), g[i] = g[j] PROVE i = j
    OBVIOUS
  <2>1. \A x \in 1 .. Len(g) : \/ x \in 1 .. Len(h) /\ g[x] = h[x]
                               \/ x - Len(h) \in 1 .. n /\ g[x] = ids[x - Len(h)]
    <3> SUFFICES ASSUME NEW x \in 1 .. Len(g)
                 PROVE  \/ x \in 1 .. Len(h) /\ g[x] = h[x]
                        \/ x - Len(h) \in 1 .. n /\ g[x] = ids[x - Len(h)]
      OBVIOUS
    <3>1. CASE x <= Len(h)
      BY <1>1, <1>3, <3>1
    <3>2. CASE x > Len(h)
      <4>1. x - Len(h) \in 1 .. n /\ Len(h) + (x - Len(h)) = x
        BY <1>1, <1>3, <3>2
      <4>2. g[Len(h) + (x - Len(h))] = ids[x - Len(h)]
        BY <1>3, <4>1
      <4> QED
        BY <4>1, <4>2
    <3> QED
      BY <1>1, <1>3, <3>1, <3>2
  <2>2. \A a, b \in 1 .. Len(h) : h[a] = h[b] => a = b
    BY DEF DiskSound
  <2>3. CASE i \in 1 .. Len(h) /\ g[i] = h[i]
    <3>1. j \in 1 .. Len(h) /\ g[j] = h[j]
      <4>1. ASSUME NEW k \in 1 .. n, k = j - Len(h), g[j] = ids[k] PROVE FALSE
        BY <2>3, <4>1
      <4> QED
        BY <2>1, <4>1
    <3> QED
      BY <2>2, <2>3, <3>1
  <2>4. CASE i - Len(h) \in 1 .. n /\ g[i] = ids[i - Len(h)]
    <3>1. j - Len(h) \in 1 .. n /\ g[j] = ids[j - Len(h)]
      BY <2>1, <2>4
    <3>2. i - Len(h) = j - Len(h)
      BY <2>4, <3>1
    <3> QED
      BY <1>1, <1>3, <3>2
  <2> QED
    BY <2>1, <2>3, <2>4
<1>15. DiskSound(z, im, g, Len(h) + n - 1, r)
  BY <1>3, <1>7, <1>8, <1>10, <1>11, <1>12, <1>13, <1>14 DEF DiskSound
<1> QED
  BY <1>2, <1>6, <1>8, <1>15

\* Applying recorded entries publishes their rows and, when it is behind, the cursor.
LEMMA AppliedSound ==
    ASSUME NEW d, NEW im, NEW h, NEW e, NEW r, DiskSound(d, im, h, e, r),
           NEW i \in Nat, NEW ids \in Seq(Entry), Len(ids) > 0, i + Len(ids) <= Len(h), i <= r + 1,
           \A k \in 1 .. Len(ids) : h[i + k] = ids[k],
           NEW s, s = IF r < i + Len(ids) - 1 THEN i + Len(ids) - 1 ELSE r
    PROVE  /\ DiskSound(Applied(d, i, ids), im, h, e, s)
           /\ Applied(d, i, ids).committed = d.committed /\ Applied(d, i, ids).purged = d.purged
           /\ Applied(d, i, ids).log = d.log
           /\ Applied(d, i, ids).current = d.current /\ Applied(d, i, ids).pending = d.pending
           /\ Applied(d, i, ids).obsolete = d.obsolete /\ Applied(d, i, ids).chunks = d.chunks
           /\ Applied(d, i, ids).applied.index =
                IF d.applied.index < i + Len(ids) - 1 THEN i + Len(ids) - 1 ELSE d.applied.index
<1> DEFINE n == Len(ids)
<1>1. /\ d \in Disks /\ h \in Seq(Entry) /\ Len(h) \in Nat /\ n \in Nat /\ d.rows \in Partial
      /\ Len(h) <= MaxIndex + 1 /\ r \in Int /\ r >= -1 /\ d.applied.index \in Int
      /\ d.applied.index < Len(h) /\ Position(d, im) \in Int /\ Position(d, im) <= d.applied.index
      /\ d.applied \in [index : Index, id : Entry \cup {None}] /\ r <= d.applied.index
  BY Numbers
<1>2. PICK last : last = i + n - 1
  OBVIOUS
<1>3. last \in 0 .. MaxIndex /\ last < Len(h) /\ last + 1 \in 1 .. Len(h) /\ h[last + 1] = ids[n]
      /\ ids[n] \in Entry
  <2>1. n \in 1 .. n /\ i + n = last + 1
    BY <1>1, <1>2
  <2>2. h[i + n] = ids[n] /\ ids[n] \in Entry
    <3> HIDE DEF n
    <3> QED
      BY <1>1, <2>1 DEF n
  <2>3. last \in 0 .. MaxIndex /\ last < Len(h) /\ last + 1 \in 1 .. Len(h)
    <3>1. MaxIndex \in Nat
      BY Bounds
    <3> HIDE DEF n
    <3>2. n \in Nat /\ n > 0 /\ i + n <= Len(h)
      BY <1>1 DEF n
    <3> QED
      BY <1>1, <1>2, <3>1, <3>2
  <2> QED
    BY <2>1, <2>2, <2>3
<1>4. PICK w : w = Extend(d.rows, i, ids)
  OBVIOUS
<1>5. /\ w \in Partial /\ DOMAIN w = DOMAIN d.rows \cup i .. last
      /\ \A k \in DOMAIN d.rows : k < i \/ k >= i + n => w[k] = d.rows[k]
      /\ \A k \in i .. last : w[k] = ids[k - i + 1]
  <2>1. i + Len(ids) - 1 <= MaxIndex
    BY <1>1, <1>2, <1>3
  <2> QED
    BY <1>1, <1>2, <1>4, <2>1, ExtendIs, Zenon
<1>6. PICK c : c = IF d.applied.index >= last THEN d.applied ELSE [index |-> last, id |-> ids[n]]
  OBVIOUS
<1>7. /\ c \in [index : Index, id : Entry \cup {None}]
      /\ c.index = (IF d.applied.index < last THEN last ELSE d.applied.index)
      /\ d.applied.index < last => c.id = ids[n]
      /\ d.applied.index >= last => c.id = d.applied.id
  <2>1. CASE d.applied.index >= last
    BY <1>1, <1>3, <1>6, <2>1
  <2>2. CASE d.applied.index < last
    <3>1. last \in Index
      BY <1>3, Bounds
    <3>2. c = [index |-> last, id |-> ids[n]]
      BY <1>1, <1>3, <1>6, <2>2
    <3> QED
      BY <1>1, <1>3, <2>2, <3>1, <3>2
  <2> QED
    BY <1>1, <1>3, <2>1, <2>2
<1>8. PICK z : z = Applied(d, i, ids)
  OBVIOUS
<1>9. z = [d EXCEPT !.rows = w, !.applied = c]
  BY <1>1, <1>2, <1>4, <1>6, <1>8 DEF Applied, CoveredReplay, Disks
<1>10. /\ z \in Disks /\ z.rows = w /\ z.applied = c /\ z.log = d.log /\ z.committed = d.committed
       /\ z.purged = d.purged /\ z.current = d.current
       /\ z.pending = d.pending /\ z.obsolete = d.obsolete /\ z.coverage = d.coverage
       /\ z.chunks = d.chunks
  BY <1>1, <1>5, <1>7, <1>9 DEF Disks
<1>11. Position(z, im) = Position(d, im)
  BY <1>10 DEF Position
<1>12. JournalSound(z, im, h, e)
  BY <1>10, <1>11 DEF DiskSound, JournalSound
<1>13. RowsSound(z, im, h, s)
  <2>1. /\ d.applied.index >= 0 => d.applied.id = h[d.applied.index + 1]
        /\ DOMAIN d.rows = 0 .. r /\ \A k \in 0 .. r : d.rows[k] = h[k + 1]
    BY Numbers
  <2>2. DOMAIN w = 0 .. s
    BY <1>1, <1>2, <1>5, <2>1
  <2>3. ASSUME NEW k \in 0 .. s PROVE w[k] = h[k + 1]
    <3>1. CASE k \in i .. last
      <4>1. k - i + 1 \in 1 .. n /\ i + (k - i + 1) = k + 1
        BY <1>1, <1>2, <3>1
      <4>2. h[i + (k - i + 1)] = ids[k - i + 1]
        BY <4>1
      <4> QED
        BY <1>5, <3>1, <4>1, <4>2
    <3>2. CASE k \notin i .. last
      <4>1. k \in 0 .. r /\ (k < i \/ k >= i + n)
        BY <1>1, <1>2, <2>3, <3>2
      <4> QED
        BY <1>5, <2>1, <4>1
    <3> QED
      BY <3>1, <3>2
  <2>4. c.index >= 0 => c.id = h[c.index + 1]
    BY <1>1, <1>3, <1>7, <2>1
  <2>5. Position(d, im) <= c.index /\ c.index < Len(h) /\ s <= c.index
    BY <1>1, <1>2, <1>3, <1>7
  <2> QED
    BY <1>10, <1>11, <2>2, <2>3, <2>4, <2>5 DEF RowsSound
<1>14. ChunksSound(z, im)
  BY <1>10 DEF DiskSound, ChunksSound
<1>15. s \in Index
  <2>1. s = last \/ s = r
    BY <1>2
  <2>2. r \in Index
    BY DEF DiskSound
  <2>3. last \in Index
    BY <1>3, Bounds
  <2> QED
    BY <2>1, <2>2, <2>3, Zenon
<1>16. DiskSound(z, im, h, e, s)
  BY <1>10, <1>12, <1>13, <1>14, <1>15 DEF DiskSound
<1> QED
  BY <1>2, <1>7, <1>8, <1>10, <1>16

\* The fields that only the journal and the rows use.
SameRows(z, d) ==
    /\ z.log = d.log /\ z.committed = d.committed /\ z.purged = d.purged
    /\ z.applied = d.applied /\ z.rows = d.rows
SameImages(z, d) ==
    /\ z.current = d.current /\ z.pending = d.pending /\ z.obsolete = d.obsolete
    /\ z.coverage = d.coverage /\ z.chunks = d.chunks

\* A commit that leaves journal, rows and published image keeps a sound disk.
LEMMA MarkersSound ==
    ASSUME NEW d, NEW im, NEW h, NEW e, NEW r, DiskSound(d, im, h, e, r),
           NEW z \in Disks, SameRows(z, d), z.current = d.current, ChunksSound(z, im)
    PROVE  DiskSound(z, im, h, e, r) /\ Position(z, im) = Position(d, im)
<1>1. Position(z, im) = Position(d, im)
  BY DEF Position
<1>2. JournalSound(z, im, h, e)
  BY <1>1 DEF DiskSound, JournalSound, SameRows
<1>3. RowsSound(z, im, h, r)
  BY <1>1 DEF DiskSound, RowsSound, SameRows
<1> QED
  BY <1>1, <1>2, <1>3 DEF DiskSound

\* cleanup_snapshots: the chunks go before their marker, and never the published ones.
LEMMA CleanupSound ==
    ASSUME NEW d, NEW im, NEW h, NEW e, NEW r, DiskSound(d, im, h, e, r), ~Clean(d)
    PROVE  /\ DiskSound(cleanup_snapshots(d), im, h, e, r)
           /\ SameRows(cleanup_snapshots(d), d)
           /\ cleanup_snapshots(d).current = d.current
           /\ Position(cleanup_snapshots(d), im) = Position(d, im)
<1>1. d \in Disks /\ ChunksSound(d, im)
  BY DEF DiskSound
<1>2. PICK z : z = cleanup_snapshots(d)
  OBVIOUS
<1>3. \/ d.pending # None /\ d.pending \in d.chunks /\ z = [d EXCEPT !.chunks = @ \ {d.pending}]
      \/ d.pending # None /\ d.pending \notin d.chunks /\ z = [d EXCEPT !.pending = None]
      \/ d.pending = None /\ d.obsolete \in d.chunks /\ d.obsolete # None
           /\ z = [d EXCEPT !.chunks = @ \ {d.obsolete}]
      \/ d.pending = None /\ d.obsolete \notin d.chunks /\ z = [d EXCEPT !.obsolete = None]
  BY <1>2 DEF cleanup_snapshots, Clean
<1>4. z \in Disks /\ SameRows(z, d) /\ z.current = d.current
  BY <1>1, <1>3 DEF Disks, SameRows, Marks
<1>5. ChunksSound(z, im)
  <2>1. /\ {d.current, d.pending, d.obsolete} \subseteq DOMAIN im \cup {None}
        /\ d.coverage = d.current
        /\ d.current # None => d.current \in d.chunks
        /\ d.chunks \subseteq {d.current, d.pending, d.obsolete}
        /\ d.pending # None => d.pending # d.current
        /\ d.obsolete # None => d.obsolete # d.current
    BY <1>1 DEF ChunksSound
  <2>2. CASE d.pending # None /\ d.pending \in d.chunks /\ z = [d EXCEPT !.chunks = @ \ {d.pending}]
    <3>1. z.pending = d.pending /\ z.obsolete = d.obsolete /\ z.coverage = d.coverage
          /\ z.current = d.current /\ z.chunks = d.chunks \ {d.pending}
      BY <1>1, <2>2 DEF Disks
    <3> QED
      BY <2>1, <2>2, <3>1 DEF ChunksSound
  <2>3. CASE d.pending # None /\ d.pending \notin d.chunks /\ z = [d EXCEPT !.pending = None]
    <3>1. z.pending = None /\ z.obsolete = d.obsolete /\ z.coverage = d.coverage
          /\ z.current = d.current /\ z.chunks = d.chunks
      BY <1>1, <2>3 DEF Disks
    <3> QED
      BY <2>1, <2>3, <3>1 DEF ChunksSound
  <2>4. CASE d.pending = None /\ d.obsolete \in d.chunks /\ d.obsolete # None
             /\ z = [d EXCEPT !.chunks = @ \ {d.obsolete}]
    <3>1. z.pending = d.pending /\ z.obsolete = d.obsolete /\ z.coverage = d.coverage
          /\ z.current = d.current /\ z.chunks = d.chunks \ {d.obsolete}
      BY <1>1, <2>4 DEF Disks
    <3> QED
      BY <2>1, <2>4, <3>1 DEF ChunksSound
  <2>5. CASE d.pending = None /\ d.obsolete \notin d.chunks /\ z = [d EXCEPT !.obsolete = None]
    <3>1. z.pending = d.pending /\ z.obsolete = None /\ z.coverage = d.coverage
          /\ z.current = d.current /\ z.chunks = d.chunks
      BY <1>1, <2>5 DEF Disks
    <3> QED
      BY <2>1, <2>5, <3>1 DEF ChunksSound
  <2> QED
    BY <1>3, <2>2, <2>3, <2>4, <2>5
<1> QED
  BY <1>2, <1>4, <1>5, MarkersSound

\* stage_snapshot: the marker of an image that is not published, then its chunks.
LEMMA StageSound ==
    ASSUME NEW d, NEW im, NEW h, NEW e, NEW r, DiskSound(d, im, h, e, r),
           NEW m \in DOMAIN im, m # d.current
    PROVE  /\ Clean(d) => /\ DiskSound(stage_marker(d, m), im, h, e, r)
                          /\ SameRows(stage_marker(d, m), d) /\ stage_marker(d, m).current = d.current
                          /\ stage_marker(d, m).pending = m /\ stage_marker(d, m).obsolete = None
           /\ d.pending = m => /\ DiskSound(stage_chunks(d, m), im, h, e, r)
                               /\ SameRows(stage_chunks(d, m), d)
                               /\ stage_chunks(d, m).current = d.current
                               /\ stage_chunks(d, m).pending = m /\ m \in stage_chunks(d, m).chunks
                               /\ stage_chunks(d, m).obsolete = d.obsolete
<1>1. d \in Disks /\ ChunksSound(d, im) /\ m \in Image /\ None \notin Image
  <2>1. m \in 1 .. Len(im) /\ Len(im) \in Nat /\ Len(im) <= MaxCaptures
    BY Numbers
  <2> QED
    BY <2>1, Bounds DEF DiskSound, Image
<1>2. ASSUME Clean(d)
      PROVE  /\ DiskSound(stage_marker(d, m), im, h, e, r)
             /\ SameRows(stage_marker(d, m), d) /\ stage_marker(d, m).current = d.current
             /\ stage_marker(d, m).pending = m /\ stage_marker(d, m).obsolete = None
  <2>1. PICK z : z = stage_marker(d, m)
    OBVIOUS
  <2>2. /\ z \in Disks /\ SameRows(z, d) /\ z.current = d.current /\ z.pending = m
        /\ z.obsolete = None /\ z.coverage = d.coverage /\ z.chunks = d.chunks
    BY <1>1, <1>2, <2>1 DEF stage_marker, Disks, SameRows, Marks, Clean
  <2>3. d.chunks \subseteq Image
    BY <1>1 DEF Disks
  <2>4. ChunksSound(z, im)
    BY <1>1, <1>2, <2>2, <2>3 DEF ChunksSound, Clean
  <2> QED
    BY <2>1, <2>2, <2>4, MarkersSound
<1>3. ASSUME d.pending = m
      PROVE  /\ DiskSound(stage_chunks(d, m), im, h, e, r)
             /\ SameRows(stage_chunks(d, m), d)
             /\ stage_chunks(d, m).current = d.current
             /\ stage_chunks(d, m).pending = m /\ m \in stage_chunks(d, m).chunks
             /\ stage_chunks(d, m).obsolete = d.obsolete
  <2>1. PICK z : z = stage_chunks(d, m)
    OBVIOUS
  <2>2. /\ z \in Disks /\ SameRows(z, d) /\ z.current = d.current /\ z.pending = m
        /\ z.obsolete = d.obsolete /\ z.coverage = d.coverage /\ z.chunks = d.chunks \cup {m}
    BY <1>1, <1>3, <2>1 DEF stage_chunks, Disks, SameRows, Marks
  <2>3. ChunksSound(z, im)
    BY <1>1, <1>3, <2>2 DEF ChunksSound
  <2> QED
    BY <2>1, <2>2, <2>3, MarkersSound
<1> QED
  BY <1>2, <1>3

\* publish_snapshot with the images im.
Published(d, im, m) ==
    [d EXCEPT !.current = m, !.pending = None, !.obsolete = d.current,
              !.coverage = m, !.applied = installation_writes(@, im[m])]

\* publish_snapshot: a staged image that reaches further becomes the published one,
\* and the one before it garbage.
LEMMA PublishSound ==
    ASSUME NEW d, NEW im, NEW h, NEW e, NEW r, DiskSound(d, im, h, e, r),
           NEW m \in DOMAIN im, m # d.current, d.pending = m, d.obsolete = None, m \in d.chunks,
           Position(d, im) < Len(im[m]), NEW z, z = Published(d, im, m)
    PROVE  /\ DiskSound(z, im, h, e, r) /\ Position(z, im) = Len(im[m]) - 1
           /\ z.log = d.log /\ z.committed = d.committed /\ z.purged = d.purged /\ z.current = m
           /\ z.applied.index = (IF d.applied.index < Len(im[m]) - 1 THEN Len(im[m]) - 1
                                 ELSE d.applied.index)
<1>1. /\ d \in Disks /\ ChunksSound(d, im) /\ m \in Image /\ None \notin Image /\ None = -1
      /\ m \in 1 .. Len(im) /\ im[m] \in Seq(Entry) /\ Len(im[m]) \in Nat /\ StartOf(im[m], h)
  <2>1. /\ m \in 1 .. Len(im) /\ Len(im) \in Nat /\ Len(im) <= MaxCaptures
        /\ im[m] \in Seq(Entry) /\ Len(im[m]) \in Nat /\ StartOf(im[m], h)
    <3>1. /\ DOMAIN im = 1 .. Len(im) /\ Len(im) \in Nat /\ Len(im) <= MaxCaptures
          /\ \A k \in 1 .. Len(im) : StartOf(im[k], h) /\ im[k] \in Seq(Entry) /\ Len(im[k]) \in Nat
      BY Numbers, Zenon
    <3> QED
      BY <3>1, Zenon
  <2>2. d \in Disks /\ ChunksSound(d, im)
    BY DEF DiskSound
  <2>3. m \in Image /\ None \notin Image /\ None = -1
    BY <2>1, Bounds DEF Image
  <2> QED
    BY <2>1, <2>2, <2>3, Zenon
<1>2. PICK p : p = Len(im[m]) - 1
  OBVIOUS
<1>3. /\ h \in Seq(Entry) /\ Len(h) \in Nat /\ Len(h) <= MaxIndex + 1 /\ r \in Int
      /\ Position(d, im) \in Int /\ Position(d, im) >= -1 /\ d.applied.index \in Int
      /\ d.applied.index < Len(h) /\ Position(d, im) <= d.applied.index /\ r <= d.applied.index
      /\ d.committed \in Int /\ e \in Int /\ d.purged \in Int
      /\ d.purged <= Position(d, im)
      /\ Position(d, im) + 1 < Len(h) => Len(h) <= e + 1
      /\ Len(h) = (IF d.committed < Position(d, im) THEN Position(d, im) ELSE d.committed) + 1
      /\ d.applied \in [index : Index, id : Entry \cup {None}]
  BY Numbers
<1>4. p \in Int /\ p >= -1 /\ p < Len(h) /\ Position(d, im) <= p /\ MaxIndex \in Nat
  <2>1. Len(im[m]) <= Len(h) /\ MaxIndex \in Nat
    BY <1>1, BoundsAssumption DEF StartOf
  <2>2. Position(d, im) \in Int /\ Len(h) \in Nat
    BY <1>3
  <2> QED
    BY <1>1, <1>2, <2>1, <2>2
<1>5. p >= 0 => p \in Index /\ im[m][p + 1] = h[p + 1] /\ im[m][p + 1] \in Entry
  <2> SUFFICES ASSUME p >= 0 PROVE p \in Index /\ im[m][p + 1] = h[p + 1] /\ im[m][p + 1] \in Entry
    OBVIOUS
  <2>1. p + 1 \in 1 .. Len(im[m])
    BY <1>1, <1>2, <1>4
  <2>2. p \in Index
    <3>1. Len(h) <= MaxIndex + 1 /\ Len(h) \in Nat /\ Index = -1 .. MaxIndex
      BY <1>3, Bounds
    <3> QED
      BY <1>4, <3>1
  <2> QED
    BY <1>1, <2>1, <2>2 DEF StartOf
<1>6. PICK c : c = installation_writes(d.applied, im[m])
  OBVIOUS
<1>7. /\ c \in [index : Index, id : Entry \cup {None}]
      /\ c.index = (IF d.applied.index < p THEN p ELSE d.applied.index)
      /\ c.index >= 0 => c.id = h[c.index + 1]
  <2>1. CASE p >= 0 /\ d.applied.index <= p
    <3>1. c = [index |-> p, id |-> im[m][p + 1]]
      BY <1>2, <1>6, <2>1 DEF installation_writes
    <3>2. c.index = p /\ c.id = h[p + 1]
      BY <1>5, <2>1, <3>1
    <3>3. c \in [index : Index, id : Entry \cup {None}]
      BY <1>5, <2>1, <3>1
    <3> QED
      BY <1>3, <1>4, <2>1, <3>2, <3>3
  <2>2. CASE ~(p >= 0 /\ d.applied.index <= p)
    <3>1. c = d.applied
      BY <1>2, <1>6, <2>2 DEF installation_writes
    <3>2. d.applied.index >= 0 => d.applied.id = h[d.applied.index + 1]
      BY DEF DiskSound, RowsSound
    <3> QED
      BY <1>3, <1>4, <2>2, <3>1, <3>2
  <2> QED
    BY <2>1, <2>2
<1>8. /\ z \in Disks /\ z.log = d.log /\ z.committed = d.committed /\ z.purged = d.purged
      /\ z.rows = d.rows /\ z.applied = c /\ z.current = m /\ z.pending = None
      /\ z.obsolete = d.current /\ z.coverage = m /\ z.chunks = d.chunks
  BY <1>1, <1>6, <1>7 DEF Disks, Marks, Published
<1>9. Position(z, im) = p
  BY <1>1, <1>2, <1>8 DEF Position
<1>10. JournalSound(z, im, h, e)
  <2>1. Len(h) = (IF z.committed < p THEN p ELSE z.committed) + 1
    BY <1>3, <1>4, <1>8
  <2>2. z.purged <= p /\ z.purged <= e /\ (p + 1 < Len(h) => Len(h) <= e + 1)
    <3>1. d.purged <= e
      BY Numbers
    <3>2. d.purged <= p
      BY <1>3, <1>4
    <3>3. p + 1 < Len(h) => Position(d, im) + 1 < Len(h)
      BY <1>3, <1>4
    <3> QED
      BY <1>3, <1>8, <3>1, <3>2, <3>3
  <2> QED
    BY <1>8, <1>9, <2>1, <2>2 DEF DiskSound, JournalSound
<1>11. RowsSound(z, im, h, r)
  <2>1. p <= c.index /\ c.index < Len(h) /\ r <= c.index
    BY <1>3, <1>4, <1>7
  <2> QED
    BY <1>7, <1>8, <1>9, <2>1 DEF DiskSound, RowsSound
<1>12. ChunksSound(z, im)
  <2>1. d.chunks \subseteq {d.current, m, None} /\ d.chunks \subseteq Image
        /\ d.current \in DOMAIN im \cup {None}
    BY <1>1 DEF ChunksSound, Disks
  <2> QED
    BY <1>1, <1>8, <2>1 DEF ChunksSound
<1> QED
  BY <1>2, <1>7, <1>8, <1>9, <1>10, <1>11, <1>12 DEF DiskSound

\* One chunk of a purge: the journal then starts after it.
LEMMA PurgedSound ==
    ASSUME NEW d, NEW im, NEW h, NEW e, NEW r, DiskSound(d, im, h, e, r),
           NEW end \in Int, d.purged <= end, end <= e, end <= Position(d, im)
    PROVE  /\ DiskSound(PurgedPrefix(d, end), im, h, e, r)
           /\ PurgedPrefix(d, end).purged = end
           /\ PurgedPrefix(d, end).committed = d.committed
           /\ PurgedPrefix(d, end).applied = d.applied /\ SameImages(PurgedPrefix(d, end), d)
<1>1. /\ d \in Disks /\ d.log \in Partial /\ Len(h) \in Nat /\ e \in Int /\ e <= MaxIndex
      /\ d.purged \in Int /\ d.purged >= -1 /\ DOMAIN d.log = (d.purged + 1) .. e
  BY Numbers
<1>2. PICK l : l = Without(d.log, 0 .. end)
  OBVIOUS
<1>3. /\ l \in Partial /\ DOMAIN l = DOMAIN d.log \ (0 .. end)
      /\ \A k \in DOMAIN d.log \ (0 .. end) : l[k] = d.log[k]
  <2>1. /\ Without(d.log, 0 .. end) \in Partial /\ DOMAIN Without(d.log, 0 .. end) = DOMAIN d.log \ (0 .. end)
        /\ \A k \in DOMAIN d.log \ (0 .. end) : Without(d.log, 0 .. end)[k] = d.log[k]
    BY <1>1, WithoutIs, Zenon
  <2> QED
    BY <1>2, <2>1, Zenon
<1>4. DOMAIN l = (end + 1) .. e
  <2>1. ((d.purged + 1) .. e) \ (0 .. end) = (end + 1) .. e
    BY <1>1
  <2> QED
    BY <1>1, <1>3, <2>1, Zenon
<1>5. end \in Index
  BY <1>1, Bounds
<1>6. PICK z : z = PurgedPrefix(d, end)
  OBVIOUS
<1>7. /\ z \in Disks /\ z.log = l /\ z.purged = end /\ z.committed = d.committed
      /\ z.applied = d.applied /\ z.rows = d.rows /\ SameImages(z, d)
  BY <1>1, <1>2, <1>3, <1>5, <1>6 DEF PurgedPrefix, Disks, SameImages
<1>8. Position(z, im) = Position(d, im)
  BY <1>7 DEF Position, SameImages
<1>9. JournalSound(z, im, h, e)
  <2>1. \A i \in DOMAIN l : i \in DOMAIN d.log /\ l[i] = d.log[i]
    BY <1>3
  <2> QED
    BY <1>4, <1>7, <1>8, <2>1 DEF DiskSound, JournalSound
<1>10. RowsSound(z, im, h, r)
  BY <1>7, <1>8 DEF DiskSound, RowsSound
<1>11. ChunksSound(z, im)
  BY <1>7 DEF DiskSound, ChunksSound, SameImages
<1> QED
  BY <1>6, <1>7, <1>9, <1>10, <1>11 DEF DiskSound

\* The end of a purge: the cursor moves to the target over an empty journal.
LEMMA PurgedToSound ==
    ASSUME NEW d, NEW im, NEW h, NEW e, NEW r, DiskSound(d, im, h, e, r),
           NEW t \in Int, d.purged <= t, t <= Position(d, im), e = d.purged \/ t = d.purged,
           NEW f, f = (IF e < t THEN t ELSE e),
           NEW z, z = [d EXCEPT !.purged = t]
    PROVE  /\ DiskSound(z, im, h, f, r)
           /\ z.purged = t /\ z.committed = d.committed /\ z.log = d.log
           /\ z.applied = d.applied /\ SameImages(z, d)
<1>1. /\ d \in Disks /\ Len(h) \in Nat /\ e \in Int /\ e <= MaxIndex /\ Len(h) <= MaxIndex + 1
      /\ d.purged \in Int /\ d.purged >= -1 /\ DOMAIN d.log = (d.purged + 1) .. e /\ d.purged <= e
      /\ Position(d, im) \in Int /\ Position(d, im) < Len(h)
  BY Numbers
<1>2. MaxIndex \in Nat
  BY Bounds
<1>3. t <= MaxIndex /\ f \in Int /\ f >= -1 /\ f <= MaxIndex /\ e <= f /\ t <= f
  <2>1. t <= MaxIndex
    BY <1>1, <1>2
  <2> QED
    BY <1>1, <1>2, <2>1
<1>4. t \in Index /\ f \in Index
  <2>1. Index = -1 .. MaxIndex
    BY Bounds
  <2>2. t >= -1
    BY <1>1
  <2> QED
    BY <1>2, <1>3, <2>1, <2>2
<1>5. /\ z \in Disks /\ z.log = d.log /\ z.purged = t /\ z.committed = d.committed
      /\ z.applied = d.applied /\ z.rows = d.rows /\ SameImages(z, d)
  BY <1>1, <1>4 DEF Disks, SameImages
<1>6. Position(z, im) = Position(d, im)
  BY <1>5 DEF Position, SameImages
<1>7. DOMAIN d.log = (t + 1) .. f
  BY <1>1, <1>3
<1>8. JournalSound(z, im, h, f)
  <2>1. Position(d, im) + 1 < Len(h) => Len(h) <= f + 1
    BY <1>1, <1>3 DEF DiskSound, JournalSound
  <2> QED
    BY <1>3, <1>5, <1>6, <1>7, <2>1 DEF DiskSound, JournalSound
<1>9. RowsSound(z, im, h, r)
  BY <1>5, <1>6 DEF DiskSound, RowsSound
<1>10. ChunksSound(z, im)
  BY <1>5 DEF DiskSound, ChunksSound, SameImages
<1> QED
  BY <1>4, <1>5, <1>8, <1>9, <1>10 DEF DiskSound

\* The commit cursor at the end of the history.
LEMMA CommittedSound ==
    ASSUME NEW d, NEW im, NEW h, NEW e, NEW r, DiskSound(d, im, h, e, r),
           NEW z, z = [d EXCEPT !.committed = Len(h) - 1]
    PROVE  /\ DiskSound(z, im, h, e, r) /\ z.committed = Len(h) - 1 /\ z.purged = d.purged
           /\ z.log = d.log /\ z.applied = d.applied /\ SameImages(z, d)
<1>1. /\ d \in Disks /\ Len(h) \in Nat /\ Len(h) <= MaxIndex + 1
      /\ Position(d, im) \in Int /\ Position(d, im) < Len(h)
  BY Numbers
<1>2. Len(h) - 1 \in Index
  BY <1>1, Bounds
<1>3. /\ z \in Disks /\ z.log = d.log /\ z.purged = d.purged /\ z.committed = Len(h) - 1
      /\ z.applied = d.applied /\ z.rows = d.rows /\ SameImages(z, d)
  BY <1>1, <1>2 DEF Disks, SameImages
<1>4. Position(z, im) = Position(d, im)
  BY <1>3 DEF Position, SameImages
<1>5. JournalSound(z, im, h, e)
  <2>1. Len(h) = (IF Len(h) - 1 < Position(d, im) THEN Position(d, im) ELSE Len(h) - 1) + 1
    BY <1>1
  <2> QED
    BY <1>3, <1>4, <2>1 DEF DiskSound, JournalSound
<1>6. RowsSound(z, im, h, r)
  BY <1>3, <1>4 DEF DiskSound, RowsSound
<1>7. ChunksSound(z, im)
  BY <1>3 DEF DiskSound, ChunksSound, SameImages
<1> QED
  BY <1>3, <1>5, <1>6, <1>7 DEF DiskSound

\* A truncation past the history leaves the journal shorter and the history alone.
LEMMA TruncatedSound ==
    ASSUME NEW d, NEW im, NEW h, NEW e, NEW r, DiskSound(d, im, h, e, r),
           NEW from \in Int, Len(h) <= from, d.purged < from, from <= e,
           NEW z, z = [d EXCEPT !.log = Without(@, from .. e)]
    PROVE  /\ DiskSound(z, im, h, from - 1, r)
           /\ z.purged = d.purged /\ z.committed = d.committed
           /\ z.applied = d.applied /\ SameImages(z, d)
<1>1. /\ d \in Disks /\ d.log \in Partial /\ Len(h) \in Nat /\ e \in Int /\ e <= MaxIndex
      /\ d.purged \in Int /\ d.purged >= -1 /\ DOMAIN d.log = (d.purged + 1) .. e
      /\ Position(d, im) \in Int
  BY Numbers
<1>2. PICK l : l = Without(d.log, from .. e)
  OBVIOUS
<1>3. /\ l \in Partial /\ DOMAIN l = DOMAIN d.log \ (from .. e)
      /\ \A k \in DOMAIN d.log \ (from .. e) : l[k] = d.log[k]
  <2>1. /\ Without(d.log, from .. e) \in Partial /\ DOMAIN Without(d.log, from .. e) = DOMAIN d.log \ (from .. e)
        /\ \A k \in DOMAIN d.log \ (from .. e) : Without(d.log, from .. e)[k] = d.log[k]
    BY <1>1, WithoutIs, Zenon
  <2> QED
    BY <1>2, <2>1, Zenon
<1>4. DOMAIN l = (d.purged + 1) .. (from - 1)
  <2>1. ((d.purged + 1) .. e) \ (from .. e) = (d.purged + 1) .. (from - 1)
    BY <1>1
  <2> QED
    BY <1>1, <1>3, <2>1, Zenon
<1>5. from - 1 \in Index
  <2>1. Index = -1 .. MaxIndex /\ MaxIndex \in Nat
    BY Bounds
  <2> QED
    BY <1>1, <2>1
<1>6. /\ z \in Disks /\ z.log = l /\ z.purged = d.purged /\ z.committed = d.committed
      /\ z.applied = d.applied /\ z.rows = d.rows /\ SameImages(z, d)
  BY <1>1, <1>2, <1>3 DEF Disks, SameImages
<1>7. Position(z, im) = Position(d, im)
  BY <1>6 DEF Position, SameImages
<1>8. JournalSound(z, im, h, from - 1)
  <2>1. \A i \in DOMAIN l : i \in DOMAIN d.log /\ l[i] = d.log[i]
    BY <1>3
  <2>2. d.purged <= from - 1 /\ Len(h) <= (from - 1) + 1
    BY <1>1
  <2> QED
    BY <1>4, <1>6, <1>7, <2>1, <2>2 DEF DiskSound, JournalSound
<1>9. RowsSound(z, im, h, r)
  BY <1>6, <1>7 DEF DiskSound, RowsSound
<1>10. ChunksSound(z, im)
  BY <1>6 DEF DiskSound, ChunksSound, SameImages
<1> QED
  BY <1>5, <1>6, <1>8, <1>9, <1>10 DEF DiskSound

\* A restore puts the rows back to the published image.
LEMMA RestoredSound ==
    ASSUME NEW d, NEW im, NEW h, NEW e, NEW r, DiskSound(d, im, h, e, r), d.current # None,
           NEW z, z = [d EXCEPT !.rows = RowsOf(im[d.current])]
    PROVE  /\ DiskSound(z, im, h, e, Position(d, im))
           /\ z.purged = d.purged /\ z.committed = d.committed /\ z.log = d.log
           /\ z.applied = d.applied /\ SameImages(z, d)
<1>1. d.current \in DOMAIN im
  BY DEF DiskSound, ChunksSound
<1>2. PICK s : s = im[d.current]
  OBVIOUS
<1>3. s \in Seq(Entry) /\ Len(s) \in Nat /\ StartOf(s, h) /\ Position(d, im) = Len(s) - 1
  <2>1. d.current \in 1 .. Len(im)
    BY <1>1, Numbers
  <2> QED
    BY <1>2, <2>1, Numbers DEF Position
<1>4. /\ d \in Disks /\ Len(h) \in Nat /\ Len(h) <= MaxIndex + 1
      /\ Position(d, im) < Len(h) /\ Position(d, im) <= d.applied.index
  BY Numbers
<1>5. PICK f : f = RowsOf(s)
  OBVIOUS
<1>6. DOMAIN f = 0 .. Len(s) - 1 /\ \A i \in 0 .. Len(s) - 1 : f[i] = s[i + 1]
  BY <1>5 DEF RowsOf
<1>7. \A i \in 0 .. Len(s) - 1 : i + 1 \in 1 .. Len(s) /\ s[i + 1] \in Entry /\ s[i + 1] = h[i + 1]
  BY <1>3 DEF StartOf
<1>8. f \in [0 .. Len(s) - 1 -> Entry]
  BY <1>5, <1>7 DEF RowsOf
<1>9. 0 .. Len(s) - 1 \in SUBSET (0 .. MaxIndex) /\ Len(s) - 1 \in Index
  <2>1. Len(s) <= MaxIndex + 1 /\ MaxIndex \in Nat /\ Index = -1 .. MaxIndex
    BY <1>3, <1>4, Bounds DEF StartOf
  <2> QED
    BY <1>3, <2>1
<1>10. f \in Partial
  BY <1>8, <1>9, PartialIn
<1>11. /\ z \in Disks /\ z.log = d.log /\ z.purged = d.purged /\ z.committed = d.committed
       /\ z.applied = d.applied /\ z.rows = f /\ SameImages(z, d)
  BY <1>2, <1>4, <1>5, <1>10 DEF Disks, SameImages
<1>12. Position(z, im) = Position(d, im)
  BY <1>11 DEF Position, SameImages
<1>13. JournalSound(z, im, h, e)
  BY <1>11, <1>12 DEF DiskSound, JournalSound
<1>14. RowsSound(z, im, h, Position(d, im))
  <2>1. DOMAIN f = 0 .. Position(d, im) /\ \A i \in 0 .. Position(d, im) : f[i] = h[i + 1]
    BY <1>3, <1>6, <1>7
  <2> QED
    BY <1>4, <1>11, <1>12, <2>1 DEF DiskSound, RowsSound
<1>15. ChunksSound(z, im)
  BY <1>11 DEF DiskSound, ChunksSound, SameImages
<1> QED
  BY <1>3, <1>9, <1>11, <1>13, <1>14, <1>15 DEF DiskSound

\* A capture adds an image that is a start of the history.
LEMMA CaptureSound ==
    ASSUME NEW d, NEW im, NEW h, NEW e, NEW r, DiskSound(d, im, h, e, r),
           NEW s \in Seq(Entry), StartOf(s, h), Len(im) < MaxCaptures
    PROVE  /\ DiskSound(d, Append(im, s), h, e, r)
           /\ Position(d, Append(im, s)) = Position(d, im)
           /\ Len(Append(im, s)) = Len(im) + 1 /\ Append(im, s)[Len(im) + 1] = s
           /\ \A k \in 1 .. Len(im) : Append(im, s)[k] = im[k]
           /\ Len(im) + 1 # d.current /\ Len(im) + 1 \in DOMAIN Append(im, s)
<1>1. im \in Seq(Seq(Entry)) /\ Len(im) \in Nat /\ DOMAIN im = 1 .. Len(im)
      /\ \A k \in 1 .. Len(im) : StartOf(im[k], h)
  BY Numbers
<1>2. PICK jm : jm = Append(im, s)
  OBVIOUS
<1>3. /\ jm \in Seq(Seq(Entry)) /\ Len(jm) = Len(im) + 1 /\ jm[Len(im) + 1] = s
      /\ \A k \in 1 .. Len(im) : jm[k] = im[k]
      /\ DOMAIN jm = 1 .. Len(im) + 1
  BY <1>1, <1>2
<1>4. d.current \in DOMAIN im \cup {None}
  BY DEF DiskSound, ChunksSound
<1>5. Position(d, jm) = Position(d, im)
  BY <1>1, <1>3, <1>4 DEF Position
<1>6. JournalSound(d, jm, h, e) /\ RowsSound(d, jm, h, r)
  BY <1>5 DEF DiskSound, JournalSound, RowsSound
<1>7. DOMAIN im \subseteq DOMAIN jm
  BY <1>1, <1>3
<1>8. ChunksSound(d, jm)
  BY <1>7 DEF DiskSound, ChunksSound
<1>9. ImagesSound(jm, h)
  <2>1. ASSUME NEW k \in 1 .. Len(jm) PROVE StartOf(jm[k], h)
    <3>1. k \in 1 .. Len(im) \/ k = Len(im) + 1
      BY <1>1, <1>3, <2>1
    <3> QED
      BY <1>1, <1>3, <3>1
  <2>2. Len(jm) <= MaxCaptures
    BY <1>1, <1>3, BoundsAssumption
  <2> QED
    BY <1>3, <2>1, <2>2 DEF ImagesSound
<1>10. DiskSound(d, jm, h, e, r)
  BY <1>6, <1>8, <1>9 DEF DiskSound
<1>11. Len(im) + 1 # d.current /\ Len(im) + 1 \in DOMAIN jm
  BY <1>1, <1>3, <1>4, Bounds
<1> QED
  BY <1>2, <1>3, <1>5, <1>10, <1>11

----------------------------------------------------------------------------
(* The span in memory *)

\* The headers of a journal without holes give its span.
LEMMA SpanIs ==
    ASSUME NEW l, NEW q \in Int, NEW x \in Int, q <= x, DOMAIN l = (q + 1) .. x
    PROVE  retained_span(l) = Span(q, x) /\ Contiguous(l)
<1>1. CASE x = q
  <2>1. DOMAIN l = {}
    BY <1>1
  <2> QED
    BY <1>1, <2>1 DEF retained_span, Contiguous, Span
<1>2. CASE x # q
  <2>1. q + 1 \in DOMAIN l /\ x \in DOMAIN l /\ DOMAIN l # {}
    BY <1>2
  <2>2. (CHOOSE a \in DOMAIN l : \A i \in DOMAIN l : a <= i) = q + 1
    <3>1. \A i \in DOMAIN l : q + 1 <= i
      OBVIOUS
    <3>2. \A a \in DOMAIN l : (\A i \in DOMAIN l : a <= i) => a = q + 1
      BY <2>1
    <3> QED
      BY <2>1, <3>1, <3>2
  <2>3. (CHOOSE b \in DOMAIN l : \A i \in DOMAIN l : i <= b) = x
    <3>1. \A i \in DOMAIN l : i <= x
      OBVIOUS
    <3>2. ASSUME NEW b \in DOMAIN l, \A i \in DOMAIN l : i <= b PROVE b = x
      <4>1. x <= b
        BY <2>1, <3>2
      <4> QED
        BY <4>1
    <3> QED
      BY <2>1, <3>1, <3>2
  <2> QED
    BY <1>2, <2>1, <2>2, <2>3 DEF retained_span, Contiguous, Span
<1> QED
  BY <1>1, <1>2

\* A span is empty exactly when it ends where it starts, and says where it ends.
LEMMA SpanEnds ==
    ASSUME NEW q \in Int, NEW x \in Int, q <= x, q >= -1
    PROVE  /\ Span(q, x) = NoSpan <=> x = q
           /\ x # q => Span(q, x).first = q + 1 /\ Span(q, x).last = x
           /\ Span(q, x) # NoSpan => Span(q, x).first = q + 1 /\ Span(q, x).last = x
<1>1. NoSpan.first = 0 /\ NoSpan.last = -1 /\ None = -1
  BY DEF NoSpan, None
<1>2. x # q => Span(q, x) = [first |-> q + 1, last |-> x]
  BY DEF Span
<1>3. x = q => Span(q, x) = NoSpan
  BY DEF Span
<1>4. x # q => Span(q, x) # NoSpan
  <2>1. CASE x # q
    <3>1. Span(q, x).last = x /\ Span(q, x).first = q + 1
      BY <1>2, <2>1
    <3>2. x # -1 
      BY <2>1
    <3> QED
      BY <1>1, <3>1, <3>2
  <2> QED
    BY <2>1
<1> QED
  BY <1>2, <1>3, <1>4

\* An append at the end of a span makes it longer.
LEMMA IncludingIs ==
    ASSUME NEW q \in Int, NEW x \in Int, q <= x, q >= -1, NEW n \in Nat \ {0}
    PROVE  Including(Span(q, x), x + 1, n) = Span(q, x + n)
<1>1. x + 1 + n - 1 = x + n /\ x + n # q /\ x + n \in Int
  OBVIOUS
<1>2. Span(q, x + n) = [first |-> q + 1, last |-> x + n]
  BY <1>1 DEF Span
<1>3. CASE x = q
  BY <1>1, <1>2, <1>3 DEF Including, Span
<1>4. CASE x # q
  <2>1. Span(q, x).first = q + 1 /\ Span(q, x) # NoSpan
    BY <1>4, SpanEnds
  <2> QED
    BY <1>1, <1>2, <2>1 DEF Including
<1> QED
  BY <1>3, <1>4

\* A span of stored indexes is one the process can hold.
LEMMA SpanType ==
    ASSUME NEW q \in Index, NEW x \in Index, q <= x
    PROVE  Span(q, x) \in [first : 0 .. MaxIndex + 1, last : Index]
<1>1. q \in Int /\ q >= -1 /\ q + 1 \in 0 .. MaxIndex + 1 /\ 0 \in 0 .. MaxIndex + 1 /\ None \in Index
  BY Bounds
<1> QED
  BY <1>1 DEF Span, NoSpan

----------------------------------------------------------------------------
(* Opening *)

\* What the disk of a sound state is, with its positions as numbers.
LEMMA Facts ==
    ASSUME NEW h, NEW e, NEW r, Sound(h, e, r)
    PROVE  /\ DiskSound(disk, images, h, e, r) /\ ImagePosition(disk) = Position(disk, images)
           /\ h \in Seq(Entry) /\ e \in Index /\ r \in Index
           /\ OpenSound(h, e, r) /\ PurgeSound /\ SnapSound /\ ClientSound(h) /\ MemorySound
           /\ disk \in Disks /\ disk.purged \in Index /\ disk.committed \in Index
           /\ MaxIndex \in Nat /\ Index = -1 .. MaxIndex /\ None = -1
<1>1. DiskSound(disk, images, h, e, r)
  BY DEF Sound
<1>2. ImagePosition(disk) = Position(disk, images)
  BY DEF ImagePosition, Position
<1>3. disk \in Disks /\ h \in Seq(Entry) /\ e \in Index /\ r \in Index
  BY <1>1 DEF DiskSound
<1>4. disk.purged \in Index /\ disk.committed \in Index
  BY <1>3 DEF Disks
<1>5. MaxIndex \in Nat /\ Index = -1 .. MaxIndex /\ None = -1
  BY Bounds
<1> QED
  BY <1>1, <1>2, <1>3, <1>4, <1>5 DEF Sound

\* A step of an opening group that leaves the client and the tasks alone.
LEMMA OpeningStep ==
    ASSUME NEW h, NEW e, NEW r, Sound(h, e, r), NEW f, NEW s,
           phase # "serving", phase' # "serving",
           UNCHANGED <<images, next, covered, failed, closed, worker, snap, client, faults>>,
           DiskSound(disk', images, h, f, s), OpenSound(h, f, s)', PurgeSound',
           retained' = Span(disk'.purged, f), served' \in Seq(Entry)
    PROVE  Sound(h, f, s)'
<1>1. OpenSound(h, e, r) /\ SnapSound /\ ClientSound(h) /\ MemorySound
  BY DEF Sound
<1>2. worker = Idle /\ snap = NoBuild /\ ~failed
  BY <1>1 DEF OpenSound
<1>3. worker'.pc = "idle" /\ snap'.pc = "idle" /\ snap' = NoBuild
  BY <1>2 DEF Idle, NoBuild
<1>4. /\ disk' \in Disks /\ disk'.purged \in Int /\ f \in Int /\ disk'.purged <= f
  BY Numbers
<1>5. f \in Index /\ disk'.purged \in Index
  BY <1>4 DEF DiskSound, Disks
<1>6. SpanSound(f)'
  <2>1. f \in disk'.purged .. f
    BY <1>4
  <2>2. SpanAt(f, f)'
    BY <1>3, <2>1 DEF SpanAt
  <2> QED
    BY <1>5, <2>2 DEF SpanSound
<1>7. SnapSound'
  <2>1. NoBuild \in [pc : SnapPcs, image : Marks, target : Index]
    BY Bounds DEF NoBuild, SnapPcs, Marks
  <2> QED
    BY <1>3, <2>1 DEF SnapSound
<1>8. ClientSound(h)'
  BY <1>1 DEF ClientSound
<1>9. MemorySound'
  <2>1. retained' \in [first : 0 .. MaxIndex + 1, last : Index]
    BY <1>4, <1>5, SpanType
  <2> QED
    BY <1>1, <2>1 DEF MemorySound
<1> QED
  BY <1>6, <1>7, <1>8, <1>9 DEF Sound

\* An opening group holds the span of its journal.
LEMMA OpeningSpan ==
    ASSUME NEW h, NEW e, NEW r, Sound(h, e, r), phase # "serving", phase # "down"
    PROVE  /\ retained = Span(disk.purged, e) /\ LastLogId(retained) = e
           /\ disk.purged \in Int /\ disk.purged >= -1 /\ disk.purged <= e /\ e \in Int
           /\ retained # NoSpan => retained.first = disk.purged + 1 /\ retained.last = e
           /\ retained = NoSpan <=> e = disk.purged
           /\ worker = Idle /\ snap = NoBuild /\ ~failed /\ ~closed
<1>1. worker = Idle /\ snap = NoBuild /\ ~failed /\ ~closed /\ worker.pc = "idle"
  BY Facts DEF OpenSound, Idle
<1>2. PICK x \in Index : SpanAt(e, x)
  BY <1>1 DEF Sound, SpanSound
<1>3. x = e /\ retained = Span(disk.purged, e)
  BY <1>1, <1>2 DEF SpanAt
<1>4. disk.purged \in Int /\ disk.purged >= -1 /\ disk.purged <= e /\ e \in Int
  BY Facts, Numbers
<1>5. /\ retained = NoSpan <=> e = disk.purged
      /\ retained # NoSpan => retained.first = disk.purged + 1 /\ retained.last = e
  BY <1>3, <1>4, SpanEnds
<1>6. LastLogId(retained) = e
  BY <1>4, <1>5 DEF LastLogId
<1> QED
  BY <1>1, <1>3, <1>4, <1>5, <1>6

\* LogStore::open finds no hole.
LEMMA OpenKeeps ==
    ASSUME NEW h, NEW e, NEW r, Sound(h, e, r), Open
    PROVE  Sound(h, e, r)'
<1>1. phase = "down" /\ UNCHANGED <<disk, images, served>>
  BY DEF Open
<1>2. /\ disk.purged \in Int /\ disk.purged <= e /\ e \in Int
      /\ DOMAIN disk.log = (disk.purged + 1) .. e
  BY Facts, Numbers
<1>3. retained' = Span(disk.purged, e) /\ phase' = "cleaning"
  BY <1>2, SpanIs DEF Open
<1>4. OpenSound(h, e, r)'
  BY <1>1, <1>3, Facts DEF Open, OpenSound, Phases
<1>5. PurgeSound'
  BY <1>1, <1>3, Facts DEF Open, PurgeSound, ImagePosition
<1>6. served' \in Seq(Entry) /\ DiskSound(disk', images, h, e, r)
  BY <1>1, Facts DEF MemorySound
<1> QED
  BY <1>1, <1>3, <1>4, <1>5, <1>6, OpeningStep DEF Open

\* open_inner finishes the cleanup that its predecessor left.
LEMMA OpenCleanupKeeps ==
    ASSUME NEW h, NEW e, NEW r, Sound(h, e, r), OpenCleanup
    PROVE  Sound(h, e, r)' /\ disk'.purged = disk.purged
<1>1. phase = "cleaning" /\ disk' = cleanup_snapshots(disk) /\ ~Clean(disk)
  BY DEF OpenCleanup
<1>2. DiskSound(disk', images, h, e, r) /\ disk'.purged = disk.purged
  BY <1>1, Facts, CleanupSound DEF SameRows
<1>3. retained' = Span(disk'.purged, e) /\ phase' = "cleaning"
  BY <1>1, <1>2, OpeningSpan DEF OpenCleanup, memory
<1>4. OpenSound(h, e, r)'
  BY <1>1, <1>3, Facts DEF OpenCleanup, memory, OpenSound, Phases
<1>5. PurgeSound'
  BY <1>1, <1>3, Facts DEF OpenCleanup, PurgeSound
<1>6. served' \in Seq(Entry)
  BY Facts DEF OpenCleanup, memory, MemorySound
<1> QED
  BY <1>1, <1>2, <1>3, <1>4, <1>5, <1>6, OpeningStep DEF OpenCleanup, memory

\* The published image has its chunks and its coverage, and rows and served state go back to it.
LEMMA RestoreKeeps ==
    ASSUME NEW h, NEW e, NEW r, Sound(h, e, r), Restore
    PROVE  \E s \in Index : Sound(h, e, s)' /\ disk'.purged = disk.purged
<1>1. phase = "cleaning" /\ served = <<>> /\ purge = NoPurge
  BY Facts DEF Restore, OpenSound, PurgeSound
<1>2. ChunksSound(disk, images) /\ Position(disk, images) \in Int /\ Position(disk, images) >= -1
      /\ r \in Int /\ r >= -1 /\ h \in Seq(Entry)
  BY Facts, Numbers DEF DiskSound
<1>3. CASE disk.current = None
  <2>1. phase' = "repair" /\ UNCHANGED <<disk, served>>
    BY <1>3 DEF Restore
  <2>2. ImagePosition(disk') = -1 /\ served' = <<>> /\ ImagePosition(disk)' = -1
    BY <1>1, <1>3, <2>1, Facts DEF ImagePosition, Restore
  <2>3. OpenSound(h, e, r)'
    <3>1. Len(served') = 0 /\ StartOf(served', h)
      BY <1>2, <2>2 DEF StartOf
    <3> QED
      BY <1>2, <2>1, <2>2, <3>1, Facts DEF OpenSound, Phases, Restore
  <2>4. PurgeSound'
    BY <1>1, <2>1, Facts DEF PurgeSound, Restore, NoPurge, NoBuild, OpenSound
  <2>5. retained' = Span(disk'.purged, e) /\ served' \in Seq(Entry) /\ DiskSound(disk', images, h, e, r)
    BY <1>1, <2>1, OpeningSpan, Facts DEF Restore, MemorySound
  <2>6. Sound(h, e, r)'
    BY <1>1, <2>1, <2>3, <2>4, <2>5, OpeningStep DEF Restore
  <2> QED
    BY <2>1, <2>6, Facts
<1>4. CASE disk.current # None
  <2>1. disk.current \in disk.chunks /\ disk.coverage = disk.current /\ disk.current \in DOMAIN images
    BY <1>2, <1>4 DEF ChunksSound
  <2>2. phase' = "repair" /\ disk' = [disk EXCEPT !.rows = RowsOf(images[disk.current])]
        /\ served' = images[disk.current]
    BY <1>4, <2>1 DEF Restore
  <2>3. PICK s : s = Position(disk, images)
    OBVIOUS
  <2>4. /\ DiskSound(disk', images, h, e, s) /\ disk'.purged = disk.purged
        /\ disk'.current = disk.current
    BY <1>4, <2>2, <2>3, Facts, RestoredSound DEF SameImages
  <2>5. /\ served' \in Seq(Entry) /\ Len(served') = s + 1 /\ StartOf(served', h)
        /\ ImagePosition(disk)' = s /\ s \in Int
    <3>1. disk.current \in 1 .. Len(images)
      BY <2>1, Facts, Numbers
    <3>2. images[disk.current] \in Seq(Entry) /\ StartOf(images[disk.current], h)
          /\ Len(images[disk.current]) \in Nat
      BY <3>1, Facts, Numbers
    <3>3. images' = images
      BY DEF Restore
    <3> QED
      BY <1>4, <2>2, <2>3, <2>4, <3>2, <3>3 DEF Position, ImagePosition
  <2>6. OpenSound(h, e, s)'
    BY <2>2, <2>5, Facts DEF OpenSound, Phases, Restore
  <2>7. PurgeSound'
    BY <1>1, <2>2, Facts DEF PurgeSound, Restore, NoPurge, NoBuild, OpenSound
  <2>8. retained' = Span(disk'.purged, e)
    BY <1>1, <2>4, OpeningSpan DEF Restore
  <2>9. Sound(h, e, s)'
    BY <1>1, <2>2, <2>4, <2>5, <2>6, <2>7, <2>8, OpeningStep DEF Restore
  <2>10. s \in Index
    BY <2>4 DEF DiskSound
  <2> QED
    BY <2>4, <2>9, <2>10
<1> QED
  BY <1>3, <1>4

\* An image beyond the cursors is purged through: then nothing past it was committed.
LEMMA RepairKeeps ==
    ASSUME NEW h, NEW e, NEW r, Sound(h, e, r), Repair
    PROVE  Sound(h, e, r)' /\ disk' = disk
<1>1. PICK p : p = Position(disk, images)
  OBVIOUS
<1>2. /\ p \in Int /\ p >= -1 /\ p < Len(h) /\ Len(h) \in Nat /\ disk.committed \in Int
      /\ disk.committed >= -1
      /\ p + 1 < Len(h) => Len(h) <= e + 1
  BY <1>1, Facts, Numbers
<1>3. Len(h) = (IF disk.committed < p THEN p ELSE disk.committed) + 1
  BY <1>1, Facts, Numbers
<1>4. phase = "repair" /\ Len(served) = p + 1 /\ AppliedPosition = p /\ p = ImagePosition(disk)
  BY <1>1, <1>2, Facts DEF Repair, OpenSound, AppliedPosition
<1>5. LastLogId(retained) = e /\ e \in Int /\ e >= -1 /\ retained = Span(disk.purged, e)
  BY <1>4, OpeningSpan
<1>6. UNCHANGED <<disk, images, served, retained>> /\ ImagePosition(disk)' = p
  BY <1>4 DEF Repair, memory, ImagePosition
<1>7. purge = NoPurge /\ snap = NoBuild /\ p \in Index
  <2>1. p <= MaxIndex
    BY <1>1, <1>2, Facts, Numbers
  <2> QED
    BY <1>2, <1>4, <2>1, Facts DEF PurgeSound, OpenSound
<1>8. CASE p # None /\ (disk.committed < p \/ e < p)
  <2>1. phase' = "purging" /\ purge' = [on |-> TRUE, target |-> p, removed |-> None]
    BY <1>4, <1>5, <1>8 DEF Repair
  <2>2. disk.committed <= p
    BY <1>2, <1>3, <1>5, <1>8
  <2>3. OpenSound(h, e, r)'
    BY <1>4, <1>6, <2>1, <2>2, Facts DEF OpenSound, Phases, Repair, memory
  <2>4. PurgeSound'
    BY <1>6, <1>7, <2>1, Facts DEF PurgeSound
  <2> QED
    BY <1>4, <1>5, <1>6, <2>1, <2>3, <2>4, Facts, OpeningStep DEF Repair, memory, MemorySound
<1>9. CASE ~(p # None /\ (disk.committed < p \/ e < p))
  <2>1. phase' = "commit" /\ purge' = purge
    BY <1>4, <1>5, <1>9 DEF Repair
  <2>2. Len(h) <= e + 1 /\ Len(h) - 1 = disk.committed
    <3>1. None = -1
      BY Bounds
    <3> QED
      BY <1>2, <1>3, <1>5, <1>9, <3>1
  <2>3. OpenSound(h, e, r)'
    BY <1>4, <1>6, <2>1, <2>2, Facts DEF OpenSound, Phases, Repair, memory
  <2>4. PurgeSound'
    BY <1>4, <1>6, <1>7, <2>1, Facts DEF PurgeSound, NoPurge, NoBuild, Repair, memory
  <2> QED
    BY <1>4, <1>5, <1>6, <2>1, <2>3, <2>4, Facts, OpeningStep DEF Repair, memory, MemorySound
<1> QED
  BY <1>8, <1>9

\* The commit cursor reaches the image, by an exact header or purge cursor.
LEMMA RepairCommitKeeps ==
    ASSUME NEW h, NEW e, NEW r, Sound(h, e, r), RepairCommit
    PROVE  Sound(h, e, r)' /\ disk'.purged = disk.purged
<1>1. PICK p : p = Position(disk, images)
  OBVIOUS
<1>2. /\ p \in Int /\ p >= -1 /\ Len(h) \in Nat /\ disk.committed \in Int
      /\ Len(h) = (IF disk.committed < p THEN p ELSE disk.committed) + 1
  BY <1>1, Facts, Numbers
<1>3. phase = "commit" /\ Len(served) = p + 1 /\ AppliedPosition = p /\ p = ImagePosition(disk)
      /\ Len(h) <= e + 1 /\ Len(h) - 1 \in {disk.committed, disk.purged}
      /\ p <= r /\ StartOf(served, h)
  <2>1. phase = "commit" /\ p = ImagePosition(disk)
    BY <1>1, Facts DEF RepairCommit
  <2>2. OpenSound(h, e, r)
    BY Facts
  <2>3. Len(served) = p + 1 /\ StartOf(served, h) /\ p <= r
        /\ Len(h) <= e + 1 /\ Len(h) - 1 \in {disk.committed, disk.purged}
    BY <2>1, <2>2 DEF OpenSound
  <2> QED
    BY <1>2, <2>1, <2>3 DEF AppliedPosition
<1>4. LastLogId(retained) = e /\ e \in Int /\ retained = Span(disk.purged, e)
  BY <1>3, OpeningSpan
<1>5. (IF disk.committed < AppliedPosition THEN AppliedPosition ELSE disk.committed) = Len(h) - 1
  BY <1>2, <1>3
<1>6. disk' = [disk EXCEPT !.committed = Len(h) - 1] /\ phase' = "replay"
  BY <1>2, <1>3, <1>4, <1>5 DEF RepairCommit
<1>7. /\ DiskSound(disk', images, h, e, r) /\ disk'.purged = disk.purged
      /\ disk'.current = disk.current /\ disk'.committed = Len(h) - 1
  BY <1>6, Facts, CommittedSound DEF SameImages
<1>8. UNCHANGED <<images, served, retained>> /\ ImagePosition(disk)' = p
  BY <1>3, <1>7 DEF RepairCommit, memory, ImagePosition
<1>9. OpenSound(h, e, r)'
  <2>1. r \in Int
    BY Facts, Numbers
  <2>2. p < p + 1 /\ p + 1 <= r + 1
    BY <1>2, <1>3, <2>1
  <2> QED
    BY <1>3, <1>6, <1>7, <1>8, <2>2, Facts DEF OpenSound, Phases, RepairCommit, memory
<1>10. PurgeSound'
  BY <1>3, <1>6, Facts DEF PurgeSound, NoPurge, NoBuild, RepairCommit, memory, OpenSound
<1> QED
  BY <1>3, <1>4, <1>6, <1>7, <1>8, <1>9, <1>10, Facts, OpeningStep DEF RepairCommit, memory, MemorySound

\* A replay finds the next committed entry in the journal, with the recorded identity.
LEMMA ReplayKeeps ==
    ASSUME NEW h, NEW e, NEW r, Sound(h, e, r), Replay
    PROVE  \E s \in Index : Sound(h, e, s)' /\ disk'.purged = disk.purged
<1>1. PICK p, i : p = Position(disk, images) /\ i = Len(served)
  OBVIOUS
<1>2. phase = "replay" /\ i <= disk.committed /\ disk.committed = Len(h) - 1 /\ Len(h) <= e + 1
      /\ p < i /\ i <= r + 1 /\ StartOf(served, h) /\ served \in Seq(Entry) /\ i \in Nat
  BY <1>1, Facts DEF Replay, OpenSound, MemorySound
<1>3. /\ p \in Int /\ Len(h) \in Nat /\ e \in Int /\ r \in Int /\ disk.purged \in Int
      /\ disk.purged <= p /\ DOMAIN disk.log = (disk.purged + 1) .. e
      /\ disk.applied.index \in Int
  BY <1>1, Facts, Numbers
<1>4. i \in DOMAIN disk.log /\ i < Len(h) /\ i + 1 \in 1 .. Len(h)
  BY <1>2, <1>3
<1>5. disk.log[i] = h[i + 1] /\ (disk.applied.index >= 0 => disk.applied.id = h[disk.applied.index + 1])
  BY <1>4, Facts, Numbers
<1>6. ReplayMatches(disk, i, disk.log[i])
  BY <1>2, <1>5 DEF ReplayMatches
<1>7. PICK x : x = disk.log[i]
  OBVIOUS
<1>8. disk' = Applied(disk, i, <<x>>) /\ served' = Append(served, x) /\ phase' = "replay"
  BY <1>1, <1>2, <1>4, <1>6, <1>7 DEF Replay
<1>9. PICK s : s = IF r < i THEN i ELSE r
  OBVIOUS
<1>10. x \in Entry /\ h[i + 1] = x
  BY <1>4, <1>5, <1>7, Facts
<1>11. /\ DiskSound(disk', images, h, e, s) /\ disk'.purged = disk.purged
       /\ disk'.committed = disk.committed /\ disk'.current = disk.current
  <2>0. PICK ids : ids = <<x>>
    OBVIOUS
  <2>1. ids \in Seq(Entry) /\ Len(ids) = 1 /\ ids[1] = x
    BY <1>10, <2>0
  <2>2. i + Len(ids) <= Len(h) /\ i <= r + 1 /\ Len(ids) > 0
        /\ s = IF r < i + Len(ids) - 1 THEN i + Len(ids) - 1 ELSE r
    BY <1>2, <1>3, <1>4, <1>9, <2>1
  <2>3. \A k \in 1 .. Len(ids) : h[i + k] = ids[k]
    BY <1>10, <2>1
  <2>4. DiskSound(disk, images, h, e, r)
    BY Facts
  <2>5. disk' = Applied(disk, i, ids)
    BY <1>8, <2>0
  <2>6. /\ DiskSound(Applied(disk, i, ids), images, h, e, s)
        /\ Applied(disk, i, ids).purged = disk.purged
        /\ Applied(disk, i, ids).committed = disk.committed
        /\ Applied(disk, i, ids).current = disk.current
    <3>1. /\ i \in Nat /\ ids \in Seq(Entry) /\ Len(ids) > 0 /\ i + Len(ids) <= Len(h) /\ i <= r + 1
          /\ s = IF r < i + Len(ids) - 1 THEN i + Len(ids) - 1 ELSE r
      BY <1>2, <2>1, <2>2
    <3> QED
      BY <2>3, <2>4, <3>1, AppliedSound
  <2> QED
    BY <2>5, <2>6
<1>12. s \in Index
  BY <1>11 DEF DiskSound
<1>13. images' = images /\ retained' = retained /\ ImagePosition(disk)' = p
  BY <1>1, <1>11 DEF Replay, ImagePosition, Position
<1>14. Len(served') = i + 1 /\ StartOf(served', h) /\ served' \in Seq(Entry)
  <2>1. /\ Len(served') = i + 1 /\ served' \in Seq(Entry)
        /\ \A k \in 1 .. i : served'[k] = served[k]
        /\ served'[i + 1] = x
    BY <1>1, <1>2, <1>8, <1>10
  <2>2. ASSUME NEW k \in 1 .. i + 1 PROVE served'[k] = h[k]
    <3>1. k \in 1 .. i \/ k = i + 1
      BY <1>2, <2>2
    <3> QED
      BY <1>1, <1>2, <1>10, <2>1, <3>1 DEF StartOf
  <2> QED
    BY <1>2, <1>3, <1>4, <2>1, <2>2 DEF StartOf
<1>15. OpenSound(h, e, s)'
  <2>1. p < i + 1 /\ i + 1 <= s + 1
    BY <1>2, <1>3, <1>9
  <2> QED
    BY <1>2, <1>8, <1>11, <1>13, <1>14, <2>1, Facts DEF OpenSound, Phases, Replay
<1>16. PurgeSound'
  BY <1>2, <1>8, Facts DEF PurgeSound, NoPurge, NoBuild, Replay, OpenSound
<1>17. retained' = Span(disk'.purged, e)
  BY <1>2, <1>11, <1>13, OpeningSpan
<1>18. Sound(h, e, s)'
  BY <1>2, <1>8, <1>11, <1>14, <1>15, <1>16, <1>17, OpeningStep DEF Replay
<1> QED
  BY <1>11, <1>12, <1>18

\* A truncation removes only what lies past the commit cursor.
LEMMA TruncateKeeps ==
    ASSUME NEW h, NEW e, NEW r, Sound(h, e, r), Truncate
    PROVE  \E f \in Index : Sound(h, f, r)' /\ disk'.purged = disk.purged
<1>1. PICK q : q = disk.purged
  OBVIOUS
<1>2. /\ phase = "replay" /\ disk.committed = Len(h) - 1
      /\ ImagePosition(disk) < Len(served) /\ Len(served) <= r + 1 /\ StartOf(served, h)
      /\ served \in Seq(Entry)
  BY Facts DEF Truncate, OpenSound, MemorySound
<1>3. /\ retained = Span(q, e) /\ LastLogId(retained) = e /\ q \in Int /\ q >= -1 /\ q <= e
      /\ e \in Int
      /\ retained # NoSpan => retained.first = q + 1 /\ retained.last = e
      /\ retained = NoSpan <=> e = q
  BY <1>1, <1>2, OpeningSpan
<1>4. Len(h) \in Nat /\ q < Len(h) /\ e >= Len(h)
  <2>1. /\ Len(h) \in Nat /\ Position(disk, images) \in Int /\ Position(disk, images) < Len(h)
        /\ q <= Position(disk, images)
    BY <1>1, Facts, Numbers
  <2>2. e > disk.committed
    BY <1>3 DEF Truncate
  <2> QED
    BY <1>2, <1>3, <2>1, <2>2
<1>5. retained.first = q + 1 /\ retained.last = e /\ e # q /\ Chunk \in Nat
  BY <1>3, <1>4, BoundsAssumption
<1>6. PICK start : start = IF e - Chunk + 1 > Len(h) THEN e - Chunk + 1 ELSE Len(h)
  OBVIOUS
<1>7. PICK from : from = IF start > q + 1 THEN start ELSE q + 1
  OBVIOUS
<1>8. from \in Int /\ Len(h) <= from /\ q < from /\ from <= e
  <2>1. Chunk >= 1
    BY BoundsAssumption
  <2>2. start \in Int /\ start >= Len(h) /\ start <= e
    BY <1>3, <1>4, <1>5, <1>6, <2>1
  <2> QED
    BY <1>3, <1>4, <1>7, <2>2
<1>9. /\ disk' = [disk EXCEPT !.log = Without(@, from .. e)]
      /\ retained' = IF from = q + 1 THEN NoSpan ELSE [retained EXCEPT !.last = from - 1]
      /\ phase' = "replay" /\ UNCHANGED <<images, served, next, covered, failed, closed, worker, snap,
                                          purge, client, faults>>
  <2>1. disk.committed + 1 = Len(h)
    BY <1>2, <1>4
  <2> QED
    BY <1>2, <1>5, <1>6, <1>7, <2>1 DEF Truncate
<1>10. /\ DiskSound(disk', images, h, from - 1, r) /\ disk'.purged = q
       /\ disk'.committed = disk.committed /\ disk'.current = disk.current
  <2>1. DiskSound(disk, images, h, e, r)
    BY Facts
  <2> QED
    BY <1>1, <1>8, <1>9, <2>1, TruncatedSound DEF SameImages
<1>11. retained' = Span(q, from - 1)
  <2>1. CASE from = q + 1
    <3>1. from - 1 = q
      BY <1>3, <2>1
    <3> QED
      BY <1>9, <2>1, <3>1 DEF Span
  <2>2. CASE from # q + 1
    <3>1. retained = [first |-> q + 1, last |-> e] /\ from - 1 # q
      BY <1>3, <1>5, <1>8, <2>2 DEF Span
    <3> QED
      BY <1>9, <2>2, <3>1 DEF Span
  <2> QED
    BY <2>1, <2>2
<1>12. ImagePosition(disk)' = ImagePosition(disk)
  BY <1>9, <1>10 DEF ImagePosition
<1>13. OpenSound(h, from - 1, r)'
  <2>1. Len(h) <= (from - 1) + 1
    BY <1>4, <1>8
  <2> QED
    BY <1>2, <1>9, <1>10, <1>12, <2>1, Facts DEF OpenSound, Phases
<1>14. PurgeSound'
  BY <1>2, <1>9, Facts DEF PurgeSound, NoPurge, NoBuild, OpenSound
<1>15. Sound(h, from - 1, r)'
  BY <1>1, <1>2, <1>9, <1>10, <1>11, <1>13, <1>14, OpeningStep
<1>16. from - 1 \in Index
  BY <1>10 DEF DiskSound
<1> QED
  BY <1>1, <1>10, <1>15, <1>16

\* Entries of two sequences that agree.
LEMMA SameRange ==
    ASSUME NEW s \in Seq(Entry), NEW h \in Seq(Entry), StartOf(s, h)
    PROVE  /\ Range(s) \subseteq Range(h) /\ (Len(s) = Len(h) => Range(h) \subseteq Range(s))
           /\ (Len(s) = Len(h) => s = h)
<1>1. DOMAIN s = 1 .. Len(s) /\ DOMAIN h = 1 .. Len(h) /\ Len(s) \in Nat /\ Len(h) \in Nat
  OBVIOUS
<1>2. \A i \in 1 .. Len(s) : i \in 1 .. Len(h) /\ s[i] = h[i]
  BY <1>1 DEF StartOf
<1>3. Range(s) \subseteq Range(h)
  BY <1>1, <1>2 DEF Range
<1>4. Len(s) = Len(h) => Range(h) \subseteq Range(s)
  BY <1>1, <1>2 DEF Range
<1>5. Len(s) = Len(h) => s = h
  BY <1>2
<1> QED
  BY <1>3, <1>4, <1>5

\* A group that served its history and has no later entries starts serving.
LEMMA OpenedKeeps ==
    ASSUME NEW h, NEW e, NEW r, Sound(h, e, r), Opened
    PROVE  Sound(h, e, r)' /\ disk' = disk
<1>1. /\ phase = "replay" /\ disk.committed = Len(h) - 1 /\ Len(h) <= e + 1
      /\ ImagePosition(disk) < Len(served) /\ Len(served) <= r + 1 /\ StartOf(served, h)
      /\ served \in Seq(Entry) /\ Len(served) > disk.committed
  BY Facts DEF Opened, OpenSound, MemorySound
<1>2. retained = Span(disk.purged, e) /\ LastLogId(retained) = e /\ e \in Int /\ disk.purged <= e
      /\ worker = Idle /\ snap = NoBuild /\ ~failed /\ ~closed /\ disk.purged \in Int
  BY <1>1, OpeningSpan
<1>3. Len(h) \in Nat /\ Len(served) \in Nat /\ r \in Int /\ disk.applied.index \in Int
      /\ r <= disk.applied.index /\ disk.applied.index < Len(h) /\ Len(h) <= MaxIndex + 1
      /\ h \in Seq(Entry)
  <2>1. DiskSound(disk, images, h, e, r)
    BY Facts
  <2>2. Len(served) \in Nat
    BY <1>1
  <2> QED
    BY <2>1, <2>2, Numbers
<1>4. Len(served) = Len(h) /\ r = Len(h) - 1 /\ disk.applied.index = r
  BY <1>1, <1>3 DEF StartOf
<1>5. e = Len(h) - 1
  BY <1>1, <1>2, <1>3 DEF Opened
<1>6. /\ UNCHANGED <<disk, images, retained, served, failed, closed, worker, snap, purge, client, faults>>
      /\ next' = Len(h) /\ covered' = ImagePosition(disk)
      /\ phase' = IF disk.committed = None THEN "first" ELSE "serving"
  BY <1>1, <1>3 DEF Opened
<1>7. phase' \in {"first", "serving"} /\ (phase' = "first" => Len(h) = 0)
  BY <1>1, <1>3, <1>6, Facts
<1>8. SpanSound(e)'
  <2>1. worker.pc = "idle" /\ e \in disk.purged .. e /\ Len(h) - 1 <= e
    BY <1>1, <1>2, <1>3 DEF Idle
  <2>2. SpanAt(e, e)'
    BY <1>2, <1>6, <2>1 DEF SpanAt
  <2> QED
    BY <2>2, Facts DEF SpanSound
<1>9. phase' = "serving" => ServeSound(h, e, r)'
  <2>1. worker'.pc = "idle"
    BY <1>2, <1>6 DEF Idle
  <2>2. \A k \in 1 .. Len(images) : Len(images[k]) <= Len(h)
    BY Facts, Numbers DEF StartOf
  <2>3. client.acked \subseteq Range(served)
    <3>1. client.acked \subseteq Range(h)
      BY Facts DEF ClientSound
    <3> QED
      BY <1>1, <1>3, <1>4, <3>1, SameRange
  <2>4. e + 1 = Len(h) /\ Len(h) - 1 <= r
    BY <1>3, <1>4, <1>5
  <2> QED
    BY <1>1, <1>4, <1>6, <2>1, <2>2, <2>3, <2>4 DEF ServeSound
<1>10. OpenSound(h, e, r)'
  <2>1. phase' = "first" => served = <<>>
    <3>1. phase' = "first" => Len(served) = 0
      BY <1>4, <1>7
    <3>2. Len(served) = 0 => served = <<>>
      BY <1>1
    <3> QED
      BY <3>1, <3>2
  <2>2. phase' = "first" => e = None
    BY <1>5, <1>7, Facts
  <2> QED
    BY <1>1, <1>2, <1>6, <1>7, <2>1, <2>2, Facts DEF OpenSound, Phases
<1>11. PurgeSound' /\ SnapSound' /\ ClientSound(h)'
  <2>1. ImagePosition(disk)' = ImagePosition(disk)
    BY <1>6 DEF ImagePosition
  <2>2. PurgeSound'
    BY <1>1, <1>2, <1>6, <1>7, <2>1, Facts DEF PurgeSound, NoBuild
  <2>3. SnapSound'
    BY <1>6, <2>1, Facts DEF SnapSound
  <2>4. ClientSound(h)'
    BY <1>6, Facts DEF ClientSound
  <2> QED
    BY <2>2, <2>3, <2>4
<1>12. MemorySound'
  <2>1. Len(h) \in 0 .. MaxIndex + 1 /\ ImagePosition(disk) \in Index
    <3>1. /\ Position(disk, images) \in Int /\ Position(disk, images) >= -1
          /\ Position(disk, images) < Len(h)
      BY Facts, Numbers
    <3> QED
      BY <1>3, <3>1, Facts
  <2> QED
    BY <1>6, <2>1, Facts DEF MemorySound
<1>13. DiskSound(disk', images', h, e, r)
  BY <1>6, Facts
<1> QED
  BY <1>6, <1>8, <1>9, <1>10, <1>11, <1>12, <1>13 DEF Sound

\* The membership entry is the first of the history.
LEMMA FirstAppendKeeps ==
    ASSUME NEW h, NEW e, NEW r, Sound(h, e, r), FirstAppend
    PROVE  Sound(<<Membership>>, 0, r)' /\ Len(h) = 0 /\ disk'.purged = disk.purged
           /\ <<Membership>> \in Seq(Entry) /\ 0 \in Index /\ r \in Index
<1>1. /\ phase = "first" /\ Len(h) = 0 /\ e = -1 /\ disk.committed = Len(h) - 1 /\ served = <<>>
      /\ h \in Seq(Entry)
  BY Facts DEF FirstAppend, OpenSound
<1>2. /\ worker = Idle /\ snap = NoBuild /\ ~failed /\ ~closed
      /\ retained = Span(disk.purged, -1) /\ disk.purged = -1
  BY <1>1, OpeningSpan
<1>3. PICK g : g = <<Membership>>
  OBVIOUS
<1>4. /\ Membership \in Entry /\ Membership \in Nat /\ g \in Seq(Entry) /\ Len(g) = 1
      /\ g[1] = Membership /\ 0 \in Index
  <2>1. Membership \in Entry /\ Membership \in Nat /\ 0 \in Index
    BY Bounds
  <2> QED
    BY <1>3, <2>1
<1>5. h \o g = g /\ h = <<>>
  <2>1. h = <<>>
    BY <1>1
  <2> QED
    BY <1>4, <2>1
<1>6. /\ disk' = Recorded(disk, Len(h), g) /\ retained' = Including(retained, 0, 1)
      /\ phase' = "first_apply"
      /\ UNCHANGED <<images, served, next, covered, failed, closed, worker, snap, purge, client, faults>>
  BY <1>1, <1>3 DEF FirstAppend
<1>7. /\ DiskSound(disk', images, g, 0, r) /\ disk'.committed = 0 /\ disk'.purged = disk.purged
      /\ disk'.applied = disk.applied
  <2>1. DiskSound(disk, images, h, e, r) /\ e + 1 = Len(h) /\ Len(g) > 0 /\ Len(h) + Len(g) - 1 = 0
    BY <1>1, <1>4, Facts
  <2>2. Len(h) + Len(g) - 1 <= MaxIndex
    BY <2>1, BoundsAssumption
  <2>3. /\ \A i, j \in 1 .. Len(g) : g[i] = g[j] => i = j
        /\ \A i \in 1 .. Len(g), j \in 1 .. Len(h) : g[i] # h[j]
    BY <1>1, <1>4
  <2>4. /\ DiskSound(Recorded(disk, Len(h), g), images, h \o g, Len(h) + Len(g) - 1, r)
        /\ Recorded(disk, Len(h), g).committed = Len(h) + Len(g) - 1
        /\ Recorded(disk, Len(h), g).purged = disk.purged
        /\ Recorded(disk, Len(h), g).applied = disk.applied
    <3>1. /\ DiskSound(disk, images, h, e, r) /\ e + 1 = Len(h) /\ disk.committed = Len(h) - 1
          /\ g \in Seq(Entry) /\ Len(g) > 0 /\ Len(h) + Len(g) - 1 <= MaxIndex
      BY <1>1, <1>4, <2>1, <2>2
    <3> QED
      BY <2>3, <3>1, RecordedSound
  <2> QED
    BY <1>5, <1>6, <2>1, <2>4
<1>8. r = -1 /\ disk.applied.index = -1 /\ r \in Index
  <2>1. /\ r \in Int /\ r >= -1 /\ r <= disk.applied.index /\ disk.applied.index \in Int
        /\ disk.applied.index < Len(h)
    BY Facts, Numbers
  <2> QED
    BY <1>1, <2>1, Facts
<1>9. retained' = Span(-1, 0)
  BY <1>2, <1>6 DEF Including, Span, NoSpan, None
<1>10. SpanSound(0)'
  <2>1. worker'.pc = "idle" /\ 0 \in -1 .. 0
    BY <1>2, <1>6 DEF Idle
  <2>2. SpanAt(0, 0)'
    BY <1>2, <1>6, <1>7, <1>9, <2>1 DEF SpanAt
  <2> QED
    BY <1>4, <2>2 DEF SpanSound
<1>11. OpenSound(g, 0, r)'
  BY <1>1, <1>2, <1>3, <1>4, <1>6, <1>7, <1>8, Facts DEF OpenSound, Phases
<1>12. PurgeSound'
  BY <1>1, <1>2, <1>6, Facts DEF PurgeSound, NoBuild, NoPurge
<1>13. SnapSound'
  <2>1. NoBuild \in [pc : SnapPcs, image : Marks, target : Index] /\ NoBuild.pc = "idle"
    BY Bounds DEF NoBuild, SnapPcs, Marks
  <2> QED
    BY <1>2, <1>6, <2>1 DEF SnapSound
<1>14. ClientSound(g)'
  <2>1. ClientSound(h)
    BY Facts
  <2>2. client.acked = {} /\ worker.pc = "idle" /\ worker.ids = <<>>
    BY <1>2, <1>5, <2>1 DEF ClientSound, Range, Idle
  <2>3. \A i \in 1 .. Len(g) : g[i] <= Membership + client.attempts /\ g[i] \notin client.refused
    <3>1. client.attempts \in Nat /\ \A x \in client.refused : x > Membership /\ x \in Nat
      BY <2>1, Bounds DEF ClientSound
    <3> QED
      BY <1>4, <3>1
  <2> QED
    BY <1>6, <2>1, <2>2, <2>3 DEF ClientSound
<1>15. MemorySound'
  <2>1. Span(-1, 0) \in [first : 0 .. MaxIndex + 1, last : Index]
    BY SpanType, Bounds
  <2> QED
    BY <1>6, <1>9, <2>1, Facts DEF MemorySound
<1> QED
  BY <1>1, <1>3, <1>4, <1>6, <1>7, <1>8, <1>10, <1>11, <1>12, <1>13, <1>14, <1>15 DEF Sound

\* Its application starts the serving.
LEMMA FirstApplyKeeps ==
    ASSUME NEW h, NEW e, NEW r, Sound(h, e, r), FirstApply
    PROVE  Sound(h, e, 0)' /\ disk'.purged = disk.purged /\ 0 \in Index
<1>1. /\ phase = "first_apply" /\ h = <<Membership>> /\ e = 0 /\ r = -1 /\ disk.applied.index = -1
      /\ disk.committed = Len(h) - 1 /\ h \in Seq(Entry)
  BY Facts DEF FirstApply, OpenSound
<1>2. /\ worker = Idle /\ snap = NoBuild /\ ~failed /\ ~closed /\ worker.pc = "idle"
      /\ retained = Span(disk.purged, 0) /\ disk.purged <= 0 /\ disk.purged \in Int
  BY <1>1, OpeningSpan DEF Idle
<1>3. Len(h) = 1 /\ h[1] = Membership /\ 0 \in Index
  BY <1>1, Bounds
<1>4. /\ disk' = Applied(disk, 0, h) /\ served' = h /\ next' = 1 /\ phase' = "serving"
      /\ UNCHANGED <<images, retained, covered, failed, closed, worker, snap, purge, client, faults>>
  BY <1>1 DEF FirstApply
<1>5. /\ DiskSound(disk', images, h, 0, 0) /\ disk'.purged = disk.purged
      /\ disk'.committed = disk.committed /\ disk'.current = disk.current /\ disk'.applied.index = 0
  <2>1. DiskSound(disk, images, h, e, r) /\ 0 \in Nat /\ Len(h) > 0 /\ 0 + Len(h) <= Len(h)
        /\ 0 <= r + 1 /\ 0 = IF r < 0 + Len(h) - 1 THEN 0 + Len(h) - 1 ELSE r
    BY <1>1, <1>3, Facts
  <2>2. \A k \in 1 .. Len(h) : h[0 + k] = h[k]
    BY <1>1
  <2>3. /\ DiskSound(Applied(disk, 0, h), images, h, e, 0)
        /\ Applied(disk, 0, h).purged = disk.purged /\ Applied(disk, 0, h).committed = disk.committed
        /\ Applied(disk, 0, h).current = disk.current
        /\ Applied(disk, 0, h).applied.index =
                IF disk.applied.index < 0 + Len(h) - 1 THEN 0 + Len(h) - 1 ELSE disk.applied.index
    <3>1. PICK i : i = 0
      OBVIOUS
    <3>2. /\ DiskSound(disk, images, h, e, r) /\ i \in Nat /\ h \in Seq(Entry) /\ Len(h) > 0
          /\ i + Len(h) <= Len(h) /\ i <= r + 1
          /\ \A k \in 1 .. Len(h) : h[i + k] = h[k]
          /\ 0 = IF r < i + Len(h) - 1 THEN i + Len(h) - 1 ELSE r
      BY <1>1, <2>1, <2>2, <3>1
    <3>3. /\ DiskSound(Applied(disk, i, h), images, h, e, 0)
          /\ Applied(disk, i, h).purged = disk.purged /\ Applied(disk, i, h).committed = disk.committed
          /\ Applied(disk, i, h).current = disk.current
          /\ Applied(disk, i, h).applied.index =
                  IF disk.applied.index < i + Len(h) - 1 THEN i + Len(h) - 1 ELSE disk.applied.index
      BY <3>2, AppliedSound
    <3> QED
      BY <3>1, <3>3
  <2> QED
    BY <1>1, <1>3, <1>4, <2>3
<1>6. SpanSound(0)'
  <2>1. 0 \in disk'.purged .. 0
    BY <1>2, <1>5
  <2>2. SpanAt(0, 0)'
    BY <1>2, <1>4, <1>5, <2>1 DEF SpanAt
  <2> QED
    BY <1>3, <2>2 DEF SpanSound
<1>7. ServeSound(h, 0, 0)'
  <2>1. \A k \in 1 .. Len(images) : Len(images[k]) <= 1
    <3>1. \A k \in 1 .. Len(images) : StartOf(images[k], h)
      BY Facts, Numbers
    <3> QED
      BY <1>3, <3>1 DEF StartOf
  <2>2. client.acked \subseteq Range(h)
    BY Facts DEF ClientSound
  <2>3. StartOf(h, h)
    BY <1>3 DEF StartOf
  <2> QED
    BY <1>2, <1>3, <1>4, <1>5, <2>1, <2>2, <2>3 DEF ServeSound
<1>8. OpenSound(h, 0, 0)'
  BY <1>1, <1>3, <1>4, <1>5, Facts DEF OpenSound, Phases
<1>9. PurgeSound'
  BY <1>1, <1>2, <1>4, Facts DEF PurgeSound, NoBuild, NoPurge
<1>10. SnapSound'
  <2>1. NoBuild \in [pc : SnapPcs, image : Marks, target : Index] /\ NoBuild.pc = "idle"
    BY Bounds DEF NoBuild, SnapPcs, Marks
  <2> QED
    BY <1>2, <1>4, <2>1 DEF SnapSound
<1>11. ClientSound(h)'
  BY <1>4, Facts DEF ClientSound
<1>12. MemorySound'
  <2>1. 1 \in 0 .. MaxIndex + 1
    BY BoundsAssumption
  <2> QED
    BY <1>1, <1>4, <2>1, Facts DEF MemorySound
<1> QED
  BY <1>1, <1>3, <1>4, <1>5, <1>6, <1>7, <1>8, <1>9, <1>10, <1>11, <1>12 DEF Sound

----------------------------------------------------------------------------
(* The append worker *)

\* Tasks run only in a serving group, whose positions are these.
LEMMA Serving ==
    ASSUME NEW h, NEW e, NEW r, Sound(h, e, r),
           phase = "serving" \/ worker.pc # "idle" \/ snap.pc # "idle"
    PROVE  /\ phase = "serving" /\ ServeSound(h, e, r) /\ h \in Seq(Entry) /\ Len(h) \in Nat
           /\ e \in Int /\ e = Len(h) - 1 /\ disk.committed = Len(h) - 1 /\ e \in Index
           /\ r \in Int /\ r = disk.applied.index /\ next - 1 <= r /\ r < Len(h)
           /\ next \in Nat /\ next = Len(served) /\ served \in Seq(Entry) /\ next <= Len(h)
           /\ StartOf(served, h) /\ ImagePosition(disk) <= next - 1 /\ ImagePosition(disk) \in Int
           /\ ImagePosition(disk) >= -1
           /\ disk.purged \in Int /\ disk.purged >= -1 /\ disk.purged <= ImagePosition(disk)
           /\ worker \in [pc : WorkPcs, ids : Seq(Entry)] /\ Len(worker.ids) \in Nat
           /\ disk.purged <= e /\ r \in Index
<1>1. phase = "serving"
  BY Facts DEF OpenSound, Idle, NoBuild
<1>2. ServeSound(h, e, r) /\ served \in Seq(Entry) /\ next \in Nat
  <2>1. next \in 0 .. MaxIndex + 1
    BY Facts DEF MemorySound
  <2> QED
    BY <1>1, <2>1, Facts DEF Sound, MemorySound
<1>3. e + 1 = Len(h) /\ r = disk.applied.index /\ next = Len(served) /\ StartOf(served, h) /\ next - 1 <= r
      /\ \A k \in 1 .. Len(images) : Len(images[k]) <= next
  BY <1>2 DEF ServeSound
<1>4. /\ h \in Seq(Entry) /\ Len(h) \in Nat /\ e \in Int /\ r \in Int /\ disk.applied.index < Len(h)
      /\ disk.purged \in Int /\ disk.purged >= -1 /\ disk.purged <= e
      /\ disk.purged <= Position(disk, images) /\ Position(disk, images) \in Int
      /\ Position(disk, images) >= -1
  BY Facts, Numbers
<1>5. disk.committed = Len(h) - 1
  BY <1>1, Facts DEF OpenSound
<1>6. Position(disk, images) <= next - 1
  <2>1. CASE disk.current = None
    BY <1>2, <2>1, Bounds DEF Position
  <2>2. CASE disk.current # None
    <3>1. disk.current \in DOMAIN images
      BY <2>2, Facts DEF DiskSound, ChunksSound
    <3>2. disk.current \in 1 .. Len(images) /\ Len(images[disk.current]) \in Nat
      BY <3>1, Facts, Numbers
    <3>3. Len(images[disk.current]) <= next
      BY <1>3, <3>2
    <3> QED
      BY <1>2, <2>2, <3>2, <3>3 DEF Position
  <2> QED
    BY <2>1, <2>2
<1>7. next <= Len(h)
  BY <1>3 DEF StartOf
<1>8. worker \in [pc : WorkPcs, ids : Seq(Entry)] /\ Len(worker.ids) \in Nat
  BY Facts DEF ClientSound
<1> QED
  BY <1>1, <1>2, <1>3, <1>4, <1>5, <1>6, <1>7, <1>8, Facts

\* What the snapshot task and the purge see of the disk.
SameMarks(z, d) ==
    /\ z.purged = d.purged /\ z.current = d.current /\ z.pending = d.pending
    /\ z.obsolete = d.obsolete /\ z.chunks = d.chunks

\* A step of the worker does not disturb the snapshot task.
LEMMA TasksKeep ==
    ASSUME NEW h, NEW e, NEW r, Sound(h, e, r), SameMarks(disk', disk),
           UNCHANGED <<images, snap, purge, phase>>,
           purge.on => worker'.pc \notin {"prepared", "recorded"}
    PROVE  SnapSound' /\ PurgeSound' /\ ImagePosition(disk)' = ImagePosition(disk)
<1>1. ImagePosition(disk)' = ImagePosition(disk)
  BY DEF ImagePosition, SameMarks
<1>2. SnapSound'
  BY <1>1, Facts DEF SnapSound, SameMarks
<1>3. PurgeSound'
  BY <1>1, Facts DEF PurgeSound, SameMarks
<1> QED
  BY <1>1, <1>2, <1>3

\* A start of a start.
LEMMA StartTrans ==
    ASSUME NEW s \in Seq(Entry), NEW h \in Seq(Entry), NEW g \in Seq(Entry),
           StartOf(s, h), StartOf(h, g)
    PROVE  StartOf(s, g)
  BY DEF StartOf

\* The entries of an attempt are new to the history and may follow it.
LEMMA Longer ==
    ASSUME NEW h, NEW e, NEW r, Sound(h, e, r)
    PROVE  \E g : /\ g = h \o worker.ids
                  /\ g \in Seq(Entry) /\ Len(g) = Len(h) + Len(worker.ids) /\ StartOf(h, g)
                  /\ \A i \in 1 .. Len(g) : /\ g[i] <= Membership + client.attempts
                                             /\ g[i] \notin client.refused
                  /\ client.acked \subseteq Range(g)
                  /\ \A k \in 1 .. Len(worker.ids) : g[Len(h) + k] = worker.ids[k]
<1>0. PICK g : g = h \o worker.ids
  OBVIOUS
<1>1. h \in Seq(Entry) /\ worker.ids \in Seq(Entry)
  BY Facts DEF ClientSound
<1>2. /\ g \in Seq(Entry) /\ Len(g) = Len(h) + Len(worker.ids)
      /\ Len(h) \in Nat /\ Len(worker.ids) \in Nat
      /\ \A i \in 1 .. Len(h) : g[i] = h[i]
      /\ \A k \in 1 .. Len(worker.ids) : g[Len(h) + k] = worker.ids[k]
  BY <1>0, <1>1, ConcatIs
<1>3. StartOf(h, g)
  BY <1>2 DEF StartOf
<1>4. client.acked \subseteq Range(g)
  <2>1. Range(h) \subseteq Range(g)
    BY <1>1, <1>2, <1>3, SameRange
  <2> QED
    BY <2>1, Facts DEF ClientSound
<1>5. ASSUME NEW i \in 1 .. Len(g)
      PROVE  g[i] <= Membership + client.attempts /\ g[i] \notin client.refused
  <2>1. CASE i <= Len(h)
    <3>1. i \in 1 .. Len(h)
      BY <1>2, <2>1
    <3> QED
      BY <1>2, <3>1, Facts DEF ClientSound
  <2>2. CASE i > Len(h)
    <3>1. PICK k : k = i - Len(h)
      OBVIOUS
    <3>2. k \in 1 .. Len(worker.ids) /\ i = Len(h) + k
      BY <1>2, <2>2, <3>1
    <3> QED
      BY <1>2, <3>2, Facts DEF ClientSound
  <2> QED
    BY <1>2, <2>1, <2>2
<1> QED
  BY <1>0, <1>2, <1>3, <1>4, <1>5

\* The record of an admitted attempt.
LEMMA RecordedServing ==
    ASSUME NEW h, NEW e, NEW r, Sound(h, e, r), worker.pc \in {"append", "prepared"}
    PROVE  /\ DiskSound(Recorded(disk, next, worker.ids), images, h \o worker.ids,
                        next + Len(worker.ids) - 1, r)
           /\ Recorded(disk, next, worker.ids).committed = next + Len(worker.ids) - 1
           /\ SameMarks(Recorded(disk, next, worker.ids), disk)
           /\ Recorded(disk, next, worker.ids).applied = disk.applied
           /\ Len(h) = next
<1>1. /\ Len(h) = next /\ next + Len(worker.ids) - 1 <= MaxIndex /\ e + 1 = Len(h)
      /\ disk.committed = Len(h) - 1 /\ Len(h) \in Nat /\ e \in Int
  <2>1. ServeSound(h, e, r)
    BY Serving
  <2>2. Len(h) = next /\ next + Len(worker.ids) - 1 <= MaxIndex
    BY <2>1 DEF ServeSound
  <2> QED
    BY <2>2, Serving
<1>2. worker.ids \in Seq(Entry) /\ Len(worker.ids) > 0 /\ Len(worker.ids) \in Nat
  BY Facts DEF ClientSound
<1>3. /\ \A i, j \in 1 .. Len(worker.ids) : worker.ids[i] = worker.ids[j] => i = j
      /\ \A i \in 1 .. Len(worker.ids), j \in 1 .. Len(h) : worker.ids[i] # h[j]
  BY Facts DEF ClientSound
<1>4. PICK ids : ids = worker.ids
  OBVIOUS
<1>5. /\ \A i, j \in 1 .. Len(ids) : ids[i] = ids[j] => i = j
      /\ \A i \in 1 .. Len(ids), j \in 1 .. Len(h) : ids[i] # h[j]
  BY <1>3, <1>4
<1>6. /\ DiskSound(disk, images, h, e, r) /\ e + 1 = Len(h) /\ disk.committed = Len(h) - 1
      /\ ids \in Seq(Entry) /\ Len(ids) > 0 /\ Len(h) + Len(ids) - 1 <= MaxIndex
  BY <1>1, <1>2, <1>4, Facts
<1>7. /\ DiskSound(Recorded(disk, Len(h), ids), images, h \o ids, Len(h) + Len(ids) - 1, r)
      /\ Recorded(disk, Len(h), ids).committed = Len(h) + Len(ids) - 1
      /\ Recorded(disk, Len(h), ids).purged = disk.purged
      /\ Recorded(disk, Len(h), ids).applied = disk.applied
      /\ Recorded(disk, Len(h), ids).current = disk.current
      /\ Recorded(disk, Len(h), ids).pending = disk.pending
      /\ Recorded(disk, Len(h), ids).obsolete = disk.obsolete
      /\ Recorded(disk, Len(h), ids).chunks = disk.chunks
  BY <1>5, <1>6, RecordedSound
<1> QED
  BY <1>1, <1>4, <1>7 DEF SameMarks

\* The application of entries that are recorded.
LEMMA AppliedServing ==
    ASSUME NEW h, NEW e, NEW r, Sound(h, e, r), worker.pc \in {"appended", "recorded"}
    PROVE  /\ DiskSound(Applied(disk, next, worker.ids), images, h, e, e)
           /\ Applied(disk, next, worker.ids).committed = disk.committed
           /\ SameMarks(Applied(disk, next, worker.ids), disk)
           /\ Applied(disk, next, worker.ids).applied.index = e
           /\ Len(h) = next + Len(worker.ids)
           /\ \A k \in 1 .. Len(worker.ids) : h[next + k] = worker.ids[k]
<1>1. /\ next \in Nat /\ e \in Int /\ e = Len(h) - 1 /\ Len(h) \in Nat /\ r \in Int
      /\ r = disk.applied.index /\ DiskSound(disk, images, h, e, r)
  BY Serving, Facts
<1>2. /\ Len(h) = next + Len(worker.ids) /\ r = next - 1
      /\ \A k \in 1 .. Len(worker.ids) : h[next + k] = worker.ids[k]
  <2>1. ServeSound(h, e, r)
    BY Serving
  <2> QED
    BY <2>1 DEF ServeSound
<1>3. PICK ids : ids = worker.ids
  OBVIOUS
<1>4. ids \in Seq(Entry) /\ Len(ids) > 0 /\ Len(ids) \in Nat
  BY <1>3, Facts DEF ClientSound
<1>5. \A k \in 1 .. Len(ids) : h[next + k] = ids[k]
  BY <1>2, <1>3
<1>6. /\ DiskSound(disk, images, h, e, r) /\ next \in Nat /\ ids \in Seq(Entry) /\ Len(ids) > 0
      /\ next + Len(ids) <= Len(h) /\ next <= r + 1
      /\ e = IF r < next + Len(ids) - 1 THEN next + Len(ids) - 1 ELSE r
  BY <1>1, <1>2, <1>3, <1>4
<1>7. /\ DiskSound(Applied(disk, next, ids), images, h, e, e)
      /\ Applied(disk, next, ids).committed = disk.committed
      /\ Applied(disk, next, ids).purged = disk.purged
      /\ Applied(disk, next, ids).current = disk.current
      /\ Applied(disk, next, ids).pending = disk.pending
      /\ Applied(disk, next, ids).obsolete = disk.obsolete
      /\ Applied(disk, next, ids).chunks = disk.chunks
      /\ Applied(disk, next, ids).applied.index =
           IF disk.applied.index < next + Len(ids) - 1 THEN next + Len(ids) - 1 ELSE disk.applied.index
  BY <1>5, <1>6, AppliedSound
<1>8. disk.applied.index < next + Len(ids) - 1 /\ next + Len(ids) - 1 = e
  BY <1>1, <1>2, <1>3, <1>4
<1>9. Applied(disk, next, ids).applied.index = e
  BY <1>7, <1>8
<1> QED
  BY <1>2, <1>3, <1>7, <1>9 DEF SameMarks

\* The publication of a prepared attempt together with its record.
LEMMA JoinedServing ==
    ASSUME NEW h, NEW e, NEW r, Sound(h, e, r), worker.pc = "prepared",
           NEW z, z = Applied(Recorded(disk, next, worker.ids), next, worker.ids)
    PROVE  /\ DiskSound(z, images, h \o worker.ids, next + Len(worker.ids) - 1, next + Len(worker.ids) - 1)
           /\ z.committed = next + Len(worker.ids) - 1
           /\ SameMarks(z, disk) /\ z.applied.index = next + Len(worker.ids) - 1
           /\ Len(h) = next
<1>1. PICK ids : ids = worker.ids
  OBVIOUS
<1>2. PICK y : y = Recorded(disk, next, ids)
  OBVIOUS
<1>3. PICK g, f : g = h \o ids /\ f = next + Len(ids) - 1
  OBVIOUS
<1>4. /\ DiskSound(y, images, g, f, r) /\ y.committed = f
      /\ SameMarks(y, disk) /\ y.applied = disk.applied /\ Len(h) = next
  BY <1>1, <1>2, <1>3, RecordedServing
<1>5. /\ next \in Nat /\ e \in Int /\ e = Len(h) - 1 /\ Len(h) \in Nat /\ r \in Int
      /\ r = disk.applied.index /\ r < Len(h) /\ next - 1 <= r
  BY Serving
<1>6. ids \in Seq(Entry) /\ Len(ids) > 0 /\ Len(ids) \in Nat /\ h \in Seq(Entry)
  BY <1>1, Facts DEF ClientSound
<1>7. Len(g) = next + Len(ids) /\ \A k \in 1 .. Len(ids) : g[next + k] = ids[k]
  BY <1>3, <1>4, <1>6, ConcatIs
<1>8. /\ DiskSound(y, images, g, f, r) /\ next \in Nat /\ ids \in Seq(Entry) /\ Len(ids) > 0
      /\ next + Len(ids) <= Len(g) /\ next <= r + 1
      /\ f = IF r < next + Len(ids) - 1 THEN next + Len(ids) - 1 ELSE r
  BY <1>3, <1>4, <1>5, <1>6, <1>7
<1>9. \A k \in 1 .. Len(ids) : g[next + k] = ids[k]
  BY <1>7
<1>10. /\ DiskSound(Applied(y, next, ids), images, g, f, f)
       /\ Applied(y, next, ids).committed = y.committed
       /\ Applied(y, next, ids).purged = y.purged
       /\ Applied(y, next, ids).current = y.current
       /\ Applied(y, next, ids).pending = y.pending
       /\ Applied(y, next, ids).obsolete = y.obsolete
       /\ Applied(y, next, ids).chunks = y.chunks
       /\ Applied(y, next, ids).applied.index =
            IF y.applied.index < next + Len(ids) - 1 THEN next + Len(ids) - 1 ELSE y.applied.index
  BY <1>8, <1>9, AppliedSound
<1>11. y.applied.index < next + Len(ids) - 1
  BY <1>4, <1>5, <1>6
<1>12. Applied(y, next, ids).applied.index = f
  BY <1>3, <1>10, <1>11
<1>13. z = Applied(y, next, ids)
  BY <1>1, <1>2
<1> QED
  BY <1>1, <1>3, <1>4, <1>10, <1>12, <1>13 DEF SameMarks

\* What an attempt that ends without a response may leave: its record, its application, or neither.
LEMMA WorkFailsKeeps ==
    ASSUME NEW h, NEW e, NEW r, Sound(h, e, r), worker.pc # "idle", WorkFails,
           NEW g, NEW f, NEW s, DiskSound(disk', images, g, f, s),
           StartOf(h, g), f = Len(g) - 1, disk'.committed = Len(g) - 1, s = disk'.applied.index,
           r <= s, SameMarks(disk', disk), faults' \in 0 .. MaxFaults,
           \A i \in 1 .. Len(g) : g[i] <= Membership + client.attempts /\ g[i] \notin client.refused,
           client.acked \subseteq Range(g)
    PROVE  Sound(g, f, s)'
<1>1. /\ phase = "serving" /\ ServeSound(h, e, r) /\ h \in Seq(Entry) /\ Len(h) \in Nat
      /\ e = Len(h) - 1 /\ next - 1 <= r /\ r \in Int /\ next \in Nat /\ next = Len(served)
      /\ served \in Seq(Entry) /\ StartOf(served, h)
  BY Serving
<1>2. /\ worker' = Idle /\ failed' = TRUE /\ worker'.pc = "idle" /\ worker'.ids = <<>>
      /\ UNCHANGED <<images, phase, retained, served, next, covered, closed, snap, purge, client>>
  BY DEF WorkFails, Idle
<1>3. g \in Seq(Entry) /\ Len(g) \in Nat /\ s \in Int
  BY Numbers
<1>4. Len(h) <= Len(g) /\ e <= f
  BY <1>1, <1>3 DEF StartOf
<1>5. SpanSound(f)'
  <2> SUFFICES ASSUME snap.pc # "idle" PROVE \E x \in Index : SpanAt(f, x)'
    BY <1>2 DEF SpanSound
  <2>1. PICK x \in Index : SpanAt(e, x)
    BY <1>1 DEF Sound, SpanSound
  <2>2. disk'.purged = disk.purged /\ disk.purged \in Int
    BY Serving DEF SameMarks
  <2>3. x \in disk'.purged .. f /\ next - 1 <= x /\ retained = Span(disk'.purged, x)
    BY <1>1, <1>3, <1>4, <2>1, <2>2 DEF SpanAt
  <2>4. SpanAt(f, x)'
    BY <1>2, <2>3 DEF SpanAt
  <2> QED
    BY <2>4
<1>6. ServeSound(g, f, s)'
  <2>1. StartOf(served, g)
    BY <1>1, <1>3, StartTrans
  <2>2. f + 1 = Len(g) /\ next - 1 <= s
    BY <1>1, <1>3
  <2>3. \A k \in 1 .. Len(images) : Len(images[k]) <= next
    BY <1>1 DEF ServeSound
  <2>4. client.acked \subseteq Range(served)
    BY <1>1 DEF ServeSound
  <2> QED
    BY <1>1, <1>2, <2>1, <2>2, <2>3, <2>4 DEF ServeSound
<1>7. OpenSound(g, f, s)'
  <2>1. Len(g) <= f + 1
    BY <1>3
  <2> QED
    BY <1>1, <1>2, <2>1 DEF OpenSound, Phases
<1>8. SnapSound' /\ PurgeSound'
  BY <1>2, TasksKeep
<1>9. ClientSound(g)'
  <2>1. ClientSound(h)
    BY Facts
  <2>2. Idle \in [pc : WorkPcs, ids : Seq(Entry)] /\ Len(<<>>) = 0
    BY DEF Idle, WorkPcs
  <2> QED
    BY <1>2, <2>1, <2>2 DEF ClientSound
<1>10. MemorySound'
  BY <1>2, Facts DEF MemorySound
<1> QED
  BY <1>2, <1>5, <1>6, <1>7, <1>8, <1>9, <1>10 DEF Sound

\* An applied attempt is in the history and served.
LEMMA AppliedStep ==
    ASSUME NEW h, NEW e, NEW r, Sound(h, e, r), worker.pc # "idle",
           NEW g, NEW f, NEW s, DiskSound(disk', images, g, f, s),
           StartOf(h, g), f = Len(g) - 1, disk'.committed = Len(g) - 1, s = disk'.applied.index, s = f,
           SameMarks(disk', disk),
           \A i \in 1 .. Len(g) : g[i] <= Membership + client.attempts /\ g[i] \notin client.refused,
           client.acked \subseteq Range(g),
           Len(g) = next + Len(worker.ids),
           \A k \in 1 .. Len(worker.ids) : g[next + k] = worker.ids[k],
           served' = served \o worker.ids, next' = next + Len(worker.ids),
           worker' = [worker EXCEPT !.pc = "applied"],
           UNCHANGED <<images, phase, covered, failed, closed, snap, purge, client, faults>>,
           ~failed \/ snap.pc # "idle" => retained' = Span(disk.purged, f),
           retained' \in [first : 0 .. MaxIndex + 1, last : Index]
    PROVE  Sound(g, f, s)'
<1>1. /\ phase = "serving" /\ ServeSound(h, e, r) /\ h \in Seq(Entry) /\ Len(h) \in Nat
      /\ next \in Nat /\ next = Len(served) /\ served \in Seq(Entry) /\ StartOf(served, h)
      /\ worker \in [pc : WorkPcs, ids : Seq(Entry)] /\ Len(worker.ids) \in Nat
      /\ disk.purged \in Int
  BY Serving
<1>2. worker'.pc = "applied" /\ worker'.ids = worker.ids /\ worker' \in [pc : WorkPcs, ids : Seq(Entry)]
  BY <1>1 DEF WorkPcs
<1>3. /\ g \in Seq(Entry) /\ Len(g) \in Nat /\ s \in Int /\ f \in Int /\ Len(g) <= MaxIndex + 1
      /\ disk'.purged <= f /\ disk'.purged = disk.purged
  BY Numbers DEF SameMarks
<1>4. worker.ids \in Seq(Entry)
  BY <1>1
<1>5. /\ served' \in Seq(Entry) /\ Len(served') = next' /\ next' = Len(g)
      /\ \A i \in 1 .. next : served'[i] = served[i]
      /\ \A k \in 1 .. Len(worker.ids) : served'[next + k] = worker.ids[k]
  <2>1. served' = served \o worker.ids /\ next = Len(served) /\ next' = next + Len(worker.ids)
    BY <1>1
  <2>2. /\ served \o worker.ids \in Seq(Entry)
        /\ Len(served \o worker.ids) = Len(served) + Len(worker.ids)
        /\ \A i \in 1 .. Len(served) : (served \o worker.ids)[i] = served[i]
        /\ \A k \in 1 .. Len(worker.ids) : (served \o worker.ids)[Len(served) + k] = worker.ids[k]
    BY <1>1, <1>4, ConcatIs
  <2>3. next' = Len(g) /\ Len(served') = next'
    BY <2>1, <2>2
  <2> QED
    BY <2>1, <2>2, <2>3, Zenon
<1>6. StartOf(served', g)
  <2>1. StartOf(served, g)
    BY <1>1, <1>3, StartTrans
  <2>2. ASSUME NEW i \in 1 .. Len(g) PROVE served'[i] = g[i]
    <3>1. CASE i <= next
      <4>1. i \in 1 .. next
        BY <1>1, <3>1
      <4> QED
        BY <1>1, <1>5, <2>1, <4>1 DEF StartOf
    <3>2. CASE i > next
      <4>1. PICK k : k = i - next
        OBVIOUS
      <4>2. k \in 1 .. Len(worker.ids) /\ i = next + k
        BY <1>1, <1>3, <3>2, <4>1
      <4> QED
        BY <1>5, <4>2
    <3> QED
      BY <1>1, <3>1, <3>2
  <2> QED
    BY <1>3, <1>5, <2>2 DEF StartOf
<1>7. SpanSound(f)'
  <2> SUFFICES ASSUME ~failed \/ snap.pc # "idle" PROVE \E x \in Index : SpanAt(f, x)'
    BY DEF SpanSound
  <2>1. retained' = Span(disk'.purged, f)
    BY <1>3
  <2>2. f \in disk'.purged .. f /\ next' - 1 <= f
    BY <1>1, <1>3, <1>5
  <2>3. SpanAt(f, f)'
    BY <1>2, <2>1, <2>2 DEF SpanAt
  <2>4. f \in Index
    BY DEF DiskSound
  <2> QED
    BY <2>3, <2>4
<1>8. ServeSound(g, f, s)'
  <2>1. f + 1 = Len(g) /\ next' - 1 <= s
    BY <1>3, <1>5
  <2>2. \A k \in 1 .. Len(images) : Len(images[k]) <= next'
    <3>1. \A k \in 1 .. Len(images) : Len(images[k]) <= next
      BY <1>1 DEF ServeSound
    <3>2. \A k \in 1 .. Len(images) : Len(images[k]) \in Nat
      <4>1. images \in Seq(Seq(Entry))
        BY DEF DiskSound, ImagesSound
      <4> QED
        BY <4>1
    <3>3. next <= next' /\ next' \in Nat /\ next \in Nat
      BY <1>1
    <3>4. \A x \in Nat : x <= next => x <= next'
      BY <3>3
    <3> QED
      BY <3>1, <3>2, <3>4
  <2>3. Range(g) \subseteq Range(served')
    BY <1>3, <1>5, <1>6, SameRange
  <2>4. Range(worker.ids) \subseteq Range(served')
    <3>1. \A k \in 1 .. Len(worker.ids) : next + k \in 1 .. Len(served')
      BY <1>1, <1>5
    <3>2. DOMAIN served' = 1 .. Len(served') /\ DOMAIN worker.ids = 1 .. Len(worker.ids)
      BY <1>4, <1>5
    <3>3. ASSUME NEW y \in Range(worker.ids) PROVE y \in Range(served')
      <4>1. PICK k \in 1 .. Len(worker.ids) : y = worker.ids[k]
        BY <3>2 DEF Range
      <4>2. next + k \in DOMAIN served' /\ y = served'[next + k]
        BY <1>5, <3>1, <3>2, <4>1
      <4> QED
        BY <4>2 DEF Range
    <3> QED
      BY <3>3
  <2> QED
    BY <1>2, <1>5, <1>6, <2>1, <2>2, <2>3, <2>4 DEF ServeSound
<1>9. OpenSound(g, f, s)'
  <2>1. Len(g) <= f + 1
    BY <1>3
  <2> QED
    BY <1>1, <2>1 DEF OpenSound, Phases
<1>10. SnapSound' /\ PurgeSound'
  BY <1>2, TasksKeep
<1>11. ClientSound(g)'
  <2>1. ClientSound(h)
    BY Facts
  <2> QED
    BY <1>2, <2>1 DEF ClientSound
<1>12. MemorySound'
  <2>1. next' \in 0 .. MaxIndex + 1
    BY <1>3, <1>5
  <2> QED
    BY <1>5, <2>1, Facts DEF MemorySound
<1> QED
  BY <1>1, <1>7, <1>8, <1>9, <1>10, <1>11, <1>12 DEF Sound

\* A step of the worker that leaves the disk and the memory alone.
LEMMA WorkerStep ==
    ASSUME NEW h, NEW e, NEW r, Sound(h, e, r), phase = "serving",
           UNCHANGED <<disk, images, phase, memory, snap, purge, faults>>,
           worker.pc # "recorded", worker'.pc # "recorded", worker'.pc = "prepared" => ~purge.on,
           ServeSound(h, e, r)', ClientSound(h)'
    PROVE  Sound(h, e, r)'
<1>1. SameMarks(disk', disk)
  BY DEF SameMarks
<1>2. SnapSound' /\ PurgeSound'
  BY <1>1, TasksKeep
<1>3. SpanSound(e)'
  <2>1. SpanSound(e)
    BY DEF Sound
  <2> QED
    BY <2>1 DEF SpanSound, SpanAt, memory
<1>4. OpenSound(h, e, r)'
  BY Facts DEF OpenSound, Phases
<1>5. MemorySound'
  BY Facts DEF MemorySound, memory
<1>6. DiskSound(disk', images', h, e, r)
  BY Facts
<1> QED
  BY <1>2, <1>3, <1>4, <1>5, <1>6 DEF Sound

\* An attempt is numbered after everything stored.
LEMMA SubmitKeeps ==
    ASSUME NEW h, NEW e, NEW r, Sound(h, e, r), NEW n \in 1 .. 2, NEW joined \in BOOLEAN,
           Submit(n, joined)
    PROVE  Sound(h, e, r)' /\ disk' = disk
<1>1. /\ phase = "serving" /\ ~failed /\ worker = Idle /\ worker.pc = "idle"
      /\ next + n - 1 <= MaxIndex /\ client.attempts + n <= MaxAttempts
      /\ UNCHANGED <<disk, images, phase, memory, snap, purge, faults>>
  BY DEF Submit, Idle
<1>2. PICK ids : ids = [k \in 1 .. n |-> Membership + client.attempts + k]
  OBVIOUS
<1>3. ClientSound(h) /\ ServeSound(h, e, r) /\ Len(h) \in Nat /\ e = Len(h) - 1 /\ e \in Int
      /\ h \in Seq(Entry)
  BY <1>1, Facts, Serving
<1>4. client.attempts \in Nat /\ client.attempts + n \in 0 .. MaxAttempts /\ MaxAttempts \in Nat
      /\ Membership \in Nat /\ Entry = 0 .. Membership + MaxAttempts
  BY <1>1, <1>3, Bounds DEF ClientSound
<1>5. /\ ids \in Seq(Entry) /\ Len(ids) = n
      /\ \A k \in 1 .. n : ids[k] = Membership + client.attempts + k
  <2>1. \A k \in 1 .. n : Membership + client.attempts + k \in Entry
    BY <1>1, <1>4
  <2> QED
    BY <1>2, <2>1
<1>6. /\ worker' = [pc |-> IF joined THEN "joined" ELSE "append", ids |-> ids]
      /\ client' = [client EXCEPT !.attempts = @ + n]
  BY <1>2 DEF Submit
<1>7. worker'.pc \in {"append", "joined"} /\ worker'.ids = ids
      /\ worker' \in [pc : WorkPcs, ids : Seq(Entry)]
  BY <1>5, <1>6 DEF WorkPcs
<1>8. /\ client'.attempts = client.attempts + n /\ client'.acked = client.acked
      /\ client'.refused = client.refused
      /\ client' \in [attempts : 0 .. MaxAttempts, acked : SUBSET Entry, refused : SUBSET Entry]
  BY <1>3, <1>4, <1>6 DEF ClientSound
<1>9. ServeSound(h, e, r)'
  <2>1. Len(h) = next
    BY <1>1, <1>3 DEF ServeSound
  <2>2. retained # NoSpan => retained.last + 1 = next
    <3>1. PICK x \in Index : SpanAt(e, x)
      BY <1>1 DEF Sound, SpanSound
    <3>2. x = e /\ retained = Span(disk.purged, e)
      BY <1>1, <3>1 DEF SpanAt
    <3>3. disk.purged \in Int /\ disk.purged >= -1 /\ disk.purged <= e
      BY <1>1, Serving
    <3>4. retained # NoSpan => retained.last = e
      BY <1>3, <3>2, <3>3, SpanEnds
    <3> QED
      BY <1>3, <2>1, <3>4
  <2> QED
    BY <1>1, <1>3, <1>5, <1>7, <1>8, <2>1, <2>2 DEF ServeSound, memory
<1>10. ClientSound(h)'
  <2>1. \A i \in 1 .. Len(h) : /\ h[i] <= Membership + client'.attempts /\ h[i] \notin client'.refused
                               /\ h[i] <= Membership + client.attempts /\ h[i] \in Nat
    <3>1. \A i \in 1 .. Len(h) : h[i] <= Membership + client.attempts /\ h[i] \notin client.refused
      BY <1>3 DEF ClientSound
    <3>2. \A i \in 1 .. Len(h) : h[i] \in Nat
      BY <1>3, <1>4
    <3>3. Membership + client.attempts <= Membership + client'.attempts
      BY <1>4, <1>8
    <3>4. Membership + client.attempts \in Int /\ Membership + client'.attempts \in Int
      BY <1>4, <1>8
    <3> HIDE DEF Membership
    <3> QED
      BY <1>8, <3>1, <3>2, <3>3, <3>4
  <2>2. \A x \in client'.refused : x > Membership /\ x <= Membership + client'.attempts
                                   /\ x <= Membership + client.attempts /\ x \in Nat
    <3>1. \A x \in client.refused : x > Membership /\ x <= Membership + client.attempts /\ x \in Nat
      BY <1>3, <1>4 DEF ClientSound
    <3> QED
      BY <1>4, <1>8, <3>1
  <2>3. \A i, j \in 1 .. n : /\ ids[i] = ids[j] => i = j
                             /\ ids[i] > Membership /\ ids[i] <= Membership + client'.attempts
                             /\ ids[i] \notin client'.refused
    <3> SUFFICES ASSUME NEW i \in 1 .. n, NEW j \in 1 .. n
                 PROVE  /\ ids[i] = ids[j] => i = j
                        /\ ids[i] > Membership /\ ids[i] <= Membership + client'.attempts
                        /\ ids[i] \notin client'.refused
      OBVIOUS
    <3>1. ids[i] = Membership + client.attempts + i /\ ids[j] = Membership + client.attempts + j
      BY <1>5
    <3>2. ids[i] > Membership + client.attempts /\ ids[i] <= Membership + client'.attempts
          /\ ids[i] > Membership
      <4>1. client'.attempts = client.attempts + n
        BY <1>8, Zenon
      <4>2. client.attempts \in Nat /\ Membership \in Nat /\ i \in 1 .. n /\ n \in Nat
        BY <1>4
      <4> QED
        BY <3>1, <4>1, <4>2
    <3>3. ids[i] = ids[j] => i = j
      BY <1>4, <3>1
    <3>4. ids[i] \notin client'.refused
      BY <1>4, <2>2, <3>2
    <3> QED
      BY <3>2, <3>3, <3>4
  <2>4. \A i \in 1 .. n, j \in 1 .. Len(h) : ids[i] # h[j]
    <3> SUFFICES ASSUME NEW i \in 1 .. n, NEW j \in 1 .. Len(h)
                 PROVE  ids[i] # h[j]
      OBVIOUS
    <3>1. ids[i] = Membership + client.attempts + i
      BY <1>5, Zenon
    <3>2. h[j] <= Membership + client.attempts
      BY <2>1, Zenon
    <3> QED
      BY <1>4, <3>1, <3>2
  <2>5. client'.acked \subseteq Range(h)
    BY <1>3, <1>8 DEF ClientSound
  <2>6. Len(ids) > 0
    BY <1>5
  <2> QED
    BY <1>5, <1>7, <1>8, <2>1, <2>2, <2>3, <2>4, <2>5, <2>6 DEF ClientSound
<1> QED
  BY <1>1, <1>7, <1>9, <1>10, WorkerStep

\* A refused attempt is not in the history, and never will be.
LEMMA RefusedKeeps ==
    ASSUME NEW h, NEW e, NEW r, Sound(h, e, r), worker.pc \in {"append", "joined", "prepared"}, Refused
    PROVE  Sound(h, e, r)' /\ disk' = disk
<1>1. phase = "serving" /\ ServeSound(h, e, r) /\ ClientSound(h)
  BY Serving, Facts
<1>2. /\ worker' = Idle /\ worker'.pc = "idle" /\ worker'.ids = <<>>
      /\ client' = [client EXCEPT !.refused = @ \cup Range(worker.ids)]
      /\ UNCHANGED <<disk, images, phase, memory, snap, purge, faults>>
  BY DEF Refused, Idle
<1>3. worker.ids \in Seq(Entry) /\ \A x \in Range(worker.ids) : \E i \in 1 .. Len(worker.ids) : x = worker.ids[i]
  <2>1. worker.ids \in Seq(Entry) /\ DOMAIN worker.ids = 1 .. Len(worker.ids)
    BY <1>1 DEF ClientSound
  <2> QED
    BY <2>1 DEF Range
<1>4. /\ client'.attempts = client.attempts /\ client'.acked = client.acked
      /\ client'.refused = client.refused \cup Range(worker.ids)
      /\ client' \in [attempts : 0 .. MaxAttempts, acked : SUBSET Entry, refused : SUBSET Entry]
  <2>1. Range(worker.ids) \subseteq Entry
    BY <1>3
  <2> QED
    BY <1>1, <1>2, <2>1 DEF ClientSound
<1>5. ServeSound(h, e, r)'
  BY <1>1, <1>2, <1>4 DEF ServeSound, memory
<1>6. ClientSound(h)'
  <2>1. \A i \in 1 .. Len(h) : h[i] \notin Range(worker.ids)
    BY <1>1, <1>3 DEF ClientSound
  <2>2. \A x \in Range(worker.ids) : x > Membership /\ x <= Membership + client.attempts
    BY <1>1, <1>3 DEF ClientSound
  <2>3. Idle \in [pc : WorkPcs, ids : Seq(Entry)] /\ Len(<<>>) = 0
    BY DEF Idle, WorkPcs
  <2>4. /\ client'.acked \subseteq Range(h)
        /\ \A i \in 1 .. Len(h) : h[i] <= Membership + client'.attempts /\ h[i] \notin client'.refused
        /\ \A x \in client'.refused : x > Membership /\ x <= Membership + client'.attempts
    BY <1>1, <1>4, <2>1, <2>2 DEF ClientSound
  <2>5. 1 .. Len(<<>>) = {}
    BY <2>3
  <2> QED
    BY <1>2, <1>4, <2>3, <2>4, <2>5 DEF ClientSound
<1> QED
  BY <1>1, <1>2, <1>5, <1>6, WorkerStep

\* prepare_local_append holds the gate.
LEMMA PrepareKeeps ==
    ASSUME NEW h, NEW e, NEW r, Sound(h, e, r), PrepareLocalAppend
    PROVE  Sound(h, e, r)' /\ disk' = disk
<1>1. phase = "serving" /\ ServeSound(h, e, r) /\ ClientSound(h) /\ worker.pc = "joined"
      /\ worker \in [pc : WorkPcs, ids : Seq(Entry)]
  BY Serving, Facts DEF PrepareLocalAppend
<1>2. /\ worker' = [worker EXCEPT !.pc = "prepared"] /\ ~purge.on
      /\ UNCHANGED <<disk, images, phase, memory, snap, purge, client, faults>>
  BY DEF PrepareLocalAppend, GateFree
<1>3. worker'.pc = "prepared" /\ worker'.ids = worker.ids /\ worker' \in [pc : WorkPcs, ids : Seq(Entry)]
  BY <1>1, <1>2 DEF WorkPcs
<1>4. ServeSound(h, e, r)'
  BY <1>1, <1>2, <1>3 DEF ServeSound, memory
<1>5. ClientSound(h)'
  BY <1>1, <1>2, <1>3 DEF ClientSound
<1> QED
  BY <1>1, <1>2, <1>3, <1>4, <1>5, WorkerStep

\* A committed record makes the history longer before the entries are applied.
LEMMA RecordedStep ==
    ASSUME NEW h, NEW e, NEW r, Sound(h, e, r), worker.pc \in {"append", "prepared"},
           NEW w \in {"appended", "recorded"}, worker' = [worker EXCEPT !.pc = w],
           disk' = Recorded(disk, next, worker.ids), ~purge.on,
           UNCHANGED <<images, phase, served, next, covered, failed, closed, snap, purge, client, faults>>,
           NEW x, ~failed \/ snap.pc # "idle" => retained' = Span(disk.purged, x),
           x = IF w = "recorded" THEN next - 1 ELSE next + Len(worker.ids) - 1,
           retained' \in [first : 0 .. MaxIndex + 1, last : Index],
           NEW g, NEW f, g = h \o worker.ids, f = next + Len(worker.ids) - 1
    PROVE  Sound(g, f, r)' /\ StartOf(h, g) /\ disk'.purged = disk.purged /\ f \in Index /\ g \in Seq(Entry)
<1>1. /\ phase = "serving" /\ ServeSound(h, e, r) /\ h \in Seq(Entry) /\ Len(h) \in Nat
      /\ next \in Nat /\ next = Len(served) /\ served \in Seq(Entry) /\ StartOf(served, h)
      /\ worker \in [pc : WorkPcs, ids : Seq(Entry)] /\ Len(worker.ids) \in Nat
      /\ disk.purged \in Int /\ r \in Int /\ r = disk.applied.index /\ r < Len(h) /\ next - 1 <= r
      /\ disk.purged <= next - 1 /\ ImagePosition(disk) \in Int
  BY Serving
<1>2. /\ DiskSound(disk', images, g, f, r) /\ disk'.committed = f /\ SameMarks(disk', disk)
      /\ disk'.applied = disk.applied /\ Len(h) = next
  BY RecordedServing
<1>3. /\ g \in Seq(Entry) /\ Len(g) = Len(h) + Len(worker.ids) /\ StartOf(h, g)
      /\ client.acked \subseteq Range(g)
      /\ \A k \in 1 .. Len(worker.ids) : g[Len(h) + k] = worker.ids[k]
  BY Longer
<1>4. \A i \in 1 .. Len(g) : g[i] <= Membership + client.attempts /\ g[i] \notin client.refused
  BY Longer
<1>5. worker'.pc = w /\ worker'.ids = worker.ids /\ worker' \in [pc : WorkPcs, ids : Seq(Entry)]
  BY <1>1 DEF WorkPcs
<1>6. f = Len(g) - 1 /\ r = next - 1 /\ Len(g) \in Nat /\ Len(worker.ids) > 0 /\ f \in Int
  <2>1. Len(worker.ids) > 0
    BY Facts DEF ClientSound
  <2> QED
    BY <1>1, <1>2, <1>3, <2>1
<1>7. f \in Index /\ Index = -1 .. MaxIndex /\ MaxIndex \in Nat
  BY <1>2, Bounds DEF DiskSound
<1>8. x \in Int /\ next - 1 <= x /\ x <= f /\ x \in Index
  BY <1>1, <1>6, <1>7
<1>9. SpanSound(f)'
  <2> SUFFICES ASSUME ~failed \/ snap.pc # "idle" PROVE SpanAt(f, x)'
    BY <1>8 DEF SpanSound
  <2>1. disk'.purged = disk.purged /\ x \in disk.purged .. f
    BY <1>1, <1>2, <1>6, <1>8 DEF SameMarks
  <2>2. retained' = Span(disk'.purged, x)
    BY <2>1
  <2>3. (w # "recorded" => x = f) /\ (w = "recorded" => x = next - 1)
    BY <1>6
  <2> QED
    BY <1>5, <1>8, <2>1, <2>2, <2>3 DEF SpanAt
<1>10. ServeSound(g, f, r)'
  <2>1. StartOf(served, g)
    BY <1>1, <1>3, StartTrans
  <2>2. f + 1 = Len(g) /\ next - 1 <= r /\ Len(g) = next + Len(worker.ids)
    BY <1>1, <1>2, <1>3, <1>6
  <2>3. /\ \A k \in 1 .. Len(images) : Len(images[k]) <= next
        /\ client.acked \subseteq Range(served)
    BY <1>1 DEF ServeSound
  <2>4. \A k \in 1 .. Len(worker.ids) : g[next + k] = worker.ids[k]
    BY <1>2, <1>3
  <2> QED
    BY <1>1, <1>2, <1>5, <1>6, <2>1, <2>2, <2>3, <2>4 DEF ServeSound
<1>11. OpenSound(g, f, r)'
  <2>1. Len(g) <= f + 1
    BY <1>6
  <2> QED
    BY <1>1, <1>2, <1>6, <2>1 DEF OpenSound, Phases
<1>12. SnapSound' /\ PurgeSound'
  BY <1>2, TasksKeep
<1>13. ClientSound(g)'
  <2>1. ClientSound(h)
    BY Facts
  <2>2. worker'.pc \notin {"idle", "append", "joined", "prepared"} /\ worker.pc # "idle"
    BY <1>5
  <2> QED
    BY <1>3, <1>4, <1>5, <2>1, <2>2 DEF ClientSound
<1>14. MemorySound'
  BY Facts DEF MemorySound
<1> QED
  BY <1>1, <1>2, <1>3, <1>7, <1>9, <1>10, <1>11, <1>12, <1>13, <1>14 DEF Sound, SameMarks

\* The span that an append makes is one the process can hold.
LEMMA IncludingType ==
    ASSUME NEW span \in [first : 0 .. MaxIndex + 1, last : Index], NEW i \in Nat, NEW n \in Nat \ {0},
           i + n - 1 <= MaxIndex
    PROVE  Including(span, i, n) \in [first : 0 .. MaxIndex + 1, last : Index]
<1>1. i \in 0 .. MaxIndex + 1 /\ i + n - 1 \in Index
  BY Bounds
<1>2. (IF span = NoSpan THEN i ELSE span.first) \in 0 .. MaxIndex + 1
  BY <1>1
<1> QED
  BY <1>1, <1>2 DEF Including

\* append_local: the record, then the span.
LEMMA AppendLocalKeeps ==
    ASSUME NEW h, NEW e, NEW r, Sound(h, e, r), AppendLocal
    PROVE  \E g \in Seq(Entry), f \in Index : /\ Sound(g, f, r)' /\ StartOf(h, g)
                                              /\ disk'.purged = disk.purged
<1>1. /\ worker.pc = "append" /\ ~purge.on /\ check_append
      /\ disk' = Recorded(disk, next, worker.ids)
      /\ retained' = Including(retained, next, Len(worker.ids))
      /\ worker' = [worker EXCEPT !.pc = "appended"]
      /\ UNCHANGED <<images, phase, served, next, covered, failed, closed, snap, purge, client, faults>>
  BY DEF AppendLocal, GateFree
<1>2. /\ next \in Nat /\ disk.purged \in Int /\ disk.purged >= -1 /\ disk.purged <= next - 1
      /\ phase = "serving" /\ Len(worker.ids) \in Nat /\ e \in Int
  <2>1. /\ next \in Nat /\ disk.purged \in Int /\ disk.purged >= -1 /\ phase = "serving" /\ e \in Int
        /\ ImagePosition(disk) <= next - 1 /\ ImagePosition(disk) \in Int
        /\ disk.purged <= ImagePosition(disk) /\ Len(worker.ids) \in Nat
    BY <1>1, Serving
  <2> QED
    BY <2>1
<1>3. Len(worker.ids) > 0 /\ next + Len(worker.ids) - 1 <= MaxIndex
  <2>1. ServeSound(h, e, r)
    BY <1>1, Serving
  <2> QED
    BY <1>1, <2>1, Facts DEF ServeSound, ClientSound
<1>4. PICK n, x : n = Len(worker.ids) /\ x = next + Len(worker.ids) - 1
  OBVIOUS
<1>5. ~failed \/ snap.pc # "idle" => retained' = Span(disk.purged, x)
  <2> SUFFICES ASSUME ~failed \/ snap.pc # "idle" PROVE retained' = Span(disk.purged, x)
    OBVIOUS
  <2>1. PICK y \in Index : SpanAt(e, y)
    BY <1>2 DEF Sound, SpanSound
  <2>2. /\ y \in Int /\ disk.purged <= y /\ retained = Span(disk.purged, y) /\ next - 1 <= y
    BY <1>2, <2>1 DEF SpanAt
  <2>3. (retained = NoSpan <=> y = disk.purged) /\ (retained # NoSpan => retained.last = y)
    BY <1>2, <2>2, SpanEnds
  <2>4. retained # NoSpan => retained.last + 1 = next
    BY <1>1 DEF check_append
  <2>5. y + 1 = next
    <3>1. CASE retained = NoSpan
      BY <1>2, <2>2, <2>3, <3>1
    <3>2. CASE retained # NoSpan
      BY <2>3, <2>4, <3>2
    <3> QED
      BY <3>1, <3>2
  <2>6. n \in Nat \ {0}
    BY <1>2, <1>3, <1>4
  <2>7. Including(Span(disk.purged, y), y + 1, n) = Span(disk.purged, y + n)
    BY <1>2, <2>2, <2>6, IncludingIs
  <2>8. y + n = x
    BY <1>2, <1>4, <2>2, <2>5
  <2> QED
    BY <1>1, <1>4, <2>2, <2>5, <2>7, <2>8
<1>6. retained' \in [first : 0 .. MaxIndex + 1, last : Index]
  <2>1. retained \in [first : 0 .. MaxIndex + 1, last : Index]
    BY Facts DEF MemorySound
  <2> QED
    BY <1>1, <1>2, <1>3, <2>1, IncludingType
<1>7. x = IF "appended" = "recorded" THEN next - 1 ELSE next + Len(worker.ids) - 1
  BY <1>4
<1>8. PICK g : g = h \o worker.ids
  OBVIOUS
<1>9. Sound(g, x, r)' /\ StartOf(h, g) /\ disk'.purged = disk.purged /\ x \in Index /\ g \in Seq(Entry)
  BY <1>1, <1>4, <1>5, <1>6, <1>7, <1>8, RecordedStep
<1> QED
  BY <1>9

\* before_write: the record is committed by itself and the span waits.
LEMMA BarrierKeeps ==
    ASSUME NEW h, NEW e, NEW r, Sound(h, e, r), BarrierCommits
    PROVE  \E g \in Seq(Entry), f \in Index : /\ Sound(g, f, r)' /\ StartOf(h, g)
                                              /\ disk'.purged = disk.purged
<1>1. /\ worker.pc = "prepared" /\ ~failed /\ disk' = Recorded(disk, next, worker.ids)
      /\ worker' = [worker EXCEPT !.pc = "recorded"]
      /\ UNCHANGED <<images, phase, retained, served, next, covered, failed, closed, snap, purge,
                     client, faults>>
  BY DEF BarrierCommits, memory
<1>2. /\ phase = "serving" /\ e \in Int /\ e = Len(h) - 1 /\ next \in Nat /\ ServeSound(h, e, r)
      /\ Len(h) \in Nat
  BY <1>1, Serving
<1>3. ~purge.on
  BY <1>1, <1>2, Facts DEF PurgeSound
<1>4. PICK f, x : f = next + Len(worker.ids) - 1 /\ x = next - 1
  OBVIOUS
<1>5. retained' = Span(disk.purged, x)
  <2>1. PICK y \in Index : SpanAt(e, y)
    BY <1>1, <1>2 DEF Sound, SpanSound
  <2>2. y = e /\ retained = Span(disk.purged, e)
    BY <1>1, <2>1 DEF SpanAt
  <2>3. e = next - 1
    BY <1>1, <1>2 DEF ServeSound
  <2> QED
    BY <1>1, <1>4, <2>2, <2>3
<1>6. retained' \in [first : 0 .. MaxIndex + 1, last : Index]
  BY <1>1, Facts DEF MemorySound
<1>7. x = IF "recorded" = "recorded" THEN next - 1 ELSE next + Len(worker.ids) - 1
  BY <1>4
<1>8. PICK g : g = h \o worker.ids
  OBVIOUS
<1>9. Sound(g, f, r)' /\ StartOf(h, g) /\ disk'.purged = disk.purged /\ f \in Index /\ g \in Seq(Entry)
  BY <1>1, <1>3, <1>4, <1>5, <1>6, <1>7, <1>8, RecordedStep
<1> QED
  BY <1>9

\* A history starts itself, and its entries are the client's.
LEMMA SelfStart ==
    ASSUME NEW h, NEW e, NEW r, Sound(h, e, r)
    PROVE  /\ StartOf(h, h) /\ client.acked \subseteq Range(h)
           /\ \A i \in 1 .. Len(h) : h[i] <= Membership + client.attempts /\ h[i] \notin client.refused
<1>1. Len(h) \in Nat
  BY Facts
<1> QED
  BY <1>1, Facts DEF StartOf, ClientSound

\* The apply of an appended entry.
LEMMA ApplyLocalKeeps ==
    ASSUME NEW h, NEW e, NEW r, Sound(h, e, r), ApplyLocal
    PROVE  Sound(h, e, e)' /\ disk'.purged = disk.purged
<1>1. /\ worker.pc = "appended" /\ ~failed /\ disk' = Applied(disk, next, worker.ids)
      /\ served' = served \o worker.ids /\ next' = next + Len(worker.ids)
      /\ worker' = [worker EXCEPT !.pc = "applied"] /\ retained' = retained
      /\ UNCHANGED <<images, phase, covered, failed, closed, snap, purge, client, faults>>
  BY DEF ApplyLocal
<1>2. /\ DiskSound(disk', images, h, e, e) /\ disk'.committed = disk.committed
      /\ SameMarks(disk', disk) /\ disk'.applied.index = e
      /\ Len(h) = next + Len(worker.ids)
  BY <1>1, AppliedServing
<1>3. \A k \in 1 .. Len(worker.ids) : h[next + k] = worker.ids[k]
  BY <1>1, AppliedServing
<1>4. phase = "serving" /\ e = Len(h) - 1 /\ disk.committed = Len(h) - 1
  BY <1>1, Serving
<1>5. retained = Span(disk.purged, e)
  <2>1. PICK y \in Index : SpanAt(e, y)
    BY <1>1, <1>4 DEF Sound, SpanSound
  <2> QED
    BY <1>1, <2>1 DEF SpanAt
<1>6. retained' \in [first : 0 .. MaxIndex + 1, last : Index]
  BY <1>1, Facts DEF MemorySound
<1>7. /\ StartOf(h, h) /\ client.acked \subseteq Range(h)
      /\ \A i \in 1 .. Len(h) : h[i] <= Membership + client.attempts /\ h[i] \notin client.refused
  BY SelfStart
<1> QED
  BY <1>1, <1>2, <1>3, <1>4, <1>5, <1>6, <1>7, AppliedStep DEF SameMarks

\* The apply of an entry whose record a barrier committed.
LEMMA ApplyRecordedKeeps ==
    ASSUME NEW h, NEW e, NEW r, Sound(h, e, r), ApplyRecorded
    PROVE  Sound(h, e, e)' /\ disk'.purged = disk.purged
<1>1. /\ worker.pc = "recorded" /\ disk' = Applied(disk, next, worker.ids)
      /\ served' = served \o worker.ids /\ next' = next + Len(worker.ids)
      /\ worker' = [worker EXCEPT !.pc = "applied"]
      /\ retained' = Including(retained, next, Len(worker.ids))
      /\ UNCHANGED <<images, phase, covered, failed, closed, snap, purge, client, faults>>
  BY DEF ApplyRecorded
<1>2. /\ DiskSound(disk', images, h, e, e) /\ disk'.committed = disk.committed
      /\ SameMarks(disk', disk) /\ disk'.applied.index = e
      /\ Len(h) = next + Len(worker.ids)
  BY <1>1, AppliedServing
<1>3. \A k \in 1 .. Len(worker.ids) : h[next + k] = worker.ids[k]
  BY <1>1, AppliedServing
<1>4. /\ phase = "serving" /\ e = Len(h) - 1 /\ disk.committed = Len(h) - 1 /\ next \in Nat
      /\ Len(worker.ids) \in Nat /\ disk.purged \in Int /\ disk.purged >= -1 /\ Len(h) \in Nat
      /\ e \in Index
  BY <1>1, Serving
<1>5. PICK n : n = Len(worker.ids)
  OBVIOUS
<1>6. n \in Nat \ {0} /\ next + n - 1 = e /\ e <= MaxIndex
  <2>1. Len(worker.ids) > 0
    BY <1>1, Facts DEF ClientSound
  <2> QED
    BY <1>2, <1>4, <1>5, <2>1, Bounds
<1>7. ~failed \/ snap.pc # "idle" => retained' = Span(disk.purged, e)
  <2> SUFFICES ASSUME ~failed \/ snap.pc # "idle" PROVE retained' = Span(disk.purged, e)
    OBVIOUS
  <2>1. PICK y \in Index : SpanAt(e, y)
    BY <1>4 DEF Sound, SpanSound
  <2>2. y = next - 1 /\ retained = Span(disk.purged, y) /\ disk.purged <= y /\ y \in Int
    BY <1>1, <1>4, <2>1, Facts DEF SpanAt
  <2>3. Including(Span(disk.purged, y), y + 1, n) = Span(disk.purged, y + n)
    BY <1>4, <1>6, <2>2, IncludingIs
  <2>4. y + 1 = next /\ y + n = e
    BY <1>4, <1>6, <2>2
  <2> QED
    BY <1>1, <1>5, <2>2, <2>3, <2>4
<1>8. retained' \in [first : 0 .. MaxIndex + 1, last : Index]
  <2>1. retained \in [first : 0 .. MaxIndex + 1, last : Index] /\ next + n - 1 <= MaxIndex
    BY <1>6, Facts DEF MemorySound
  <2> QED
    BY <1>1, <1>4, <1>5, <1>6, <2>1, IncludingType
<1>9. /\ StartOf(h, h) /\ client.acked \subseteq Range(h)
      /\ \A i \in 1 .. Len(h) : h[i] <= Membership + client.attempts /\ h[i] \notin client.refused
  BY SelfStart
<1> QED
  BY <1>1, <1>2, <1>3, <1>4, <1>7, <1>8, <1>9, AppliedStep DEF SameMarks

\* The publication that carries the record.
LEMMA ApplyJoinedKeeps ==
    ASSUME NEW h, NEW e, NEW r, Sound(h, e, r), ApplyJoined
    PROVE  \E g \in Seq(Entry), f \in Index : /\ Sound(g, f, f)' /\ StartOf(h, g)
                                              /\ disk'.purged = disk.purged
<1>1. /\ worker.pc = "prepared" /\ ~failed
      /\ disk' = Applied(Recorded(disk, next, worker.ids), next, worker.ids)
      /\ served' = served \o worker.ids /\ next' = next + Len(worker.ids)
      /\ worker' = [worker EXCEPT !.pc = "applied"]
      /\ retained' = Including(retained, next, Len(worker.ids))
      /\ UNCHANGED <<images, phase, covered, failed, closed, snap, purge, client, faults>>
  BY DEF ApplyJoined
<1>2. PICK f : f = next + Len(worker.ids) - 1
  OBVIOUS
<1>3. PICK g : /\ g = h \o worker.ids
               /\ g \in Seq(Entry) /\ Len(g) = Len(h) + Len(worker.ids) /\ StartOf(h, g)
               /\ \A i \in 1 .. Len(g) : /\ g[i] <= Membership + client.attempts
                                          /\ g[i] \notin client.refused
               /\ client.acked \subseteq Range(g)
               /\ \A k \in 1 .. Len(worker.ids) : g[Len(h) + k] = worker.ids[k]
  BY Longer
<1>4. /\ DiskSound(disk', images, g, f, f) /\ disk'.committed = f
      /\ SameMarks(disk', disk) /\ disk'.applied.index = f /\ Len(h) = next
  BY <1>1, <1>2, <1>3, JoinedServing
<1>5. /\ phase = "serving" /\ e = Len(h) - 1 /\ next \in Nat
      /\ Len(worker.ids) \in Nat /\ disk.purged \in Int /\ disk.purged >= -1
      /\ disk.purged <= e /\ e \in Int
  BY <1>1, Serving
<1>6. PICK n : n = Len(worker.ids)
  OBVIOUS
<1>7. n \in Nat \ {0} /\ f = Len(g) - 1 /\ f \in Index /\ Len(g) = next + n /\ f <= MaxIndex
  <2>1. Len(worker.ids) > 0 /\ f \in Index
    BY <1>1, <1>4, Facts DEF ClientSound, DiskSound
  <2> QED
    BY <1>2, <1>3, <1>4, <1>5, <1>6, <2>1, Bounds
<1>8. retained' = Span(disk.purged, f)
  <2>1. PICK y \in Index : SpanAt(e, y)
    BY <1>1, <1>5 DEF Sound, SpanSound
  <2>2. retained = Span(disk.purged, e)
    BY <1>1, <2>1 DEF SpanAt
  <2>3. Including(Span(disk.purged, e), e + 1, n) = Span(disk.purged, e + n)
    BY <1>5, <1>7, IncludingIs
  <2>4. e + 1 = next /\ e + n = f
    BY <1>2, <1>4, <1>5, <1>6, <1>7
  <2> QED
    BY <1>1, <1>6, <2>2, <2>3, <2>4
<1>9. retained' \in [first : 0 .. MaxIndex + 1, last : Index]
  <2>1. retained \in [first : 0 .. MaxIndex + 1, last : Index] /\ next + n - 1 <= MaxIndex
    BY <1>2, <1>6, <1>7, Facts DEF MemorySound
  <2> QED
    BY <1>1, <1>5, <1>6, <1>7, <2>1, IncludingType
<1>10. /\ \A k \in 1 .. Len(worker.ids) : g[next + k] = worker.ids[k]
       /\ \A i \in 1 .. Len(g) : g[i] <= Membership + client.attempts /\ g[i] \notin client.refused
  BY <1>3, <1>4
<1>11. /\ client.acked \subseteq Range(g) /\ StartOf(h, g) /\ Len(g) = next + Len(worker.ids)
       /\ disk'.committed = Len(g) - 1 /\ f = Len(g) - 1
  BY <1>3, <1>4, <1>6, <1>7
<1>12. Sound(g, f, f)'
  BY <1>1, <1>4, <1>8, <1>9, <1>10, <1>11, AppliedStep
<1> QED
  BY <1>3, <1>4, <1>7, <1>12 DEF SameMarks

\* An attempt that a fence ended between two of its steps.
LEMMA FencedKeeps ==
    ASSUME NEW h, NEW e, NEW r, Sound(h, e, r), worker.pc # "idle", WorkFails,
           UNCHANGED disk, faults' \in 0 .. MaxFaults
    PROVE  Sound(h, e, r)'
<1>1. e = Len(h) - 1 /\ disk.committed = Len(h) - 1 /\ r = disk.applied.index /\ r \in Int
  BY Serving
<1>2. DiskSound(disk', images, h, e, r) /\ SameMarks(disk', disk)
  BY Facts DEF SameMarks
<1>3. /\ StartOf(h, h) /\ client.acked \subseteq Range(h)
      /\ \A i \in 1 .. Len(h) : h[i] <= Membership + client.attempts /\ h[i] \notin client.refused
  BY SelfStart
<1>4. r <= r
  BY <1>1
<1> QED
  BY <1>1, <1>2, <1>3, <1>4, WorkFailsKeeps

\* The record may have been committed when its commit reports an error.
LEMMA RecordFailsKeeps ==
    ASSUME NEW h, NEW e, NEW r, Sound(h, e, r), worker.pc \in {"append", "prepared"}, WorkFails,
           disk' = Recorded(disk, next, worker.ids), faults' \in 0 .. MaxFaults
    PROVE  \E g \in Seq(Entry), f \in Index : /\ Sound(g, f, r)' /\ StartOf(h, g)
                                              /\ disk'.purged = disk.purged
<1>1. PICK f : f = next + Len(worker.ids) - 1
  OBVIOUS
<1>2. PICK g : /\ g = h \o worker.ids
               /\ g \in Seq(Entry) /\ Len(g) = Len(h) + Len(worker.ids) /\ StartOf(h, g)
               /\ \A i \in 1 .. Len(g) : /\ g[i] <= Membership + client.attempts
                                          /\ g[i] \notin client.refused
               /\ client.acked \subseteq Range(g)
  BY Longer
<1>3. /\ DiskSound(disk', images, g, f, r) /\ disk'.committed = f /\ SameMarks(disk', disk)
      /\ disk'.applied = disk.applied /\ Len(h) = next
  BY <1>1, <1>2, RecordedServing
<1>4. next \in Nat /\ Len(worker.ids) \in Nat /\ r = disk.applied.index /\ r \in Int /\ r <= r
  BY Serving
<1>5. f = Len(g) - 1 /\ f \in Index /\ disk'.committed = Len(g) - 1 /\ r = disk'.applied.index
  BY <1>1, <1>2, <1>3, <1>4 DEF DiskSound
<1>6. \A i \in 1 .. Len(g) : g[i] <= Membership + client.attempts /\ g[i] \notin client.refused
  BY <1>2
<1>7. Sound(g, f, r)'
  BY <1>2, <1>3, <1>4, <1>5, <1>6, WorkFailsKeeps
<1> QED
  BY <1>2, <1>3, <1>5, <1>7 DEF SameMarks

\* So may the application of a recorded attempt.
LEMMA ApplicationFailsKeeps ==
    ASSUME NEW h, NEW e, NEW r, Sound(h, e, r), worker.pc \in {"appended", "recorded"}, WorkFails,
           disk' = Applied(disk, next, worker.ids), faults' \in 0 .. MaxFaults
    PROVE  Sound(h, e, e)' /\ disk'.purged = disk.purged
<1>1. /\ DiskSound(disk', images, h, e, e) /\ disk'.committed = disk.committed
      /\ SameMarks(disk', disk) /\ disk'.applied.index = e
  BY AppliedServing
<1>2. e = Len(h) - 1 /\ disk.committed = Len(h) - 1 /\ r \in Int /\ r < Len(h) /\ Len(h) \in Nat
  BY Serving
<1>3. r <= e
  BY <1>2
<1>4. /\ StartOf(h, h) /\ client.acked \subseteq Range(h)
      /\ \A i \in 1 .. Len(h) : h[i] <= Membership + client.attempts /\ h[i] \notin client.refused
  BY SelfStart
<1> QED
  BY <1>1, <1>2, <1>3, <1>4, WorkFailsKeeps DEF SameMarks

\* And the publication that carries the record.
LEMMA PublicationFailsKeeps ==
    ASSUME NEW h, NEW e, NEW r, Sound(h, e, r), worker.pc = "prepared", WorkFails,
           disk' = Applied(Recorded(disk, next, worker.ids), next, worker.ids), faults' \in 0 .. MaxFaults
    PROVE  \E g \in Seq(Entry), f \in Index : /\ Sound(g, f, f)' /\ StartOf(h, g)
                                              /\ disk'.purged = disk.purged
<1>1. PICK f : f = next + Len(worker.ids) - 1
  OBVIOUS
<1>2. PICK g : /\ g = h \o worker.ids
               /\ g \in Seq(Entry) /\ Len(g) = Len(h) + Len(worker.ids) /\ StartOf(h, g)
               /\ \A i \in 1 .. Len(g) : /\ g[i] <= Membership + client.attempts
                                          /\ g[i] \notin client.refused
               /\ client.acked \subseteq Range(g)
  BY Longer
<1>3. /\ DiskSound(disk', images, g, f, f) /\ disk'.committed = f
      /\ SameMarks(disk', disk) /\ disk'.applied.index = f /\ Len(h) = next
  BY <1>1, <1>2, JoinedServing
<1>4. next \in Nat /\ Len(worker.ids) \in Nat /\ r \in Int /\ r < Len(h) /\ Len(h) \in Nat
  BY Serving
<1>5. f = Len(g) - 1 /\ f \in Index /\ disk'.committed = Len(g) - 1 /\ r <= f
  BY <1>1, <1>2, <1>3, <1>4 DEF DiskSound
<1>6. \A i \in 1 .. Len(g) : g[i] <= Membership + client.attempts /\ g[i] \notin client.refused
  BY <1>2
<1>7. Sound(g, f, f)'
  BY <1>2, <1>3, <1>5, <1>6, WorkFailsKeeps
<1> QED
  BY <1>2, <1>3, <1>5, <1>7 DEF SameMarks

----------------------------------------------------------------------------
(* The snapshot task *)

\* A capture adds an image that reaches as far as the group serves.
LEMMA ScheduleKeeps ==
    ASSUME NEW h, NEW e, NEW r, Sound(h, e, r), phase = "serving",
           schedule_snapshot \/ UNCHANGED <<images, snap, covered>>,
           UNCHANGED <<disk, phase, purge, next, failed>>, worker'.pc \notin {"prepared", "recorded"}
    PROVE  /\ DiskSound(disk', images', h, e, r) /\ SnapSound' /\ PurgeSound' /\ covered' \in Index
           /\ \A k \in 1 .. Len(images') : Len(images'[k]) <= next
           /\ ~failed \/ snap'.pc # "idle" => ~failed \/ snap.pc # "idle"
<1>1. /\ ServeSound(h, e, r) /\ next \in Nat /\ next = Len(served) /\ served \in Seq(Entry)
      /\ StartOf(served, h) /\ DiskSound(disk, images, h, e, r) /\ next <= Len(h)
      /\ \A k \in 1 .. Len(images) : Len(images[k]) <= next
  BY Serving, Facts DEF ServeSound
<1>2. CASE UNCHANGED <<images, snap>> /\ covered' \in Index
  <2>1. SameMarks(disk', disk)
    BY DEF SameMarks
  <2>2. SnapSound' /\ PurgeSound'
    BY <1>2, <2>1, TasksKeep
  <2> QED
    BY <1>1, <1>2, <2>2
<1>3. next - 1 \in Index
  <2>1. next \in 0 .. MaxIndex + 1
    BY Facts DEF MemorySound
  <2> QED
    BY <2>1, Bounds
<1>4. CASE /\ snap.pc = "idle" /\ ~failed /\ covered' = next - 1 /\ Len(images) < MaxCaptures
           /\ images' = Append(images, served)
           /\ snap' = [pc |-> "captured", image |-> Len(images) + 1, target |-> None]
  <2>1. /\ DiskSound(disk, images', h, e, r) /\ Position(disk, images') = Position(disk, images)
        /\ Len(images') = Len(images) + 1 /\ images'[Len(images) + 1] = served
        /\ \A k \in 1 .. Len(images) : images'[k] = images[k]
        /\ Len(images) + 1 # disk.current /\ Len(images) + 1 \in DOMAIN images'
    BY <1>1, <1>4, CaptureSound
  <2>2. Len(images) \in Nat
    BY <1>1, Numbers
  <2>3. snap'.pc = "captured" /\ snap'.image = Len(images) + 1
        /\ snap' \in [pc : SnapPcs, image : Marks, target : Index]
    <3>1. Len(images) + 1 \in Marks /\ None \in Index
      BY <1>4, <2>2, Bounds DEF Marks, Image
    <3> QED
      BY <1>4, <3>1 DEF SnapPcs
  <2>4. SnapSound'
    BY <2>1, <2>3 DEF SnapSound
  <2>5. PurgeSound'
    <3>1. ~purge.on /\ purge = NoPurge
      BY <1>4, Facts DEF PurgeSound
    <3>2. NoPurge.on = FALSE
      BY DEF NoPurge
    <3> QED
      BY <2>3, <3>1, <3>2, Facts DEF PurgeSound
  <2>6. \A k \in 1 .. Len(images') : Len(images'[k]) <= next
    <3> SUFFICES ASSUME NEW k \in 1 .. Len(images') PROVE Len(images'[k]) <= next
      OBVIOUS
    <3>1. k \in 1 .. Len(images) \/ k = Len(images) + 1
      BY <2>1, <2>2
    <3> QED
      BY <1>1, <2>1, <3>1
  <2> QED
    BY <1>3, <1>4, <2>1, <2>4, <2>5, <2>6
<1> QED
  <2>1. covered \in Index
    BY Facts DEF MemorySound
  <2>2. \/ UNCHANGED <<images, snap>> /\ (covered' = covered \/ covered' = next - 1)
        \/ /\ snap.pc = "idle" /\ ~failed /\ covered' = next - 1 /\ Len(images) < MaxCaptures
           /\ images' = Append(images, served)
           /\ snap' = [pc |-> "captured", image |-> Len(images) + 1, target |-> None]
    BY DEF schedule_snapshot, Capture
  <2>3. UNCHANGED <<images, snap>> /\ (covered' = covered \/ covered' = next - 1) =>
            UNCHANGED <<images, snap>> /\ covered' \in Index
    BY <1>3, <2>1
  <2> QED
    BY <1>2, <1>4, <2>2, <2>3

\* The response of an applied attempt.
LEMMA FinishKeeps ==
    ASSUME NEW h, NEW e, NEW r, Sound(h, e, r), Finish
    PROVE  Sound(h, e, r)' /\ disk' = disk
<1>1. /\ worker.pc = "applied" /\ worker' = Idle /\ worker'.pc = "idle" /\ worker'.ids = <<>>
      /\ client' = [client EXCEPT !.acked = @ \cup Range(worker.ids)]
      /\ schedule_snapshot \/ UNCHANGED <<images, snap, covered>>
      /\ UNCHANGED <<disk, phase, retained, served, next, failed, closed, purge, faults>>
  BY DEF Finish, Idle
<1>2. phase = "serving" /\ ServeSound(h, e, r) /\ StartOf(served, h) /\ served \in Seq(Entry)
      /\ h \in Seq(Entry)
  BY <1>1, Serving
<1>3. /\ DiskSound(disk', images', h, e, r) /\ SnapSound' /\ PurgeSound' /\ covered' \in Index
      /\ \A k \in 1 .. Len(images') : Len(images'[k]) <= next
      /\ ~failed \/ snap'.pc # "idle" => ~failed \/ snap.pc # "idle"
  BY <1>1, <1>2, ScheduleKeeps
<1>4. ClientSound(h) /\ client \in [attempts : 0 .. MaxAttempts, acked : SUBSET Entry, refused : SUBSET Entry]
      /\ worker.ids \in Seq(Entry)
  BY Facts DEF ClientSound
<1>5. Range(worker.ids) \subseteq Range(served) /\ Range(served) \subseteq Range(h) /\ Len(h) = next
      /\ Range(worker.ids) \subseteq Entry
  <2>1. Range(worker.ids) \subseteq Range(served) /\ Len(h) = next
    BY <1>1, <1>2 DEF ServeSound
  <2>2. Range(served) \subseteq Range(h)
    BY <1>2, SameRange
  <2>3. Range(worker.ids) \subseteq Entry
    BY <1>4 DEF Range
  <2> QED
    BY <2>1, <2>2, <2>3
<1>6. /\ client'.attempts = client.attempts /\ client'.refused = client.refused
      /\ client'.acked = client.acked \cup Range(worker.ids)
      /\ client' \in [attempts : 0 .. MaxAttempts, acked : SUBSET Entry, refused : SUBSET Entry]
  BY <1>1, <1>4, <1>5
<1>7. ServeSound(h, e, r)'
  <2>1. client'.acked \subseteq Range(served')
    BY <1>1, <1>2, <1>5, <1>6 DEF ServeSound
  <2> QED
    BY <1>1, <1>2, <1>3, <1>5, <2>1 DEF ServeSound
<1>8. ClientSound(h)'
  <2>1. Idle \in [pc : WorkPcs, ids : Seq(Entry)] /\ 1 .. Len(<<>>) = {}
    BY DEF Idle, WorkPcs
  <2>2. client'.acked \subseteq Range(h)
    BY <1>4, <1>5, <1>6 DEF ClientSound
  <2> QED
    BY <1>1, <1>4, <1>6, <2>1, <2>2 DEF ClientSound
<1>9. SpanSound(e)'
  <2>1. SpanSound(e)
    BY <1>2 DEF Sound
  <2> QED
    BY <1>1, <1>3, <2>1 DEF SpanSound, SpanAt
<1>10. OpenSound(h, e, r)'
  BY <1>1, <1>2, Facts DEF OpenSound, Phases
<1>11. MemorySound'
  BY <1>1, <1>3, Facts DEF MemorySound
<1> QED
  BY <1>1, <1>3, <1>7, <1>8, <1>9, <1>10, <1>11 DEF Sound

\* A snapshot an operator asks for.
LEMMA TriggerKeeps ==
    ASSUME NEW h, NEW e, NEW r, Sound(h, e, r), TriggerSnapshot
    PROVE  Sound(h, e, r)' /\ disk' = disk
<1>1. /\ phase = "serving" /\ ~failed /\ worker.pc = "idle" /\ schedule_snapshot
      /\ UNCHANGED <<disk, phase, retained, served, next, failed, closed, worker, purge, client, faults>>
  BY DEF TriggerSnapshot, Idle
<1>2. ServeSound(h, e, r)
  BY <1>1, Serving
<1>3. /\ DiskSound(disk', images', h, e, r) /\ SnapSound' /\ PurgeSound' /\ covered' \in Index
      /\ \A k \in 1 .. Len(images') : Len(images'[k]) <= next
      /\ ~failed \/ snap'.pc # "idle" => ~failed \/ snap.pc # "idle"
  BY <1>1, ScheduleKeeps
<1>4. ServeSound(h, e, r)'
  BY <1>1, <1>2, <1>3 DEF ServeSound
<1>5. ClientSound(h)'
  BY <1>1, Facts DEF ClientSound
<1>6. SpanSound(e)'
  <2>1. SpanSound(e)
    BY <1>1 DEF Sound
  <2> QED
    BY <1>1, <1>3, <2>1 DEF SpanSound, SpanAt
<1>7. OpenSound(h, e, r)'
  BY <1>1, Facts DEF OpenSound, Phases
<1>8. MemorySound'
  BY <1>1, <1>3, Facts DEF MemorySound
<1> QED
  BY <1>1, <1>3, <1>4, <1>5, <1>6, <1>7, <1>8 DEF Sound

\* A step of the snapshot task that leaves the journal and the positions alone.
LEMMA SnapStepKeeps ==
    ASSUME NEW h, NEW e, NEW r, Sound(h, e, r), snap.pc # "idle",
           UNCHANGED <<images, phase, retained, served, next, covered, closed, worker, client>>,
           failed' \in BOOLEAN, faults' \in 0 .. MaxFaults, failed => failed',
           failed' => failed \/ snap'.pc = "idle",
           DiskSound(disk', images, h, e, r), disk'.committed = disk.committed,
           disk'.purged = disk.purged, disk'.applied.index = disk.applied.index,
           SnapSound', PurgeSound'
    PROVE  Sound(h, e, r)'
<1>1. phase = "serving" /\ ServeSound(h, e, r)
  BY Serving
<1>2. SpanSound(e)'
  <2>1. SpanSound(e)
    BY <1>1 DEF Sound
  <2> QED
    BY <2>1 DEF SpanSound, SpanAt
<1>3. ServeSound(h, e, r)'
  BY <1>1 DEF ServeSound
<1>4. OpenSound(h, e, r)'
  BY <1>1, Facts DEF OpenSound, Phases
<1>5. ClientSound(h)'
  BY Facts DEF ClientSound
<1>6. MemorySound'
  BY Facts DEF MemorySound
<1> QED
  BY <1>1, <1>2, <1>3, <1>4, <1>5, <1>6 DEF Sound

\* A build that ends, of itself or with the group's fence.
LEMMA BuildEnds ==
    ASSUME NEW h, NEW e, NEW r, Sound(h, e, r), phase = "serving", snap' = NoBuild, purge' = NoPurge,
           phase' = phase
    PROVE  SnapSound' /\ PurgeSound'
<1>1. NoBuild \in [pc : SnapPcs, image : Marks, target : Index] /\ NoBuild.pc = "idle"
  BY Bounds DEF NoBuild, SnapPcs, Marks
<1>2. NoPurge.on = FALSE /\ NoPurge \in [on : BOOLEAN, target : Index, removed : Index]
  BY Bounds DEF NoPurge
<1> QED
  BY <1>1, <1>2 DEF SnapSound, PurgeSound

\* A build reuses an image that covers its capture, or goes on to stage its own.
LEMMA BuildKeeps ==
    ASSUME NEW h, NEW e, NEW r, Sound(h, e, r), Build
    PROVE  Sound(h, e, r)' /\ disk' = disk
<1>1. /\ snap.pc = "captured"
      /\ UNCHANGED <<disk, images, phase, retained, served, next, covered, failed, closed, worker, purge,
                     client, faults>>
  BY DEF Build, memory
<1>2. /\ phase = "serving" /\ ImagePosition(disk) \in Int /\ ImagePosition(disk) >= -1
      /\ ImagePosition(disk) <= next - 1 /\ next \in Nat
  BY <1>1, Serving
<1>3. SnapSound /\ PurgeSound /\ snap \in [pc : SnapPcs, image : Marks, target : Index]
      /\ snap.image \in DOMAIN images /\ snap.image # disk.current
  BY <1>1, Facts DEF SnapSound
<1>4. ImagePosition(disk) \in Index /\ ImagePosition(disk)' = ImagePosition(disk)
  <2>1. next \in 0 .. MaxIndex + 1 /\ Index = -1 .. MaxIndex /\ MaxIndex \in Nat
    BY Facts DEF MemorySound
  <2> QED
    BY <1>1, <1>2, <2>1 DEF ImagePosition
<1>5. ~purge.on /\ purge = NoPurge
  BY <1>1, <1>2, <1>3 DEF PurgeSound
<1>6. SnapSound' /\ PurgeSound'
  <2>1. CASE snap' = NoBuild
    BY <1>1, <1>2, <1>5, <2>1, BuildEnds
  <2>2. CASE snap' = [snap EXCEPT !.pc = "purge", !.target = ImagePosition(disk)]
    <3>1. /\ snap'.pc = "purge" /\ snap'.target = ImagePosition(disk) /\ snap'.image = snap.image
          /\ snap' \in [pc : SnapPcs, image : Marks, target : Index]
      BY <1>3, <1>4, <2>2 DEF SnapPcs
    <3> QED
      BY <1>1, <1>2, <1>3, <1>4, <1>5, <3>1 DEF SnapSound, PurgeSound
  <2>3. CASE /\ snap' = [snap EXCEPT !.pc = "cleanup"]
             /\ ~(disk.current # None /\ ImagePosition(disk) >= Len(images[snap.image]) - 1)
    <3>1. /\ snap'.pc = "cleanup" /\ snap'.image = snap.image
          /\ snap' \in [pc : SnapPcs, image : Marks, target : Index]
      BY <1>3, <2>3 DEF SnapPcs
    <3>2. Len(images[snap.image]) \in Nat
      <4>1. images \in Seq(Seq(Entry))
        BY Facts DEF DiskSound, ImagesSound
      <4> QED
        BY <1>3, <4>1
    <3>3. ImagePosition(disk) < Len(images[snap.image])
      <4>1. CASE disk.current = None
        BY <3>2, <4>1, Bounds DEF ImagePosition
      <4>2. CASE disk.current # None
        BY <1>2, <2>3, <3>2, <4>2
      <4> QED
        BY <4>1, <4>2
    <3> QED
      BY <1>1, <1>2, <1>3, <1>4, <1>5, <3>1, <3>3 DEF SnapSound, PurgeSound
  <2> QED
    BY <2>1, <2>2, <2>3 DEF Build
<1>7. failed' \in BOOLEAN /\ faults' \in 0 .. MaxFaults /\ (failed => failed')
      /\ (failed' => failed \/ snap'.pc = "idle")
  BY <1>1, Facts DEF MemorySound
<1>8. DiskSound(disk', images, h, e, r)
  BY <1>1, Facts
<1> QED
  BY <1>1, <1>6, <1>7, <1>8, SnapStepKeeps

\* Which images a step of the build leaves published, staged and obsolete.
LEMMA CleanupTask ==
    ASSUME NEW h, NEW e, NEW r, Sound(h, e, r), snap.pc \in {"cleanup", "published"}, ~Clean(disk),
           disk' \in {disk, cleanup_snapshots(disk)}, images' = images
    PROVE  /\ DiskSound(disk', images, h, e, r) /\ disk'.committed = disk.committed
           /\ disk'.purged = disk.purged /\ disk'.applied.index = disk.applied.index
           /\ disk'.current = disk.current /\ ImagePosition(disk)' = ImagePosition(disk)
<1>1. DiskSound(disk, images, h, e, r)
  BY Facts
<1>2. /\ DiskSound(cleanup_snapshots(disk), images, h, e, r) /\ SameRows(cleanup_snapshots(disk), disk)
      /\ cleanup_snapshots(disk).current = disk.current
  BY <1>1, CleanupSound
<1> QED
  BY <1>1, <1>2 DEF SameRows, ImagePosition

\* A cleanup step of a build removes chunks before the marker that names them.
LEMMA BuildCleanupKeeps ==
    ASSUME NEW h, NEW e, NEW r, Sound(h, e, r), BuildCleanup
    PROVE  Sound(h, e, r)' /\ disk'.purged = disk.purged
<1>1. /\ snap.pc \in {"cleanup", "published"} /\ ~Clean(disk) /\ disk' = cleanup_snapshots(disk)
      /\ UNCHANGED <<images, phase, retained, served, next, covered, failed, closed, worker, snap, purge,
                     client, faults>>
  BY DEF BuildCleanup, memory
<1>2. /\ DiskSound(disk', images, h, e, r) /\ disk'.committed = disk.committed
      /\ disk'.purged = disk.purged /\ disk'.applied.index = disk.applied.index
      /\ disk'.current = disk.current /\ ImagePosition(disk)' = ImagePosition(disk)
  BY <1>1, CleanupTask
<1>3. SnapSound'
  BY <1>1, <1>2, Facts DEF SnapSound
<1>4. PurgeSound'
  BY <1>1, <1>2, Facts DEF PurgeSound
<1>5. failed' \in BOOLEAN /\ faults' \in 0 .. MaxFaults /\ (failed => failed')
      /\ (failed' => failed \/ snap'.pc = "idle")
  BY <1>1, Facts DEF MemorySound
<1>6. snap.pc # "idle"
  BY <1>1
<1> QED
  BY <1>1, <1>2, <1>3, <1>4, <1>5, <1>6, SnapStepKeeps

\* The marker of the build's image.
LEMMA MarkerTask ==
    ASSUME NEW h, NEW e, NEW r, Sound(h, e, r), snap.pc = "cleanup", Clean(disk),
           disk' = stage_marker(disk, snap.image), images' = images
    PROVE  /\ DiskSound(disk', images, h, e, r) /\ disk'.committed = disk.committed
           /\ disk'.purged = disk.purged /\ disk'.applied.index = disk.applied.index
           /\ disk'.current = disk.current /\ ImagePosition(disk)' = ImagePosition(disk)
           /\ disk'.pending = snap.image /\ disk'.obsolete = None
<1>1. DiskSound(disk, images, h, e, r) /\ snap.image \in DOMAIN images /\ snap.image # disk.current
  BY Facts DEF SnapSound
<1>2. /\ DiskSound(disk', images, h, e, r) /\ SameRows(disk', disk) /\ disk'.current = disk.current
      /\ disk'.pending = snap.image /\ disk'.obsolete = None
  BY <1>1, StageSound
<1> QED
  BY <1>1, <1>2 DEF SameRows, ImagePosition

\* The pending marker of a build.
LEMMA StagePendingKeeps ==
    ASSUME NEW h, NEW e, NEW r, Sound(h, e, r), StagePending
    PROVE  Sound(h, e, r)' /\ disk'.purged = disk.purged
<1>1. /\ snap.pc = "cleanup" /\ Clean(disk) /\ disk' = stage_marker(disk, snap.image)
      /\ snap' = [snap EXCEPT !.pc = "chunks"]
      /\ UNCHANGED <<images, phase, retained, served, next, covered, failed, closed, worker, purge,
                     client, faults>>
  BY DEF StagePending, memory
<1>2. /\ DiskSound(disk', images, h, e, r) /\ disk'.committed = disk.committed
      /\ disk'.purged = disk.purged /\ disk'.applied.index = disk.applied.index
      /\ disk'.current = disk.current /\ ImagePosition(disk)' = ImagePosition(disk)
      /\ disk'.pending = snap.image /\ disk'.obsolete = None
  BY <1>1, MarkerTask
<1>3. snap'.pc = "chunks" /\ snap'.image = snap.image
      /\ snap' \in [pc : SnapPcs, image : Marks, target : Index]
  BY <1>1, Facts DEF SnapSound, SnapPcs
<1>4. SnapSound'
  BY <1>1, <1>2, <1>3, Facts DEF SnapSound
<1>5. PurgeSound'
  BY <1>1, <1>2, <1>3, Facts DEF PurgeSound
<1>6. failed' \in BOOLEAN /\ faults' \in 0 .. MaxFaults /\ (failed => failed')
      /\ (failed' => failed \/ snap'.pc = "idle")
  BY <1>1, Facts DEF MemorySound
<1> QED
  BY <1>1, <1>2, <1>4, <1>5, <1>6, SnapStepKeeps

\* Its chunks.
LEMMA ChunksTask ==
    ASSUME NEW h, NEW e, NEW r, Sound(h, e, r), snap.pc = "chunks",
           disk' = stage_chunks(disk, snap.image), images' = images
    PROVE  /\ DiskSound(disk', images, h, e, r) /\ disk'.committed = disk.committed
           /\ disk'.purged = disk.purged /\ disk'.applied.index = disk.applied.index
           /\ disk'.current = disk.current /\ ImagePosition(disk)' = ImagePosition(disk)
           /\ disk'.pending = snap.image /\ disk'.obsolete = None /\ snap.image \in disk'.chunks
<1>1. DiskSound(disk, images, h, e, r) /\ snap.image \in DOMAIN images /\ snap.image # disk.current
      /\ disk.pending = snap.image /\ disk.obsolete = None
  BY Facts DEF SnapSound
<1>2. /\ DiskSound(disk', images, h, e, r) /\ SameRows(disk', disk) /\ disk'.current = disk.current
      /\ disk'.pending = snap.image /\ snap.image \in disk'.chunks /\ disk'.obsolete = disk.obsolete
  BY <1>1, StageSound
<1> QED
  BY <1>1, <1>2 DEF SameRows, ImagePosition

\* The chunks that the pending marker names.
LEMMA StageChunksKeeps ==
    ASSUME NEW h, NEW e, NEW r, Sound(h, e, r), StageChunks
    PROVE  Sound(h, e, r)' /\ disk'.purged = disk.purged
<1>1. /\ snap.pc = "chunks" /\ disk' = stage_chunks(disk, snap.image)
      /\ snap' = [snap EXCEPT !.pc = "staged"]
      /\ UNCHANGED <<images, phase, retained, served, next, covered, failed, closed, worker, purge,
                     client, faults>>
  BY DEF StageChunks, memory
<1>2. /\ DiskSound(disk', images, h, e, r) /\ disk'.committed = disk.committed
      /\ disk'.purged = disk.purged /\ disk'.applied.index = disk.applied.index
      /\ disk'.current = disk.current /\ ImagePosition(disk)' = ImagePosition(disk)
      /\ disk'.pending = snap.image /\ disk'.obsolete = None /\ snap.image \in disk'.chunks
  BY <1>1, ChunksTask
<1>3. snap'.pc = "staged" /\ snap'.image = snap.image
      /\ snap' \in [pc : SnapPcs, image : Marks, target : Index]
  BY <1>1, Facts DEF SnapSound, SnapPcs
<1>4. SnapSound'
  BY <1>1, <1>2, <1>3, Facts DEF SnapSound
<1>5. PurgeSound'
  BY <1>1, <1>2, <1>3, Facts DEF PurgeSound
<1>6. failed' \in BOOLEAN /\ faults' \in 0 .. MaxFaults /\ (failed => failed')
      /\ (failed' => failed \/ snap'.pc = "idle")
  BY <1>1, Facts DEF MemorySound
<1> QED
  BY <1>1, <1>2, <1>4, <1>5, <1>6, SnapStepKeeps

\* Its publication: the applied cursor is already as far.
LEMMA PublishTask ==
    ASSUME NEW h, NEW e, NEW r, Sound(h, e, r), snap.pc = "staged",
           disk' = publish_snapshot(disk, snap.image), images' = images
    PROVE  /\ DiskSound(disk', images, h, e, r) /\ disk'.committed = disk.committed
           /\ disk'.purged = disk.purged /\ disk'.applied.index = disk.applied.index
           /\ disk'.current = snap.image /\ ImagePosition(disk)' = Len(images[snap.image]) - 1
           /\ Len(images[snap.image]) - 1 \in Index
<1>1. PICK m : m = snap.image
  OBVIOUS
<1>2. /\ DiskSound(disk, images, h, e, r) /\ m \in DOMAIN images /\ m # disk.current
      /\ disk.pending = m /\ disk.obsolete = None /\ m \in disk.chunks
      /\ ImagePosition(disk) < Len(images[m]) /\ ImagePosition(disk) = Position(disk, images)
  BY <1>1, Facts DEF SnapSound
<1>3. disk' = Published(disk, images, m)
  BY <1>1 DEF publish_snapshot, Published
<1>4. Position(disk, images) < Len(images[m])
  BY <1>2
<1>5. /\ DiskSound(disk', images, h, e, r) /\ Position(disk', images) = Len(images[m]) - 1
      /\ disk'.committed = disk.committed /\ disk'.purged = disk.purged /\ disk'.current = m
      /\ disk'.applied.index = (IF disk.applied.index < Len(images[m]) - 1 THEN Len(images[m]) - 1
                                ELSE disk.applied.index)
  BY <1>2, <1>3, <1>4, PublishSound
<1>6. Len(images[m]) \in Nat /\ Len(images[m]) <= next /\ next \in Nat /\ next - 1 <= disk.applied.index
      /\ disk.applied.index \in Int /\ next \in 0 .. MaxIndex + 1
  <2>1. images \in Seq(Seq(Entry))
    BY Facts DEF DiskSound, ImagesSound
  <2>2. m \in 1 .. Len(images) /\ Len(images[m]) \in Nat
    BY <1>2, <2>1
  <2>3. next \in 0 .. MaxIndex + 1
    BY Facts DEF MemorySound
  <2>4. ServeSound(h, e, r) /\ next \in Nat /\ next - 1 <= r /\ r \in Int /\ r = disk.applied.index
    BY Serving
  <2>5. Len(images[m]) <= next
    BY <2>2, <2>4 DEF ServeSound
  <2> QED
    BY <2>2, <2>3, <2>4, <2>5
<1>7. disk'.applied.index = disk.applied.index
  BY <1>5, <1>6
<1>8. Len(images[m]) - 1 \in Index
  BY <1>6, Bounds
<1>9. ImagePosition(disk)' = Position(disk', images)
  BY DEF ImagePosition, Position
<1> QED
  BY <1>1, <1>5, <1>7, <1>8, <1>9

\* Publication: manifest, coverage and cursor in one commit.
LEMMA PublishKeeps ==
    ASSUME NEW h, NEW e, NEW r, Sound(h, e, r), PublishImage
    PROVE  Sound(h, e, r)' /\ disk'.purged = disk.purged
<1>1. /\ snap.pc = "staged" /\ disk' = publish_snapshot(disk, snap.image)
      /\ snap' = [snap EXCEPT !.pc = "published", !.target = Len(images[snap.image]) - 1]
      /\ UNCHANGED <<images, phase, retained, served, next, covered, failed, closed, worker, purge,
                     client, faults>>
  BY DEF PublishImage, memory
<1>2. /\ DiskSound(disk', images, h, e, r) /\ disk'.committed = disk.committed
      /\ disk'.purged = disk.purged /\ disk'.applied.index = disk.applied.index
      /\ disk'.current = snap.image /\ ImagePosition(disk)' = Len(images[snap.image]) - 1
      /\ Len(images[snap.image]) - 1 \in Index
  BY <1>1, PublishTask
<1>3. /\ snap'.pc = "published" /\ snap'.image = snap.image /\ snap'.target = Len(images[snap.image]) - 1
      /\ snap' \in [pc : SnapPcs, image : Marks, target : Index]
  BY <1>1, <1>2, Facts DEF SnapSound, SnapPcs
<1>4. SnapSound'
  BY <1>1, <1>2, <1>3, Facts DEF SnapSound
<1>5. PurgeSound'
  <2>1. phase = "serving"
    BY <1>1, Serving
  <2>2. ~purge.on /\ purge = NoPurge
    BY <1>1, <2>1, Facts DEF PurgeSound
  <2> QED
    BY <1>1, <1>3, <2>1, <2>2, Facts DEF PurgeSound
<1>6. failed' \in BOOLEAN /\ faults' \in 0 .. MaxFaults /\ (failed => failed')
      /\ (failed' => failed \/ snap'.pc = "idle")
  BY <1>1, Facts DEF MemorySound
<1> QED
  BY <1>1, <1>2, <1>4, <1>5, <1>6, SnapStepKeeps

\* The purge takes the gate, with the published image as its target.
LEMMA StartPurgeKeeps ==
    ASSUME NEW h, NEW e, NEW r, Sound(h, e, r), StartPurge
    PROVE  Sound(h, e, r)' /\ disk' = disk
<1>1. /\ snap.pc \in {"published", "purge"} /\ worker.pc \notin {"prepared", "recorded"}
      /\ purge' = [on |-> TRUE, target |-> snap.target, removed |-> None]
      /\ snap' = [snap EXCEPT !.pc = "purging"] /\ snap.pc # "idle"
      /\ UNCHANGED <<disk, images, phase, retained, served, next, covered, failed, closed, worker,
                     client, faults>>
  BY DEF StartPurge, GateFree, memory
<1>2. phase = "serving"
  BY <1>1, Serving
<1>3. /\ snap'.pc = "purging" /\ snap'.image = snap.image /\ snap.target = ImagePosition(disk)
      /\ snap' \in [pc : SnapPcs, image : Marks, target : Index] /\ snap.target \in Index
      /\ snap.image \in DOMAIN images
  BY <1>1, Facts DEF SnapSound, SnapPcs
<1>4. ImagePosition(disk)' = ImagePosition(disk)
  BY <1>1 DEF ImagePosition
<1>5. SnapSound'
  BY <1>1, <1>3 DEF SnapSound
<1>6. PurgeSound'
  <2>1. None \in Index
    BY Bounds
  <2> QED
    BY <1>1, <1>2, <1>3, <1>4, <2>1 DEF PurgeSound
<1>7. failed' \in BOOLEAN /\ faults' \in 0 .. MaxFaults /\ (failed => failed')
      /\ (failed' => failed \/ snap'.pc = "idle")
  BY <1>1, Facts DEF MemorySound
<1>8. DiskSound(disk', images, h, e, r)
  BY <1>1, Facts
<1> QED
  BY <1>1, <1>5, <1>6, <1>7, <1>8, SnapStepKeeps

\* A deferred build, or a purge that a refusal ends.
LEMMA DeferredKeeps ==
    ASSUME NEW h, NEW e, NEW r, Sound(h, e, r), BuildDeferred \/ PurgeRefused
    PROVE  Sound(h, e, r)' /\ disk' = disk
<1>1. snap.pc # "idle" /\ phase = "serving"
  <2>1. CASE BuildDeferred
    BY <2>1, Serving DEF BuildDeferred
  <2>2. CASE PurgeRefused
    BY <2>2, Facts DEF PurgeRefused, PurgeSound
  <2> QED
    BY <2>1, <2>2
<1>2. /\ snap' = NoBuild
      /\ UNCHANGED <<disk, images, phase, retained, served, next, covered, failed, closed, worker,
                     client, faults>>
  BY DEF BuildDeferred, PurgeRefused, memory
<1>3. purge' = NoPurge
  <2>1. CASE BuildDeferred
    BY <1>1, <2>1, Facts DEF BuildDeferred, PurgeSound
  <2>2. CASE PurgeRefused
    BY <2>2 DEF PurgeRefused
  <2> QED
    BY <2>1, <2>2
<1>4. SnapSound' /\ PurgeSound'
  BY <1>1, <1>2, <1>3, BuildEnds
<1>5. failed' \in BOOLEAN /\ faults' \in 0 .. MaxFaults /\ (failed => failed')
      /\ (failed' => failed \/ snap'.pc = "idle")
  BY <1>2, Facts DEF MemorySound
<1>6. DiskSound(disk', images, h, e, r)
  BY <1>2, Facts
<1> QED
  BY <1>1, <1>2, <1>4, <1>5, <1>6, SnapStepKeeps

\* A fault is one of the bounded number.
LEMMA FaultType ==
    ASSUME NEW h, NEW e, NEW r, Sound(h, e, r), Fault
    PROVE  faults' \in 0 .. MaxFaults
<1>1. faults \in 0 .. MaxFaults /\ MaxFaults \in Nat
  BY Facts, BoundsAssumption DEF MemorySound
<1> QED
  BY <1>1 DEF Fault

\* A build's commit that reports an error fences the group.
LEMMA BuildBreaksKeeps ==
    ASSUME NEW h, NEW e, NEW r, Sound(h, e, r), BuildBreaks
    PROVE  Sound(h, e, r)' /\ disk'.purged = disk.purged
<1>1. /\ snap' = NoBuild /\ failed' = TRUE /\ purge' = NoPurge
      /\ UNCHANGED <<images, phase, retained, served, next, covered, closed, worker, client>>
  BY DEF BuildBreaks, BuildFails
<1>2. snap.pc # "idle"
  BY DEF BuildBreaks
<1>3. phase = "serving"
  BY <1>2, Serving
<1>4. SnapSound' /\ PurgeSound'
  BY <1>1, <1>3, BuildEnds
<1>5. faults' \in 0 .. MaxFaults
  BY FaultType DEF BuildBreaks
<1>6. snap'.pc = "idle"
  BY <1>1 DEF NoBuild
<1>7. /\ DiskSound(disk', images, h, e, r) /\ disk'.committed = disk.committed
      /\ disk'.purged = disk.purged /\ disk'.applied.index = disk.applied.index
  <2>1. CASE disk' = disk
    BY <2>1, Facts
  <2>2. CASE snap.pc \in {"cleanup", "published"} /\ ~Clean(disk) /\ disk' = cleanup_snapshots(disk)
    BY <1>1, <2>2, CleanupTask
  <2>3. CASE snap.pc = "cleanup" /\ Clean(disk) /\ disk' = stage_marker(disk, snap.image)
    BY <1>1, <2>3, MarkerTask
  <2>4. CASE snap.pc = "chunks" /\ disk' = stage_chunks(disk, snap.image)
    BY <1>1, <2>4, ChunksTask
  <2>5. CASE snap.pc = "staged" /\ disk' = publish_snapshot(disk, snap.image)
    BY <1>1, <2>5, PublishTask
  <2> QED
    BY <2>1, <2>2, <2>3, <2>4, <2>5 DEF BuildBreaks, Unknown
<1> QED
  BY <1>1, <1>2, <1>4, <1>5, <1>6, <1>7, SnapStepKeeps

----------------------------------------------------------------------------
(* Purges *)

\* The chunk that a purge removes is a prefix of the journal, inside the image.
LEMMA PurgeChunk ==
    ASSUME NEW h, NEW e, NEW r, Sound(h, e, r), purge.on, retained # NoSpan,
           retained.first <= purge.target
    PROVE  \E x \in Index, end \in Index :
             /\ SpanAt(e, x) /\ end = PurgeEnd(retained, purge.target)
             /\ retained = [first |-> disk.purged + 1, last |-> x] /\ retained.last = x
             /\ disk.purged < end /\ end <= x /\ x <= e /\ end <= ImagePosition(disk)
             /\ DiskSound(PurgedPrefix(disk, end), images, h, e, r)
             /\ PurgedPrefix(disk, end).purged = end
             /\ PurgedPrefix(disk, end).committed = disk.committed
             /\ PurgedPrefix(disk, end).applied = disk.applied
             /\ SameImages(PurgedPrefix(disk, end), disk)
             /\ e \in Int /\ x \in Int /\ end \in Int /\ disk.purged \in Int /\ disk.purged >= -1
<1>1. /\ purge.target = ImagePosition(disk) /\ ImagePosition(disk) = Position(disk, images)
      /\ phase = "purging" \/ (phase = "serving" /\ snap.pc = "purging")
      /\ DiskSound(disk, images, h, e, r) /\ MaxIndex \in Nat /\ Index = -1 .. MaxIndex
  BY Facts DEF PurgeSound
<1>2. ~failed \/ snap.pc # "idle"
  BY <1>1, Facts DEF OpenSound
<1>3. PICK x \in Index : SpanAt(e, x)
  BY <1>1, <1>2 DEF Sound, SpanSound
<1>4. disk.purged \in Int /\ disk.purged >= -1 /\ e \in Int /\ Position(disk, images) \in Int
  BY <1>1, Numbers
<1>5. x \in Int /\ disk.purged <= x /\ x <= e /\ retained = Span(disk.purged, x)
  BY <1>3, <1>4 DEF SpanAt
<1>6. x # disk.purged /\ retained = [first |-> disk.purged + 1, last |-> x]
  BY <1>5 DEF Span
<1>7. retained.first = disk.purged + 1 /\ retained.last = x
  BY <1>6
<1>8. PICK end : end = PurgeEnd(retained, purge.target)
  OBVIOUS
<1>9. end \in Int /\ disk.purged < end /\ end <= x /\ end <= Position(disk, images)
  <2>1. PICK t, c : t = purge.target /\ c = Chunk
    OBVIOUS
  <2>2. t \in Int /\ disk.purged + 1 <= t /\ c \in Nat /\ c >= 1 /\ t = Position(disk, images)
    BY <1>1, <1>4, <1>7, <2>1, BoundsAssumption
  <2>3. end = (IF disk.purged + 1 + c - 1 < (IF t < x THEN t ELSE x) THEN disk.purged + 1 + c - 1
               ELSE (IF t < x THEN t ELSE x))
    BY <1>7, <1>8, <2>1 DEF PurgeEnd
  <2> QED
    BY <1>4, <1>5, <1>6, <2>2, <2>3
<1>10. disk.purged <= end /\ end <= e /\ end \in Index
  <2>1. x <= MaxIndex
    BY <1>1
  <2> QED
    BY <1>1, <1>4, <1>5, <1>9, <2>1
<1>11. /\ DiskSound(PurgedPrefix(disk, end), images, h, e, r)
       /\ PurgedPrefix(disk, end).purged = end
       /\ PurgedPrefix(disk, end).committed = disk.committed
       /\ PurgedPrefix(disk, end).applied = disk.applied /\ SameImages(PurgedPrefix(disk, end), disk)
  BY <1>1, <1>9, <1>10, PurgedSound
<1> QED
  BY <1>1, <1>3, <1>4, <1>5, <1>6, <1>7, <1>8, <1>9, <1>10, <1>11

\* A chunk of a purge leaves the rest of the journal and the history.
LEMMA PurgeStepKeeps ==
    ASSUME NEW h, NEW e, NEW r, Sound(h, e, r), PurgeStep
    PROVE  Sound(h, e, r)' /\ disk.purged <= disk'.purged
<1>1. purge.on /\ retained # NoSpan /\ retained.first <= purge.target
  BY DEF PurgeStep
<1>2. PICK x \in Index, end \in Index :
             /\ SpanAt(e, x) /\ end = PurgeEnd(retained, purge.target)
             /\ retained = [first |-> disk.purged + 1, last |-> x] /\ retained.last = x
             /\ disk.purged < end /\ end <= x /\ x <= e /\ end <= ImagePosition(disk)
             /\ DiskSound(PurgedPrefix(disk, end), images, h, e, r)
             /\ PurgedPrefix(disk, end).purged = end
             /\ PurgedPrefix(disk, end).committed = disk.committed
             /\ PurgedPrefix(disk, end).applied = disk.applied
             /\ SameImages(PurgedPrefix(disk, end), disk)
             /\ e \in Int /\ x \in Int /\ end \in Int /\ disk.purged \in Int /\ disk.purged >= -1
  BY <1>1, PurgeChunk
<1>3. /\ disk' = PurgedPrefix(disk, end)
      /\ retained' = (IF end = retained.last THEN NoSpan ELSE [retained EXCEPT !.first = end + 1])
      /\ purge' = [purge EXCEPT !.removed = end]
      /\ UNCHANGED <<images, phase, served, next, covered, failed, closed, worker, snap, client, faults>>
  BY <1>2 DEF PurgeStep
<1>4. /\ DiskSound(disk', images, h, e, r) /\ disk'.purged = end /\ disk'.committed = disk.committed
      /\ disk'.applied = disk.applied /\ SameImages(disk', disk)
  BY <1>2, <1>3
<1>5. retained' = Span(end, x)
  <2>1. CASE end = x
    BY <1>2, <1>3, <2>1 DEF Span
  <2>2. CASE end # x
    BY <1>2, <1>3, <2>2 DEF Span
  <2> QED
    BY <2>1, <2>2
<1>6. SpanSound(e)'
  <2>1. x \in end .. e
    BY <1>2
  <2>2. SpanAt(e, x)'
    BY <1>2, <1>3, <1>4, <1>5, <2>1 DEF SpanAt
  <2> QED
    BY <2>2 DEF SpanSound
<1>7. ImagePosition(disk)' = ImagePosition(disk)
  BY <1>3, <1>4 DEF ImagePosition, SameImages
<1>8. phase' = "serving" => ServeSound(h, e, r)'
  <2> SUFFICES ASSUME phase = "serving" PROVE ServeSound(h, e, r)'
    BY <1>3
  <2>1. (ServeSound(h, e, r) /\ worker.pc \notin {"append", "joined"}) \/ retained' = NoSpan
        \/ (ServeSound(h, e, r) /\ retained'.last = retained.last /\ retained # NoSpan)
    <3>1. ServeSound(h, e, r)
      BY DEF Sound
    <3>2. CASE end = x
      BY <1>2, <1>3, <3>2
    <3>3. CASE end # x
      <4>1. retained' = [first |-> end + 1, last |-> x]
        BY <1>2, <1>3, <3>3
      <4> QED
        BY <1>1, <1>2, <3>1, <4>1
    <3> QED
      BY <3>2, <3>3
  <2>2. ServeSound(h, e, r)
    BY DEF Sound
  <2> QED
    BY <1>3, <1>4, <2>1, <2>2 DEF ServeSound
<1>9. OpenSound(h, e, r)'
  <2>1. phase \notin {"commit", "first", "first_apply"}
    BY <1>1, Facts DEF PurgeSound
  <2> QED
    BY <1>3, <1>4, <1>7, <2>1, Facts DEF OpenSound
<1>10. PurgeSound'
  <2>1. /\ purge' \in [on : BOOLEAN, target : Index, removed : Index]
        /\ purge'.on = purge.on /\ purge'.target = purge.target /\ purge'.removed = end
    BY <1>2, <1>3, Facts DEF PurgeSound
  <2> QED
    BY <1>1, <1>2, <1>3, <1>4, <1>7, <2>1, Facts DEF PurgeSound
<1>11. SnapSound'
  BY <1>3, <1>4, <1>7, Facts DEF SnapSound, SameImages
<1>12. ClientSound(h)'
  BY <1>3, Facts DEF ClientSound
<1>13. MemorySound'
  <2>1. retained' \in [first : 0 .. MaxIndex + 1, last : Index]
    BY <1>2, <1>5, SpanType
  <2> QED
    BY <1>3, <2>1, Facts DEF MemorySound
<1> QED
  BY <1>2, <1>3, <1>4, <1>6, <1>8, <1>9, <1>10, <1>11, <1>12, <1>13 DEF Sound

\* Where nothing is left to purge, a serving group has purged through its image.
LEMMA PurgeEnds ==
    ASSUME NEW h, NEW e, NEW r, Sound(h, e, r), purge.on, phase = "serving",
           retained = NoSpan \/ retained.first > purge.target
    PROVE  \E z : /\ z = [disk EXCEPT !.purged = purge.target]
                  /\ DiskSound(z, images, h, e, r) /\ z.purged = disk.purged
                  /\ z.committed = disk.committed /\ z.applied = disk.applied
<1>1. /\ purge.target = ImagePosition(disk) /\ ImagePosition(disk) = Position(disk, images)
      /\ snap.pc = "purging" /\ DiskSound(disk, images, h, e, r)
  BY Facts DEF PurgeSound
<1>2. PICK t : t = purge.target
  OBVIOUS
<1>3. /\ t \in Int /\ disk.purged \in Int /\ disk.purged >= -1 /\ disk.purged <= t /\ t <= next - 1
      /\ next \in Nat /\ e \in Int /\ disk.purged <= e
  BY <1>1, <1>2, Serving
<1>4. PICK x \in Index : SpanAt(e, x)
  BY <1>1 DEF Sound, SpanSound
<1>5. x \in Int /\ disk.purged <= x /\ next - 1 <= x /\ retained = Span(disk.purged, x)
  BY <1>3, <1>4 DEF SpanAt
<1>6. t = disk.purged
  <2>1. CASE retained = NoSpan
    <3>1. Span(disk.purged, x) = NoSpan <=> x = disk.purged
      BY <1>3, <1>5, SpanEnds
    <3>2. x = disk.purged
      BY <1>5, <2>1, <3>1
    <3> QED
      BY <1>3, <1>5, <3>2
  <2>2. CASE retained # NoSpan
    <3>1. retained.first = disk.purged + 1
      BY <1>3, <1>5, <2>2, SpanEnds
    <3> QED
      BY <1>2, <1>3, <2>2, <3>1
  <2> QED
    BY <2>1, <2>2
<1>7. t <= Position(disk, images)
  BY <1>1, <1>2, <1>3
<1>8. PICK z : z = [disk EXCEPT !.purged = t]
  OBVIOUS
<1>9. PICK f : f = (IF e < t THEN t ELSE e)
  OBVIOUS
<1>10. /\ DiskSound(z, images, h, f, r) /\ z.purged = t
      /\ z.committed = disk.committed /\ z.applied = disk.applied
  <2>1. e = disk.purged \/ t = disk.purged
    BY <1>6
  <2> QED
    BY <1>1, <1>3, <1>7, <1>9, <1>8, <2>1, PurgedToSound
<1>11. f = e
  BY <1>3, <1>6, <1>9
<1> QED
  BY <1>2, <1>6, <1>10, <1>11, <1>8

\* A finished purge of an opening repairs the purge cursor, which may pass the journal.
LEMMA RepairedKeeps ==
    ASSUME NEW h, NEW e, NEW r, Sound(h, e, r), PurgeDone, phase # "serving"
    PROVE  \E f \in Index : Sound(h, f, r)' /\ disk.purged <= disk'.purged
<1>1. /\ purge.on /\ purge.target = ImagePosition(disk) /\ ImagePosition(disk) = Position(disk, images)
      /\ phase = "purging" /\ DiskSound(disk, images, h, e, r)
      /\ purge.removed # None => purge.removed = disk.purged
  BY Facts DEF PurgeSound, PurgeDone
<1>2. PICK t : t = purge.target
  OBVIOUS
<1>3. /\ t \in Int /\ t >= -1 /\ disk.purged \in Int /\ disk.purged >= -1 /\ disk.purged <= t
      /\ e \in Int /\ disk.purged <= e /\ disk.committed \in Int /\ disk.committed >= -1
      /\ Len(h) = (IF disk.committed < t THEN t ELSE disk.committed) + 1
  BY <1>1, <1>2, Numbers
<1>4. disk.committed <= t
  BY <1>1, <1>2, Facts DEF OpenSound
<1>5. /\ retained = Span(disk.purged, e) /\ (retained = NoSpan <=> e = disk.purged)
      /\ retained # NoSpan => retained.first = disk.purged + 1
      /\ snap = NoBuild
  BY <1>1, OpeningSpan
<1>6. e = disk.purged \/ t = disk.purged
  <2>1. CASE retained = NoSpan
    BY <1>5, <2>1
  <2>2. CASE retained # NoSpan
    <3>1. disk.purged + 1 > t
      BY <1>2, <1>5, <2>2 DEF PurgeDone
    <3> QED
      BY <1>3, <3>1
  <2> QED
    BY <2>1, <2>2
<1>7. PICK f : f = (IF e < t THEN t ELSE e)
  OBVIOUS
<1>8. PICK z : z = [disk EXCEPT !.purged = t]
  OBVIOUS
<1>9. t <= Position(disk, images)
  BY <1>1, <1>2, <1>3
<1>10. /\ DiskSound(z, images, h, f, r) /\ z.purged = t /\ z.committed = disk.committed
       /\ z.applied = disk.applied /\ SameImages(z, disk)
  BY <1>1, <1>3, <1>6, <1>7, <1>8, <1>9, PurgedToSound
<1>11. /\ DiskSound(disk', images, h, f, r) /\ disk'.purged = t /\ disk'.committed = disk.committed
       /\ disk'.applied = disk.applied /\ SameImages(disk', disk)
  <2>1. CASE purge.removed = purge.target
    <3>1. disk' = disk
      BY <2>1 DEF PurgeDone
    <3>2. t = disk.purged
      BY <1>1, <1>2, <1>3, <2>1, Facts
    <3>3. f = e
      BY <1>3, <1>7, <3>2
    <3> QED
      BY <1>1, <3>1, <3>2, <3>3 DEF SameImages
  <2>2. CASE purge.removed # purge.target
    <3>1. disk' = z
      BY <1>2, <1>8, <2>2 DEF PurgeDone
    <3> QED
      BY <1>10, <3>1
  <2> QED
    BY <2>1, <2>2
<1>12. /\ phase' = "commit" /\ purge' = NoPurge /\ snap' = NoBuild
       /\ UNCHANGED <<images, retained, served, next, covered, failed, closed, worker, client, faults>>
  BY <1>1 DEF PurgeDone, memory
<1>13. f \in Int /\ f \in Index /\ t <= f /\ e <= f /\ Len(h) = t + 1
  <2>1. f \in Index
    BY <1>10 DEF DiskSound
  <2> QED
    BY <1>3, <1>4, <1>7, <2>1
<1>14. retained' = Span(disk'.purged, f)
  <2>1. CASE t = disk.purged
    <3>1. f = e
      BY <1>3, <1>7, <2>1
    <3> QED
      BY <1>5, <1>11, <1>12, <2>1, <3>1
  <2>2. CASE t # disk.purged
    <3>1. e = disk.purged /\ f = t
      BY <1>3, <1>6, <1>7, <2>2
    <3> QED
      BY <1>5, <1>11, <1>12, <3>1 DEF Span
  <2> QED
    BY <2>1, <2>2
<1>15. ImagePosition(disk)' = ImagePosition(disk)
  BY <1>11, <1>12 DEF ImagePosition, SameImages
<1>16. OpenSound(h, f, r)'
  <2>1. Len(h) <= f + 1 /\ Len(h) - 1 = disk'.purged
    BY <1>3, <1>11, <1>13
  <2>2. OpenSound(h, e, r)
    BY Facts
  <2> QED
    BY <1>1, <1>12, <1>15, <2>1, <2>2 DEF OpenSound, Phases
<1>17. PurgeSound'
  <2>1. NoPurge.on = FALSE /\ NoPurge \in [on : BOOLEAN, target : Index, removed : Index]
    BY Bounds DEF NoPurge
  <2> QED
    BY <1>12, <2>1 DEF PurgeSound, NoBuild
<1>18. served' \in Seq(Entry)
  BY <1>12, Facts DEF MemorySound
<1>19. phase' # "serving" /\ snap' = snap
  BY <1>5, <1>12
<1>20. Sound(h, f, r)'
  BY <1>11, <1>12, <1>14, <1>16, <1>17, <1>18, <1>19, OpeningStep
<1> QED
  BY <1>3, <1>11, <1>13, <1>20

\* A finished purge.
LEMMA PurgeDoneKeeps ==
    ASSUME NEW h, NEW e, NEW r, Sound(h, e, r), PurgeDone
    PROVE  \E f \in Index : Sound(h, f, r)' /\ disk.purged <= disk'.purged
<1>1. CASE phase # "serving"
  BY <1>1, RepairedKeeps
<1>2. CASE phase = "serving"
  <2>1. /\ purge.on /\ (retained = NoSpan \/ retained.first > purge.target)
        /\ purge' = NoPurge /\ snap' = NoBuild
        /\ UNCHANGED <<images, phase, retained, served, next, covered, failed, closed, worker,
                       client, faults>>
    BY <1>2 DEF PurgeDone, memory
  <2>2. snap.pc = "purging"
    BY <1>2, <2>1, Facts DEF PurgeSound
  <2>3. PICK z : /\ z = [disk EXCEPT !.purged = purge.target]
                 /\ DiskSound(z, images, h, e, r) /\ z.purged = disk.purged
                 /\ z.committed = disk.committed /\ z.applied = disk.applied
    BY <1>2, <2>1, PurgeEnds
  <2>4. /\ DiskSound(disk', images, h, e, r) /\ disk'.purged = disk.purged
        /\ disk'.committed = disk.committed /\ disk'.applied = disk.applied
    <3>1. CASE disk' = disk
      BY <3>1, Facts
    <3>2. CASE disk' = z
      BY <2>3, <3>2
    <3> QED
      BY <2>3, <3>1, <3>2 DEF PurgeDone
  <2>5. SnapSound' /\ PurgeSound'
    BY <1>2, <2>1, BuildEnds
  <2>6. failed' \in BOOLEAN /\ faults' \in 0 .. MaxFaults
    BY <2>1, Facts DEF MemorySound
  <2>7. Sound(h, e, r)'
    BY <2>1, <2>2, <2>4, <2>5, <2>6, SnapStepKeeps
  <2>8. disk.purged \in Int
    BY <1>2, Serving
  <2> QED
    BY <2>4, <2>7, <2>8, Facts
<1> QED
  BY <1>1, <1>2

\* A purge that reports an error ends the task and fences the group.
LEMMA PurgeFailsKeeps ==
    ASSUME NEW h, NEW e, NEW r, Sound(h, e, r), PurgeFails
    PROVE  Sound(h, e, r)' /\ disk.purged <= disk'.purged
<1>1. /\ purge.on /\ phase = "serving" /\ snap' = NoBuild /\ failed' = TRUE /\ purge' = NoPurge
      /\ UNCHANGED <<images, phase, retained, served, next, covered, closed, worker, client>>
  BY DEF PurgeFails, BuildFails
<1>2. disk.purged \in Int /\ ServeSound(h, e, r) /\ SnapSound' /\ PurgeSound' /\ snap'.pc = "idle"
  BY <1>1, Serving, BuildEnds DEF NoBuild
<1>3. /\ DiskSound(disk', images, h, e, r) /\ disk.purged <= disk'.purged
      /\ disk'.committed = disk.committed /\ disk'.applied = disk.applied
  <2>1. CASE disk' = disk
    BY <1>2, <2>1, Facts
  <2>2. CASE retained # NoSpan /\ retained.first <= purge.target
             /\ disk' = PurgedPrefix(disk, PurgeEnd(retained, purge.target))
    <3>1. PICK end \in Index :
             /\ end = PurgeEnd(retained, purge.target) /\ disk.purged < end /\ end \in Int
             /\ DiskSound(PurgedPrefix(disk, end), images, h, e, r)
             /\ PurgedPrefix(disk, end).purged = end
             /\ PurgedPrefix(disk, end).committed = disk.committed
             /\ PurgedPrefix(disk, end).applied = disk.applied
      BY <1>1, <2>2, PurgeChunk
    <3>2. disk' = PurgedPrefix(disk, end)
      BY <2>2, <3>1
    <3> QED
      BY <1>2, <3>1, <3>2
  <2>3. CASE ~(retained # NoSpan /\ retained.first <= purge.target)
             /\ disk' = [disk EXCEPT !.purged = purge.target]
    <3>1. retained = NoSpan \/ retained.first > purge.target
      <4>1. CASE retained = NoSpan
        BY <4>1
      <4>2. CASE retained # NoSpan
        <5>1. retained.first \in Int /\ purge.target \in Int
          BY Facts, Bounds DEF MemorySound, PurgeSound
        <5> QED
          BY <2>3, <4>2, <5>1
      <4> QED
        BY <4>1, <4>2
    <3>2. PICK z : /\ z = [disk EXCEPT !.purged = purge.target]
                   /\ DiskSound(z, images, h, e, r) /\ z.purged = disk.purged
                   /\ z.committed = disk.committed /\ z.applied = disk.applied
      BY <1>1, <3>1, PurgeEnds
    <3>3. disk' = z
      BY <2>3, <3>2
    <3> QED
      BY <1>2, <3>2, <3>3
  <2> QED
    BY <2>1, <2>2, <2>3 DEF PurgeFails, Unknown
<1>4. faults' \in 0 .. MaxFaults
  BY FaultType DEF PurgeFails
<1>5. SpanSound(e)'
  BY <1>1, <1>2 DEF SpanSound
<1>6. ServeSound(h, e, r)'
  BY <1>1, <1>2, <1>3 DEF ServeSound
<1>7. OpenSound(h, e, r)'
  BY <1>1, <1>3, Facts DEF OpenSound, Phases
<1>8. ClientSound(h)'
  BY <1>1, Facts DEF ClientSound
<1>9. MemorySound'
  BY <1>1, <1>4, Facts DEF MemorySound
<1> QED
  BY <1>1, <1>2, <1>3, <1>5, <1>6, <1>7, <1>8, <1>9 DEF Sound

----------------------------------------------------------------------------
(* Ending *)

\* An orderly shutdown refuses new work and leaves what is there.
LEMMA ShutdownKeeps ==
    ASSUME NEW h, NEW e, NEW r, Sound(h, e, r), Shutdown
    PROVE  Sound(h, e, r)' /\ disk' = disk
<1>1. /\ phase = "serving" /\ closed' = TRUE
      /\ UNCHANGED <<disk, images, phase, retained, served, next, covered, failed, worker, snap,
                     purge, client, faults>>
  BY DEF Shutdown
<1>2. SpanSound(e)'
  BY <1>1 DEF Sound, SpanSound, SpanAt
<1>3. ServeSound(h, e, r)'
  BY <1>1 DEF Sound, ServeSound
<1>4. OpenSound(h, e, r)'
  BY <1>1, Facts DEF OpenSound
<1>5. PurgeSound' /\ SnapSound'
  BY <1>1, Facts DEF PurgeSound, SnapSound, ImagePosition
<1>6. ClientSound(h)'
  BY <1>1, Facts DEF ClientSound
<1>7. MemorySound'
  BY <1>1, Facts DEF MemorySound
<1> QED
  BY <1>1, <1>2, <1>3, <1>4, <1>5, <1>6, <1>7, Facts DEF Sound

\* What a process held is gone; what it stored is sound without it.
LEMMA GoneKeeps ==
    ASSUME NEW h, NEW e, NEW r, Sound(h, e, r), Gone, faults' \in 0 .. MaxFaults
    PROVE  Sound(h, e, r)' /\ disk' = disk
<1>1. /\ phase' = "down" /\ retained' = NoSpan /\ served' = <<>> /\ next' = 0 /\ covered' = None
      /\ failed' = FALSE /\ closed' = FALSE /\ worker' = Idle /\ snap' = NoBuild /\ purge' = NoPurge
      /\ UNCHANGED <<disk, images, client>>
  BY DEF Gone
<1>2. OpenSound(h, e, r)'
  BY <1>1 DEF OpenSound, Phases
<1>3. PurgeSound' /\ SnapSound'
  <2>1. NoBuild \in [pc : SnapPcs, image : Marks, target : Index] /\ NoBuild.pc = "idle"
    BY Bounds DEF NoBuild, SnapPcs, Marks
  <2>2. NoPurge.on = FALSE /\ NoPurge \in [on : BOOLEAN, target : Index, removed : Index]
    BY Bounds DEF NoPurge
  <2> QED
    BY <1>1, <2>1, <2>2 DEF SnapSound, PurgeSound
<1>4. ClientSound(h)'
  <2>1. Idle \in [pc : WorkPcs, ids : Seq(Entry)] /\ Idle.pc = "idle" /\ Len(Idle.ids) = 0
    BY DEF Idle, WorkPcs
  <2>2. ClientSound(h)
    BY Facts
  <2> QED
    BY <1>1, <2>1, <2>2 DEF ClientSound
<1>5. MemorySound'
  <2>1. NoSpan \in [first : 0 .. MaxIndex + 1, last : Index] /\ 0 \in 0 .. MaxIndex + 1 /\ None \in Index
    BY Bounds DEF NoSpan
  <2>2. <<>> \in Seq(Entry)
    OBVIOUS
  <2> QED
    BY <1>1, <2>1, <2>2 DEF MemorySound
<1> QED
  BY <1>1, <1>2, <1>3, <1>4, <1>5, Facts DEF Sound

----------------------------------------------------------------------------
(* Every step *)

\* The next state is sound with a history that continues h, and no purge is undone.
Keeps(h) ==
    \E g \in Seq(Entry), f, s \in Index :
        Sound(g, f, s)' /\ StartOf(h, g) /\ disk.purged <= disk'.purged

\* A step that leaves the history.
LEMMA KeepsSame ==
    ASSUME NEW h, NEW e, NEW r, Sound(h, e, r), NEW f \in Index, NEW s \in Index, Sound(h, f, s)',
           disk'.purged = disk.purged \/ disk.purged <= disk'.purged
    PROVE  Keeps(h)
<1>1. h \in Seq(Entry) /\ StartOf(h, h)
  BY Facts, SelfStart
<1>2. disk.purged \in Int
  BY Facts, Bounds
<1>3. disk.purged <= disk'.purged
  BY <1>2
<1> QED
  BY <1>1, <1>3 DEF Keeps

\* A step that continues it.
LEMMA KeepsLonger ==
    ASSUME NEW h, NEW e, NEW r, Sound(h, e, r), NEW g \in Seq(Entry), NEW f \in Index, NEW s \in Index,
           Sound(g, f, s)', StartOf(h, g), disk'.purged = disk.purged
    PROVE  Keeps(h)
<1>1. disk.purged \in Int
  BY Facts, Bounds
<1>2. disk.purged <= disk'.purged
  BY <1>1
<1> QED
  BY <1>2 DEF Keeps

\* The steps of an opening.
LEMMA OpenSteps ==
    ASSUME NEW h, NEW e, NEW r, Sound(h, e, r), OpenStep
    PROVE  Keeps(h)
<1>1. e \in Index /\ r \in Index
  BY Facts
<1>2. CASE Open
  <2>1. Sound(h, e, r)' /\ disk'.purged = disk.purged
    BY <1>2, OpenKeeps DEF Open
  <2> QED
    BY <1>1, <2>1, KeepsSame
<1>3. CASE OpenCleanup
  BY <1>1, <1>3, OpenCleanupKeeps, KeepsSame
<1>4. CASE Restore
  <2>1. PICK s \in Index : Sound(h, e, s)' /\ disk'.purged = disk.purged
    BY <1>4, RestoreKeeps
  <2> QED
    BY <1>1, <2>1, KeepsSame
<1>5. CASE Repair
  BY <1>1, <1>5, RepairKeeps, KeepsSame
<1>6. CASE RepairCommit
  BY <1>1, <1>6, RepairCommitKeeps, KeepsSame
<1>7. CASE Replay
  <2>1. PICK s \in Index : Sound(h, e, s)' /\ disk'.purged = disk.purged
    BY <1>7, ReplayKeeps
  <2> QED
    BY <1>1, <2>1, KeepsSame
<1>8. CASE Truncate
  <2>1. PICK f \in Index : Sound(h, f, r)' /\ disk'.purged = disk.purged
    BY <1>8, TruncateKeeps
  <2> QED
    BY <1>1, <2>1, KeepsSame
<1>9. CASE Opened
  BY <1>1, <1>9, OpenedKeeps, KeepsSame
<1>10. CASE FirstAppend
  <2>1. /\ Sound(<<Membership>>, 0, r)' /\ Len(h) = 0 /\ disk'.purged = disk.purged
        /\ <<Membership>> \in Seq(Entry) /\ 0 \in Index
    BY <1>10, FirstAppendKeeps
  <2>2. StartOf(h, <<Membership>>)
    BY <2>1 DEF StartOf
  <2> QED
    BY <1>1, <2>1, <2>2, KeepsLonger
<1>11. CASE FirstApply
  BY <1>1, <1>11, FirstApplyKeeps, KeepsSame
<1> QED
  BY <1>2, <1>3, <1>4, <1>5, <1>6, <1>7, <1>8, <1>9, <1>10, <1>11 DEF OpenStep

\* The steps of the worker.
LEMMA WorkSteps ==
    ASSUME NEW h, NEW e, NEW r, Sound(h, e, r), WorkStep
    PROVE  Keeps(h)
<1>1. e \in Index /\ r \in Index /\ faults \in 0 .. MaxFaults
  BY Facts DEF MemorySound
<1>2. CASE AppendLocal
  <2>1. PICK g \in Seq(Entry), f \in Index : Sound(g, f, r)' /\ StartOf(h, g) /\ disk'.purged = disk.purged
    BY <1>2, AppendLocalKeeps
  <2> QED
    BY <1>1, <2>1, KeepsLonger
<1>3. CASE AppendRefused
  BY <1>1, <1>3, RefusedKeeps, KeepsSame DEF AppendRefused
<1>4. CASE ApplyLocal
  BY <1>1, <1>4, ApplyLocalKeeps, KeepsSame
<1>5. CASE PrepareLocalAppend
  BY <1>1, <1>5, PrepareKeeps, KeepsSame
<1>6. CASE ApplyJoined
  <2>1. PICK g \in Seq(Entry), f \in Index : Sound(g, f, f)' /\ StartOf(h, g) /\ disk'.purged = disk.purged
    BY <1>6, ApplyJoinedKeeps
  <2> QED
    BY <1>1, <2>1, KeepsLonger
<1>7. CASE JoinedRefused
  BY <1>1, <1>7, RefusedKeeps, KeepsSame DEF JoinedRefused
<1>8. CASE BarrierCommits
  <2>1. PICK g \in Seq(Entry), f \in Index : Sound(g, f, r)' /\ StartOf(h, g) /\ disk'.purged = disk.purged
    BY <1>8, BarrierKeeps
  <2> QED
    BY <1>1, <2>1, KeepsLonger
<1>9. CASE ApplyRecorded
  BY <1>1, <1>9, ApplyRecordedKeeps, KeepsSame
<1>10. CASE ApplyFenced \/ FinishFenced
  <2>1. worker.pc # "idle" /\ WorkFails /\ disk' = disk /\ faults' = faults
    BY <1>10 DEF ApplyFenced, FinishFenced
  <2>2. Sound(h, e, r)'
    BY <1>1, <2>1, FencedKeeps
  <2> QED
    BY <1>1, <2>1, <2>2, KeepsSame
<1>11. CASE Finish
  BY <1>1, <1>11, FinishKeeps, KeepsSame
<1> QED
  BY <1>2, <1>3, <1>4, <1>5, <1>6, <1>7, <1>8, <1>9, <1>10, <1>11 DEF WorkStep

\* The steps of the snapshot task and of a purge.
LEMMA SnapSteps ==
    ASSUME NEW h, NEW e, NEW r, Sound(h, e, r), SnapStep \/ PurgeWork
    PROVE  Keeps(h)
<1>1. e \in Index /\ r \in Index
  BY Facts
<1>2. CASE Build
  BY <1>1, <1>2, BuildKeeps, KeepsSame
<1>3. CASE BuildCleanup
  BY <1>1, <1>3, BuildCleanupKeeps, KeepsSame
<1>4. CASE StagePending
  BY <1>1, <1>4, StagePendingKeeps, KeepsSame
<1>5. CASE StageChunks
  BY <1>1, <1>5, StageChunksKeeps, KeepsSame
<1>6. CASE PublishImage
  BY <1>1, <1>6, PublishKeeps, KeepsSame
<1>7. CASE StartPurge
  BY <1>1, <1>7, StartPurgeKeeps, KeepsSame
<1>8. CASE BuildDeferred \/ PurgeRefused
  BY <1>1, <1>8, DeferredKeeps, KeepsSame
<1>9. CASE PurgeStep
  BY <1>1, <1>9, PurgeStepKeeps, KeepsSame
<1>10. CASE PurgeDone
  <2>1. PICK f \in Index : Sound(h, f, r)' /\ disk.purged <= disk'.purged
    BY <1>10, PurgeDoneKeeps
  <2> QED
    BY <1>1, <2>1, KeepsSame
<1> QED
  BY <1>2, <1>3, <1>4, <1>5, <1>6, <1>7, <1>8, <1>9, <1>10 DEF SnapStep, PurgeWork

\* The failures of the worker, whose commit took effect or did not.
LEMMA WorkBreaks ==
    ASSUME NEW h, NEW e, NEW r, Sound(h, e, r), AppendFails \/ ApplyFails
    PROVE  Keeps(h)
<1>1. e \in Index /\ r \in Index
  BY Facts
<1>2. WorkFails /\ faults' \in 0 .. MaxFaults /\ worker.pc # "idle"
  BY FaultType DEF AppendFails, ApplyFails
<1>3. CASE disk' = disk
  BY <1>1, <1>2, <1>3, FencedKeeps, KeepsSame
<1>4. CASE worker.pc \in {"append", "prepared"} /\ disk' = Recorded(disk, next, worker.ids)
  <2>1. PICK g \in Seq(Entry), f \in Index : Sound(g, f, r)' /\ StartOf(h, g) /\ disk'.purged = disk.purged
    BY <1>2, <1>4, RecordFailsKeeps
  <2> QED
    BY <1>1, <2>1, KeepsLonger
<1>5. CASE worker.pc \in {"appended", "recorded"} /\ disk' = Applied(disk, next, worker.ids)
  BY <1>1, <1>2, <1>5, ApplicationFailsKeeps, KeepsSame
<1>6. CASE worker.pc = "prepared" /\ disk' = Applied(Recorded(disk, next, worker.ids), next, worker.ids)
  <2>1. PICK g \in Seq(Entry), f \in Index : Sound(g, f, f)' /\ StartOf(h, g) /\ disk'.purged = disk.purged
    BY <1>2, <1>6, PublicationFailsKeeps
  <2> QED
    BY <1>1, <2>1, KeepsLonger
<1>7. CASE AppendFails
  BY <1>3, <1>4, <1>7 DEF AppendFails, Unknown
<1>8. CASE ApplyFails
  BY <1>3, <1>4, <1>5, <1>6, <1>8 DEF ApplyFails, Unknown
<1> QED
  BY <1>7, <1>8

\* Every step makes the history longer or leaves it, and keeps the state sound.
LEMMA JournalStep ==
    ASSUME NEW h, NEW e, NEW r, Sound(h, e, r), [Next]_vars
    PROVE  Keeps(h)
<1>1. e \in Index /\ r \in Index
  BY Facts
<1>2. CASE OpenStep
  BY <1>2, OpenSteps
<1>3. CASE WorkStep
  BY <1>3, WorkSteps
<1>4. CASE SnapStep \/ PurgeWork
  BY <1>4, SnapSteps
<1>5. CASE Breaks
  <2>1. CASE AppendFails \/ ApplyFails
    BY <2>1, WorkBreaks
  <2>2. CASE BuildBreaks
    BY <1>1, <2>2, BuildBreaksKeeps, KeepsSame
  <2>3. CASE PurgeFails
    BY <1>1, <2>3, PurgeFailsKeeps, KeepsSame
  <2>4. CASE Crash
    <3>1. Gone /\ faults' \in 0 .. MaxFaults
      BY <2>4, FaultType DEF Crash
    <3> QED
      BY <1>1, <3>1, GoneKeeps, KeepsSame
  <2> QED
    BY <1>5, <2>1, <2>2, <2>3, <2>4 DEF Breaks
<1>6. CASE write \/ write_joined \/ write_joined_group
  <2>1. 1 \in 1 .. 2 /\ 2 \in 1 .. 2 /\ TRUE \in BOOLEAN /\ FALSE \in BOOLEAN
    OBVIOUS
  <2>2. CASE write
    <3>1. Submit(1, FALSE)
      BY <2>2 DEF write
    <3>2. Sound(h, e, r)' /\ disk' = disk
      BY <2>1, <3>1, SubmitKeeps, Zenon
    <3> QED
      BY <1>1, <3>2, KeepsSame
  <2>3. CASE write_joined
    <3>1. Submit(1, TRUE)
      BY <2>3 DEF write_joined
    <3>2. Sound(h, e, r)' /\ disk' = disk
      BY <2>1, <3>1, SubmitKeeps, Zenon
    <3> QED
      BY <1>1, <3>2, KeepsSame
  <2>4. CASE write_joined_group
    <3>1. Submit(2, TRUE)
      BY <2>4 DEF write_joined_group
    <3>2. Sound(h, e, r)' /\ disk' = disk
      BY <2>1, <3>1, SubmitKeeps, Zenon
    <3> QED
      BY <1>1, <3>2, KeepsSame
  <2> QED
    BY <1>6, <2>2, <2>3, <2>4
<1>7. CASE TriggerSnapshot
  BY <1>1, <1>7, TriggerKeeps, KeepsSame
<1>8. CASE Shutdown
  BY <1>1, <1>8, ShutdownKeeps, KeepsSame
<1>9. CASE Drained
  <2>1. Gone /\ faults' \in 0 .. MaxFaults
    BY <1>9, Facts DEF Drained, MemorySound
  <2> QED
    BY <1>1, <2>1, GoneKeeps, KeepsSame
<1>10. CASE UNCHANGED vars
  <2>1. /\ UNCHANGED <<disk, images, phase, retained, served, next, covered, failed, closed, worker,
                       snap, purge, client, faults>>
    BY <1>10 DEF vars
  <2>2. ImagePosition(disk)' = ImagePosition(disk)
    BY <2>1 DEF ImagePosition
  <2>3. /\ (phase # "down" => SpanSound(e)) => (phase' # "down" => SpanSound(e)')
        /\ (phase = "serving" => ServeSound(h, e, r)) => (phase' = "serving" => ServeSound(h, e, r)')
    <3>1. SpanSound(e) => SpanSound(e)'
      BY <2>1 DEF SpanSound, SpanAt
    <3>2. ServeSound(h, e, r) => ServeSound(h, e, r)'
      BY <2>1 DEF ServeSound
    <3> QED
      BY <2>1, <3>1, <3>2
  <2>4. OpenSound(h, e, r)'
    BY <2>1, <2>2, Facts DEF OpenSound
  <2>5. PurgeSound' /\ SnapSound'
    BY <2>1, <2>2, Facts DEF PurgeSound, SnapSound
  <2>6. ClientSound(h)' /\ MemorySound'
    <3>1. ClientSound(h) /\ MemorySound
      BY Facts
    <3>2. ClientSound(h)'
      BY <2>1, <3>1 DEF ClientSound
    <3>3. MemorySound'
      BY <2>1, <3>1 DEF MemorySound
    <3> QED
      BY <3>2, <3>3
  <2>7. Sound(h, e, r)'
    BY <2>1, <2>3, <2>4, <2>5, <2>6, Facts DEF Sound
  <2> QED
    BY <1>1, <2>1, <2>7, KeepsSame
<1> QED
  BY <1>2, <1>3, <1>4, <1>5, <1>6, <1>7, <1>8, <1>9, <1>10 DEF Next

----------------------------------------------------------------------------
(* What a predecessor left *)

\* A closed group is sound when its disk is and its clients know nothing else.
LEMMA ClosedSound ==
    ASSUME NEW h, NEW e, NEW r, Init, DiskSound(disk, images, h, e, r),
           client.attempts = 0, client.refused = {}, client.acked \in SUBSET Entry,
           client \in [attempts : 0 .. MaxAttempts, acked : SUBSET Entry, refused : SUBSET Entry],
           client.acked \subseteq Range(h), \A i \in 1 .. Len(h) : h[i] <= Membership
    PROVE  Sound(h, e, r)
<1>1. /\ phase = "down" /\ retained = NoSpan /\ served = <<>> /\ next = 0 /\ covered = None
      /\ failed = FALSE /\ closed = FALSE /\ worker = Idle /\ snap = NoBuild /\ purge = NoPurge
      /\ faults = 0
  BY DEF Init
<1>2. OpenSound(h, e, r)
  BY <1>1 DEF OpenSound, Phases
<1>3. PurgeSound /\ SnapSound
  <2>1. NoBuild \in [pc : SnapPcs, image : Marks, target : Index] /\ NoBuild.pc = "idle"
    BY Bounds DEF NoBuild, SnapPcs, Marks
  <2>2. NoPurge.on = FALSE /\ NoPurge \in [on : BOOLEAN, target : Index, removed : Index]
    BY Bounds DEF NoPurge
  <2> QED
    BY <1>1, <2>1, <2>2 DEF SnapSound, PurgeSound
<1>4. ClientSound(h)
  <2>1. Idle \in [pc : WorkPcs, ids : Seq(Entry)] /\ Idle.pc = "idle" /\ Len(Idle.ids) = 0
    BY DEF Idle, WorkPcs
  <2>2. \A i \in 1 .. Len(h) : h[i] <= Membership + client.attempts /\ h[i] \notin client.refused
    BY Bounds
  <2> QED
    BY <1>1, <2>1, <2>2 DEF ClientSound
<1>5. MemorySound
  <2>1. /\ NoSpan \in [first : 0 .. MaxIndex + 1, last : Index] /\ 0 \in 0 .. MaxIndex + 1
        /\ None \in Index /\ 0 \in 0 .. MaxFaults
    BY Bounds DEF NoSpan
  <2>2. <<>> \in Seq(Entry)
    OBVIOUS
  <2> QED
    BY <1>1, <2>1, <2>2 DEF MemorySound
<1> QED
  BY <1>1, <1>2, <1>3, <1>4, <1>5 DEF Sound

\* An empty disk.
LEMMA FreshSound == DiskSound(Fresh, <<>>, <<>>, -1, -1)
<1>1. -1 \in Index /\ None = -1 /\ MaxIndex \in Nat /\ MaxCaptures \in Nat
  BY Bounds
<1>2. <<>> \in [{} -> Entry] /\ {} \in SUBSET (0 .. MaxIndex)
  OBVIOUS
<1>3. <<>> \in Partial
  BY <1>2, PartialIn
<1>4. /\ Fresh.log = <<>> /\ Fresh.committed = -1 /\ Fresh.purged = -1
      /\ Fresh.applied = [index |-> -1, id |-> -1] /\ Fresh.rows = <<>> /\ Fresh.current = -1
      /\ Fresh.pending = -1 /\ Fresh.obsolete = -1 /\ Fresh.coverage = -1 /\ Fresh.chunks = {}
  BY <1>1 DEF Fresh
<1>5. Fresh \in Disks
  BY <1>1, <1>3 DEF Fresh, Disks, Marks
<1>6. Position(Fresh, <<>>) = -1
  BY <1>1, <1>4 DEF Position
<1>7. Len(<<>>) = 0 /\ <<>> \in Seq(Entry) /\ <<>> \in Seq(Seq(Entry)) /\ DOMAIN <<>> = {}
  OBVIOUS
<1>8. 0 .. -1 = {} /\ 1 .. 0 = {}
  OBVIOUS
<1>9. JournalSound(Fresh, <<>>, <<>>, -1)
  BY <1>4, <1>6, <1>7, <1>8 DEF JournalSound
<1>10. RowsSound(Fresh, <<>>, <<>>, -1)
  BY <1>4, <1>6, <1>7, <1>8 DEF RowsSound
<1>11. ChunksSound(Fresh, <<>>)
  BY <1>1, <1>4, <1>7 DEF ChunksSound
<1>12. ImagesSound(<<>>, <<>>)
  BY <1>1, <1>7, <1>8 DEF ImagesSound
<1> QED
  BY <1>1, <1>5, <1>7, <1>8, <1>9, <1>10, <1>11, <1>12 DEF DiskSound

\* The entries 0 .. m in their order.
Counted(m) == [k \in 1 .. m + 1 |-> k - 1]

\* They are a sequence of entries.
LEMMA CountedIs ==
    ASSUME NEW m \in Int, -1 <= m, m <= Legacy
    PROVE  /\ Counted(m) \in Seq(Entry) /\ Len(Counted(m)) = m + 1
           /\ \A i \in 1 .. m + 1 : Counted(m)[i] = i - 1
           /\ Range(Counted(m)) = 0 .. m
<1>1. m + 1 \in Nat /\ \A k \in 1 .. m + 1 : k - 1 \in Entry
  BY Bounds
<1>2. Counted(m) \in [1 .. m + 1 -> Entry]
  BY <1>1 DEF Counted
<1>3. Counted(m) \in Seq(Entry) /\ Len(Counted(m)) = m + 1
  BY <1>1, <1>2
<1>4. \A i \in 1 .. m + 1 : Counted(m)[i] = i - 1
  BY DEF Counted
<1>5. Range(Counted(m)) = 0 .. m
  <2>1. ASSUME NEW x \in 0 .. m PROVE x \in Range(Counted(m))
    <3>1. x + 1 \in 1 .. m + 1 /\ Counted(m)[x + 1] = x
      BY <1>4
    <3> QED
      BY <1>2, <3>1 DEF Range
  <2>2. ASSUME NEW x \in Range(Counted(m)) PROVE x \in 0 .. m
    <3>1. PICK i \in 1 .. m + 1 : x = Counted(m)[i]
      BY <1>2 DEF Range
    <3> QED
      BY <1>4, <3>1
  <2> QED
    BY <2>1, <2>2
<1> QED
  BY <1>3, <1>4, <1>5

\* The disk of a clustered predecessor.
LEMMA LegacySound ==
    ASSUME NEW g \in LegacyGroups,
           NEW m, m = (IF g.committed < g.image THEN g.image ELSE g.committed),
           NEW im, im = (IF g.image = None THEN <<>> ELSE <<Counted(g.image)>>)
    PROVE  /\ DiskSound(LegacyDisk(g), im, Counted(m), g.last, g.applied)
           /\ m \in Int /\ -1 <= m /\ m <= Legacy /\ g.committed <= m /\ g.image <= m
           /\ g.last \in Index /\ g.applied \in Index
           /\ g.committed \in Int /\ g.image \in Int
<1>1. /\ None = -1 /\ Legacy \in Int /\ Legacy >= -1 /\ Legacy <= MaxIndex /\ MaxIndex \in Nat
      /\ MaxCaptures \in Nat /\ MaxCaptures >= 1 /\ Membership = Legacy + 1 /\ MaxAttempts \in Nat
  BY Bounds
<1>2. PICK q, l, c, a, i : q = g.purged /\ l = g.last /\ c = g.committed /\ a = g.applied /\ i = g.image
  OBVIOUS
<1>3. /\ q \in -1 .. Legacy /\ l \in -1 .. Legacy /\ c \in -1 .. Legacy /\ a \in -1 .. Legacy
      /\ i \in -1 .. Legacy /\ q <= i /\ q <= c /\ c <= l /\ i <= a /\ (a <= c \/ a = i)
  BY <1>1, <1>2 DEF LegacyGroups
<1>4. m = (IF c < i THEN i ELSE c)
  BY <1>2
<1>5. /\ q \in Int /\ l \in Int /\ c \in Int /\ a \in Int /\ i \in Int /\ m \in Int
      /\ -1 <= q /\ -1 <= m /\ m <= Legacy /\ c <= m /\ i <= m /\ a <= m /\ q <= l /\ l <= Legacy
      /\ -1 <= a /\ -1 <= i /\ -1 <= l /\ -1 <= c
  BY <1>1, <1>3, <1>4
<1>6. q \in Index /\ l \in Index /\ c \in Index /\ a \in Index /\ a \in Entry \cup {None}
  <2>1. Index = -1 .. MaxIndex /\ Entry = 0 .. Membership + MaxAttempts
    BY Bounds
  <2> QED
    BY <1>1, <1>3, <2>1
<1>7. PICK h : h = Counted(m)
  OBVIOUS
<1>8. /\ h \in Seq(Entry) /\ Len(h) = m + 1 /\ \A k \in 1 .. m + 1 : h[k] = k - 1
  BY <1>5, <1>7, CountedIs
<1>9. PICK d : d = LegacyDisk(g)
  OBVIOUS
<1>10. PICK p : p = (IF i = None THEN None ELSE 1)
  OBVIOUS
<1>11. d = [log |-> [k \in (q + 1) .. l |-> k], committed |-> c, purged |-> q,
            applied |-> [index |-> a, id |-> a], rows |-> [k \in 0 .. a |-> k], current |-> p,
            pending |-> None, obsolete |-> None, coverage |-> p, chunks |-> {p} \ {None}]
  BY <1>2, <1>9, <1>10 DEF LegacyDisk
<1>12. /\ d.committed = c /\ d.purged = q /\ d.applied = [index |-> a, id |-> a] /\ d.current = p
       /\ d.pending = None /\ d.obsolete = None /\ d.coverage = p /\ d.chunks = {p} \ {None}
       /\ d.log = [k \in (q + 1) .. l |-> k] /\ d.rows = [k \in 0 .. a |-> k]
  BY <1>11
<1>13. /\ DOMAIN d.log = (q + 1) .. l /\ \A k \in (q + 1) .. l : d.log[k] = k
       /\ DOMAIN d.rows = 0 .. a /\ \A k \in 0 .. a : d.rows[k] = k
  BY <1>12
<1>14. d.log \in Partial /\ d.rows \in Partial
  <2>1. Entry = 0 .. Membership + MaxAttempts
    BY Bounds
  <2>2. (q + 1) .. l \in SUBSET (0 .. MaxIndex) /\ 0 .. a \in SUBSET (0 .. MaxIndex)
    BY <1>1, <1>3, <1>5
  <2>3. \A k \in (q + 1) .. l : k \in Entry
    BY <1>1, <1>3, <1>5, <2>1
  <2>4. \A k \in 0 .. a : k \in Entry
    BY <1>1, <1>3, <1>5, <2>1
  <2>5. d.log \in [(q + 1) .. l -> Entry] /\ d.rows \in [0 .. a -> Entry]
    BY <1>12, <2>3, <2>4
  <2> QED
    BY <2>2, <2>5, PartialIn
<1>15. p \in Marks /\ {p} \ {None} \in SUBSET Image /\ None \in Marks
  BY <1>1, <1>10 DEF Marks, Image
<1>16. d \in Disks
  <2>1. [index |-> a, id |-> a] \in [index : Index, id : Entry \cup {None}]
    BY <1>6
  <2> QED
    BY <1>6, <1>11, <1>12, <1>14, <1>15, <2>1 DEF Disks
<1>17. /\ im \in Seq(Seq(Entry)) /\ Len(im) \in 0 .. 1 /\ (i = -1 => Len(im) = 0)
       /\ (i # -1 => Len(im) = 1 /\ im[1] = Counted(i)) /\ DOMAIN im = 1 .. Len(im)
  <2>1. CASE i = -1
    <3>1. im = <<>>
      BY <1>1, <1>2, <2>1
    <3> QED
      BY <2>1, <3>1
  <2>2. CASE i # -1
    <3>1. im = <<Counted(i)>>
      BY <1>1, <1>2, <2>2
    <3>2. PICK x : x = Counted(i)
      OBVIOUS
    <3>3. x \in Seq(Entry)
      BY <1>3, <1>5, <3>2, CountedIs
    <3>4. <<x>> \in Seq(Seq(Entry)) /\ Len(<<x>>) = 1 /\ <<x>>[1] = x /\ DOMAIN <<x>> = 1 .. 1
      BY <3>3
    <3>5. im = <<x>>
      BY <3>1, <3>2
    <3>6. im \in Seq(Seq(Entry))
      BY <3>4, <3>5
    <3>7. Len(im) = 1
      BY <3>4, <3>5
    <3>8. im[1] = x
      BY <3>4, <3>5
    <3>9. DOMAIN im = 1 .. Len(im)
      BY <3>4, <3>5, <3>7
    <3>10. Len(im) \in 0 .. 1
      BY <3>7
    <3>11. im[1] = Counted(i)
      BY <3>2, <3>8
    <3> QED
      BY <2>2, <3>6, <3>7, <3>9, <3>10, <3>11
  <2> QED
    BY <2>1, <2>2
<1>18. Len(Counted(i)) = i + 1 /\ \A k \in 1 .. i + 1 : Counted(i)[k] = k - 1
  BY <1>3, <1>5, CountedIs
<1>19. Position(d, im) = i
  <2>1. CASE i = -1
    BY <1>1, <1>10, <1>12, <2>1 DEF Position
  <2>2. CASE i # -1
    <3>1. p = 1 /\ p # None
      BY <1>1, <1>10, <2>2
    <3>2. im[p] = Counted(i) /\ Len(im[p]) = i + 1
      BY <1>17, <1>18, <2>2, <3>1
    <3>3. Position(d, im) = Len(im[p]) - 1
      BY <1>12, <3>1 DEF Position
    <3> QED
      BY <1>5, <3>2, <3>3
  <2> QED
    BY <2>1, <2>2
<1>20. JournalSound(d, im, h, l)
  <2>1. \A k \in (q + 1) .. l : IF k < Len(h) THEN d.log[k] = h[k + 1] ELSE d.log[k] <= Legacy
    <3> SUFFICES ASSUME NEW k \in (q + 1) .. l
                 PROVE  IF k < Len(h) THEN d.log[k] = h[k + 1] ELSE d.log[k] <= Legacy
      OBVIOUS
    <3>1. k \in Int /\ k >= 0 /\ k <= Legacy /\ d.log[k] = k
      BY <1>1, <1>5, <1>13
    <3>2. CASE k < Len(h)
      <4>1. PICK j : j = k + 1
        OBVIOUS
      <4>2. j \in 1 .. m + 1 /\ j - 1 = k
        <5>1. Len(h) = m + 1 /\ m \in Int
          BY <1>5, <1>8
        <5> QED
          BY <3>1, <3>2, <4>1, <5>1
      <4>3. h[j] = k
        BY <1>8, <4>2
      <4> QED
        BY <3>1, <3>2, <4>1, <4>3
    <3>3. CASE ~(k < Len(h))
      BY <3>1, <3>3
    <3> QED
      BY <3>2, <3>3
  <2>2. Len(h) = (IF c < i THEN i ELSE c) + 1 /\ (i + 1 < Len(h) => Len(h) <= l + 1)
    BY <1>3, <1>4, <1>5, <1>8
  <2>3. d.committed = c /\ d.purged = q /\ q <= i /\ q <= l /\ DOMAIN d.log = (q + 1) .. l
    BY <1>3, <1>5, <1>12, <1>13
  <2> QED
    BY <1>19, <2>1, <2>2, <2>3 DEF JournalSound
<1>21. RowsSound(d, im, h, a)
  <2>1. d.applied.index = a /\ d.applied.id = a
    BY <1>12
  <2>2. \A k \in 0 .. a : h[k + 1] = k
    <3> SUFFICES ASSUME NEW k \in 0 .. a PROVE h[k + 1] = k
      OBVIOUS
    <3>1. k + 1 \in 1 .. m + 1 /\ k \in Int
      BY <1>5
    <3> QED
      BY <1>8, <3>1
  <2>3. a >= 0 => a = h[a + 1]
    <3>1. a >= 0 => a \in 0 .. a
      BY <1>5
    <3> QED
      BY <2>2, <3>1
  <2>4. i <= a /\ a < Len(h) /\ a <= a
    BY <1>3, <1>5, <1>8
  <2>5. \A k \in 0 .. a : d.rows[k] = h[k + 1]
    BY <1>13, <2>2
  <2>6. DOMAIN d.rows = 0 .. a
    BY <1>13
  <2> QED
    BY <1>19, <2>1, <2>3, <2>4, <2>5, <2>6 DEF RowsSound
<1>22. ChunksSound(d, im)
  <2>1. p # None => p \in DOMAIN im
    BY <1>1, <1>10, <1>17
  <2> QED
    BY <1>12, <2>1 DEF ChunksSound
<1>23. ImagesSound(im, h)
  <2>1. \A k \in 1 .. Len(im) : StartOf(im[k], h)
    <3> SUFFICES ASSUME NEW k \in 1 .. Len(im) PROVE StartOf(im[k], h)
      OBVIOUS
    <3>1. im[k] = Counted(i)
      BY <1>17
    <3>2. i + 1 <= m + 1 /\ \A j \in 1 .. i + 1 : j \in 1 .. m + 1
      BY <1>5
    <3> QED
      BY <1>8, <1>18, <3>1, <3>2 DEF StartOf
  <2>2. Len(im) <= MaxCaptures
    BY <1>1, <1>17
  <2> QED
    BY <1>17, <2>1, <2>2 DEF ImagesSound
<1>24. \A j, k \in 1 .. Len(h) : h[j] = h[k] => j = k
  BY <1>5, <1>8
<1>25. DiskSound(d, im, h, l, a)
  BY <1>6, <1>8, <1>16, <1>20, <1>21, <1>22, <1>23, <1>24 DEF DiskSound
<1>26. g.last = l /\ g.applied = a /\ g.committed = c /\ g.image = i
  BY <1>2
<1> QED
  BY <1>5, <1>6, <1>7, <1>9, <1>25, <1>26

\* Every initial state is sound.
LEMMA JournalInit ==
    ASSUME Init
    PROVE  JournalInv
<1>1. CASE disk = Fresh /\ images = <<>> /\ client = [attempts |-> 0, acked |-> {}, refused |-> {}]
  <2>1. DiskSound(disk, images, <<>>, -1, -1)
    BY <1>1, FreshSound
  <2>2. /\ client \in [attempts : 0 .. MaxAttempts, acked : SUBSET Entry, refused : SUBSET Entry]
        /\ client.attempts = 0 /\ client.acked = {} /\ client.refused = {}
    BY <1>1, Bounds
  <2>3. <<>> \in Seq(Entry) /\ Len(<<>>) = 0 /\ -1 \in Index
    BY Bounds
  <2>4. \A i \in 1 .. Len(<<>>) : <<>>[i] <= Membership
    BY <2>3
  <2>5. client.acked \in SUBSET Entry /\ client.acked \subseteq Range(<<>>)
    BY <2>2
  <2>6. Sound(<<>>, -1, -1)
    BY <2>1, <2>2, <2>4, <2>5, ClosedSound
  <2> QED
    BY <2>3, <2>6 DEF JournalInv
<1>2. CASE \E g \in LegacyGroups :
              /\ disk = LegacyDisk(g)
              /\ images = IF g.image = None THEN <<>> ELSE <<[k \in 1 .. g.image + 1 |-> k - 1]>>
              /\ client = [attempts |-> 0, refused |-> {},
                           acked |-> (0 .. g.committed) \cup (0 .. g.image)]
  <2>1. PICK g \in LegacyGroups :
              /\ disk = LegacyDisk(g)
              /\ images = IF g.image = None THEN <<>> ELSE <<[k \in 1 .. g.image + 1 |-> k - 1]>>
              /\ client = [attempts |-> 0, refused |-> {},
                           acked |-> (0 .. g.committed) \cup (0 .. g.image)]
    BY <1>2
  <2>2. PICK m : m = (IF g.committed < g.image THEN g.image ELSE g.committed)
    OBVIOUS
  <2>3. PICK im : im = (IF g.image = None THEN <<>> ELSE <<Counted(g.image)>>)
    OBVIOUS
  <2>4. /\ DiskSound(LegacyDisk(g), im, Counted(m), g.last, g.applied)
        /\ m \in Int /\ -1 <= m /\ m <= Legacy /\ g.committed <= m /\ g.image <= m
        /\ g.last \in Index /\ g.applied \in Index /\ g.committed \in Int /\ g.image \in Int
    BY <2>2, <2>3, LegacySound
  <2>5. images = im
    BY <2>1, <2>3 DEF Counted
  <2>6. PICK h : h = Counted(m)
    OBVIOUS
  <2>7. /\ h \in Seq(Entry) /\ Len(h) = m + 1 /\ Range(h) = 0 .. m
        /\ \A k \in 1 .. m + 1 : h[k] = k - 1
    BY <2>4, <2>6, CountedIs
  <2>8. DiskSound(disk, images, h, g.last, g.applied)
    BY <2>1, <2>4, <2>5, <2>6
  <2>9. client.attempts = 0 /\ client.refused = {} /\ client.acked = (0 .. g.committed) \cup (0 .. g.image)
    BY <2>1
  <2>10. client.acked \subseteq 0 .. m
    BY <2>4, <2>9
  <2>11. client.acked \subseteq Range(h)
    BY <2>7, <2>10
  <2>12. client.acked \in SUBSET Entry
    <3>1. Entry = 0 .. Membership + MaxAttempts /\ Membership = Legacy + 1 /\ Legacy \in Int /\ MaxAttempts \in Nat
      BY Bounds
    <3>2. 0 .. m \subseteq Entry
      BY <2>4, <3>1
    <3> QED
      BY <2>10, <3>2
  <2>13. client \in [attempts : 0 .. MaxAttempts, acked : SUBSET Entry, refused : SUBSET Entry]
    <3>1. 0 \in 0 .. MaxAttempts
      BY Bounds
    <3> QED
      BY <2>1, <2>9, <2>12, <3>1
  <2>14. \A k \in 1 .. Len(h) : h[k] <= Membership
    <3>1. Membership = Legacy + 1 /\ Legacy \in Int
      BY Bounds
    <3> QED
      BY <2>4, <2>7, <3>1
  <2>15. Sound(h, g.last, g.applied)
    BY <2>8, <2>9, <2>11, <2>12, <2>13, <2>14, ClosedSound
  <2> QED
    BY <2>4, <2>7, <2>15 DEF JournalInv
<1> QED
  BY <1>1, <1>2 DEF Init

----------------------------------------------------------------------------
(* What a sound state promises *)

\* The history that a disk can reproduce, as History states it.
HistoryAt(d, im) ==
    [i \in { k \in 0 .. (IF d.committed < Position(d, im) THEN Position(d, im) ELSE d.committed) :
               k <= Position(d, im) \/ k \in DOMAIN d.log } |->
        IF i <= Position(d, im) THEN im[d.current][i + 1] ELSE d.log[i]]

\* A sound disk reproduces the whole history: its image, then its journal.
LEMMA HistoryIs ==
    ASSUME NEW d, NEW im, NEW h, NEW e, NEW r, DiskSound(d, im, h, e, r)
    PROVE  /\ DOMAIN HistoryAt(d, im) = 0 .. Len(h) - 1
           /\ \A i \in 0 .. Len(h) - 1 : HistoryAt(d, im)[i] = h[i + 1]
<1>1. PICK p, q, n, c : p = Position(d, im) /\ q = d.purged /\ n = Len(h) /\ c = d.committed
  OBVIOUS
<1>2. /\ p \in Int /\ p >= -1 /\ q \in Int /\ q >= -1 /\ n \in Nat /\ c \in Int /\ e \in Int /\ q <= p
      /\ n = (IF c < p THEN p ELSE c) + 1 /\ (p + 1 < n => n <= e + 1)
  BY <1>1, Numbers
<1>3. DOMAIN d.log = (q + 1) .. e /\ \A i \in DOMAIN d.log : i < n => d.log[i] = h[i + 1]
  BY <1>1, Numbers
<1>4. \A i \in 0 .. n - 1 : i <= p \/ i \in (q + 1) .. e
  BY <1>2
<1>5. (IF c < p THEN p ELSE c) = n - 1
  BY <1>2
<1>6. { k \in 0 .. n - 1 : k <= p \/ k \in DOMAIN d.log } = 0 .. n - 1
  BY <1>3, <1>4
<1>7. HistoryAt(d, im) = [i \in 0 .. n - 1 |-> IF i <= p THEN im[d.current][i + 1] ELSE d.log[i]]
  BY <1>1, <1>5, <1>6 DEF HistoryAt
<1>8. ASSUME NEW i \in 0 .. n - 1
      PROVE  (IF i <= p THEN im[d.current][i + 1] ELSE d.log[i]) = h[i + 1]
  <2>1. i \in Int /\ i >= 0 /\ i < n
    BY <1>2
  <2>2. CASE i <= p
    <3>1. d.current # None
      BY <1>1, <2>1, <2>2, Bounds DEF Position
    <3>2. d.current \in DOMAIN im
      BY <3>1 DEF DiskSound, ChunksSound
    <3>3. StartOf(im[d.current], h) /\ Len(im[d.current]) \in Nat /\ p = Len(im[d.current]) - 1
      BY <1>1, <3>1, <3>2, Numbers DEF Position
    <3>4. i + 1 \in 1 .. Len(im[d.current])
      BY <2>1, <2>2, <3>3
    <3> QED
      BY <2>2, <3>3, <3>4 DEF StartOf
  <2>3. CASE ~(i <= p)
    <3>1. i \in DOMAIN d.log
      BY <1>3, <1>4, <2>3
    <3> QED
      BY <1>3, <2>1, <2>3, <3>1
  <2> QED
    BY <2>2, <2>3
<1>9. DOMAIN HistoryAt(d, im) = 0 .. n - 1
  BY <1>7
<1>10. \A i \in 0 .. n - 1 : HistoryAt(d, im)[i] = h[i + 1]
  BY <1>7, <1>8
<1> QED
  BY <1>1, <1>9, <1>10

\* A sound group opens, and its span and its chunks are the stored ones.
LEMMA SoundOpens ==
    ASSUME NEW h, NEW e, NEW r, Sound(h, e, r)
    PROVE  JournalOpens
<1>1. DiskSound(disk, images, h, e, r) /\ disk \in Disks /\ phase \in Phases
  BY Facts DEF OpenSound
<1>2. /\ disk.log \in Partial /\ disk.rows \in Partial /\ disk.purged \in Int /\ e \in Int
      /\ disk.purged <= e /\ DOMAIN disk.log = (disk.purged + 1) .. e
      /\ images \in Seq(Seq(Entry))
  BY <1>1, Numbers
<1>3. TypeOK
  <2>1. DOMAIN disk.log \subseteq 0 .. MaxIndex /\ Range(disk.log) \subseteq Entry
    <3>1. disk.log \in [DOMAIN disk.log -> Entry] /\ DOMAIN disk.log \subseteq 0 .. MaxIndex
      BY <1>2, PartialOut
    <3> QED
      BY <3>1 DEF Range
  <2>2. DOMAIN disk.rows \subseteq 0 .. MaxIndex /\ Range(disk.rows) \subseteq Entry
    <3>1. disk.rows \in [DOMAIN disk.rows -> Entry] /\ DOMAIN disk.rows \subseteq 0 .. MaxIndex
      BY <1>2, PartialOut
    <3> QED
      BY <3>1 DEF Range
  <2>3. /\ disk.committed \in Index /\ disk.purged \in Index
        /\ disk.applied \in [index : Index, id : Entry \cup {None}]
        /\ {disk.current, disk.pending, disk.obsolete, disk.coverage} \subseteq Image \cup {None}
        /\ disk.chunks \subseteq Image
    BY <1>1 DEF Disks, Marks
  <2>4. /\ retained.first \in 0 .. MaxIndex + 1 /\ retained.last \in Index /\ served \in Seq(Entry)
        /\ next \in 0 .. MaxIndex + 1 /\ covered \in Index /\ failed \in BOOLEAN /\ closed \in BOOLEAN
        /\ faults \in 0 .. MaxFaults
    BY Facts DEF MemorySound
  <2>5. worker.pc \in WorkPcs /\ client.acked \subseteq Entry /\ client.refused \subseteq Entry
    BY Facts DEF ClientSound
  <2>6. snap.pc \in SnapPcs /\ purge.on \in BOOLEAN
    BY Facts DEF SnapSound, PurgeSound
  <2> QED
    BY <1>1, <1>2, <2>1, <2>2, <2>3, <2>4, <2>5, <2>6 DEF TypeOK, WorkPcs, SnapPcs, Phases
<1>4. OpensWhatItLeft
  BY <1>1 DEF OpensWhatItLeft, Phases
<1>5. SpanMirrorsJournal
  <2>1. ASSUME phase # "down", ~failed, worker.pc # "recorded" PROVE retained = retained_span(disk.log)
    <3>1. PICK x \in Index : SpanAt(e, x)
      BY <2>1 DEF Sound, SpanSound
    <3>2. retained = Span(disk.purged, e)
      BY <2>1, <3>1 DEF SpanAt
    <3> QED
      BY <1>2, <3>2, SpanIs
  <2>2. ASSUME worker.pc \in {"append", "joined"} PROVE check_append
    <3>1. /\ ServeSound(h, e, r) /\ disk.committed = Len(h) - 1 /\ Len(h) \in Nat /\ next \in Nat
      BY <2>2, Serving
    <3>2. Len(h) = next /\ (retained # NoSpan => retained.last + 1 = next)
      BY <2>2, <3>1 DEF ServeSound
    <3> QED
      BY <3>1, <3>2 DEF check_append
  <2> QED
    BY <2>1, <2>2 DEF SpanMirrorsJournal
<1>6. ImageChunksAccounted
  BY <1>1 DEF DiskSound, ChunksSound, ImageChunksAccounted
<1> QED
  BY <1>3, <1>4, <1>5, <1>6 DEF JournalOpens

\* A sound group serves what was committed.
LEMMA SoundServes ==
    ASSUME NEW h, NEW e, NEW r, Sound(h, e, r)
    PROVE  ServesCommitted
<1>1. DiskSound(disk, images, h, e, r) /\ OpenSound(h, e, r) /\ ClientSound(h) /\ MemorySound
  BY Facts
<1>2. h \in Seq(Entry) /\ Len(h) \in Nat /\ served \in Seq(Entry) /\ Len(served) \in Nat
  BY <1>1, Numbers DEF MemorySound
<1>3. StartOf(served, h)
  <2>1. CASE phase = "serving"
    BY <2>1, Serving
  <2>2. CASE phase \in {"down", "cleaning", "first", "first_apply"}
    <3>1. served = <<>>
      BY <1>1, <2>2 DEF OpenSound
    <3> QED
      BY <1>2, <3>1 DEF StartOf
  <2>3. CASE phase \in {"repair", "purging", "commit", "replay"}
    BY <1>1, <2>3 DEF OpenSound
  <2> QED
    BY <1>1, <2>1, <2>2, <2>3 DEF OpenSound, Phases
<1>4. ServesAcknowledged
  <2> SUFFICES ASSUME phase = "serving"
               PROVE  /\ client.acked \subseteq Range(served)
                      /\ \A i, j \in 1 .. Len(served) : served[i] = served[j] => i = j
                      /\ \A i \in 1 .. Len(served) : i - 1 \in DOMAIN History /\ History[i - 1] = served[i]
    BY DEF ServesAcknowledged
  <2>1. client.acked \subseteq Range(served)
    <3>1. ServeSound(h, e, r)
      BY Serving
    <3> QED
      BY <3>1 DEF ServeSound
  <2>2. \A i, j \in 1 .. Len(served) : served[i] = served[j] => i = j
    <3>1. \A i, j \in 1 .. Len(h) : h[i] = h[j] => i = j
      BY <1>1, Numbers
    <3> QED
      BY <1>2, <1>3, <3>1 DEF StartOf
  <2>3. \A i \in 1 .. Len(served) : i - 1 \in DOMAIN History /\ History[i - 1] = served[i]
    <3> SUFFICES ASSUME NEW i \in 1 .. Len(served)
                 PROVE  i - 1 \in DOMAIN History /\ History[i - 1] = served[i]
      OBVIOUS
    <3>1. History = HistoryAt(disk, images)
      BY DEF History, HistoryAt, Reach, ImagePosition, Position
    <3>2. PICK k : k = i - 1
      OBVIOUS
    <3>3. k \in 0 .. Len(h) - 1 /\ k + 1 = i /\ i \in 1 .. Len(h)
      BY <1>2, <1>3, <3>2 DEF StartOf
    <3>4. k \in DOMAIN History /\ History[k] = h[k + 1]
      BY <1>1, <3>1, <3>3, HistoryIs
    <3>5. served[i] = h[i]
      BY <1>3 DEF StartOf
    <3> QED
      BY <3>2, <3>3, <3>4, <3>5
  <2> QED
    BY <2>1, <2>2, <2>3
<1>5. RefusedNeverAppears
  <2>1. /\ \A i \in 1 .. Len(h) : h[i] \notin client.refused
        /\ \A x \in client.refused : x > Membership
        /\ client.refused \subseteq Entry
    BY <1>1 DEF ClientSound
  <2>2. \A s \in Seq(Entry) : StartOf(s, h) => client.refused \cap Range(s) = {}
    <3> SUFFICES ASSUME NEW s \in Seq(Entry), StartOf(s, h), NEW x \in client.refused, x \in Range(s)
                 PROVE  FALSE
      OBVIOUS
    <3>1. Len(s) \in Nat /\ DOMAIN s = 1 .. Len(s)
      OBVIOUS
    <3>2. PICK i \in 1 .. Len(s) : x = s[i]
      BY <3>1 DEF Range
    <3>3. i \in 1 .. Len(h) /\ s[i] = h[i]
      BY <1>2, <3>1, <3>2 DEF StartOf
    <3> QED
      BY <2>1, <3>2, <3>3
  <2>3. client.refused \cap Range(disk.log) = {}
    <3> SUFFICES ASSUME NEW x \in client.refused, x \in Range(disk.log) PROVE FALSE
      OBVIOUS
    <3>1. PICK i \in DOMAIN disk.log : x = disk.log[i]
      BY DEF Range
    <3>2. /\ DOMAIN disk.log = (disk.purged + 1) .. e /\ disk.purged \in Int /\ disk.purged >= -1
          /\ e \in Int /\ (i < Len(h) => disk.log[i] = h[i + 1]) /\ (i >= Len(h) => disk.log[i] <= Legacy)
      BY <1>1, <3>1, Numbers
    <3>3. i \in Int /\ i >= 0
      BY <3>1, <3>2
    <3>4. CASE i < Len(h)
      <4>1. i + 1 \in 1 .. Len(h)
        BY <1>2, <3>3, <3>4
      <4> QED
        BY <2>1, <3>1, <3>2, <3>4, <4>1
    <3>5. CASE ~(i < Len(h))
      <4>1. x <= Legacy /\ x > Membership /\ x \in Entry
        BY <1>2, <2>1, <3>1, <3>2, <3>3, <3>5
      <4> QED
        BY <4>1, Bounds
    <3> QED
      BY <3>4, <3>5
  <2>4. client.refused \cap Range(disk.rows) = {}
    <3> SUFFICES ASSUME NEW x \in client.refused, x \in Range(disk.rows) PROVE FALSE
      OBVIOUS
    <3>1. PICK i \in DOMAIN disk.rows : x = disk.rows[i]
      BY DEF Range
    <3>2. /\ DOMAIN disk.rows = 0 .. r /\ r \in Int /\ r < Len(h) /\ disk.rows[i] = h[i + 1]
      <4>1. /\ DOMAIN disk.rows = 0 .. r /\ r \in Int /\ r <= disk.applied.index
            /\ disk.applied.index \in Int /\ disk.applied.index < Len(h)
            /\ \A k \in 0 .. r : disk.rows[k] = h[k + 1]
        BY <1>1, Numbers
      <4> QED
        BY <1>2, <3>1, <4>1
    <3>3. i + 1 \in 1 .. Len(h)
      BY <1>2, <3>1, <3>2
    <3> QED
      BY <2>1, <3>1, <3>2, <3>3
  <2>5. client.refused \cap Range(served) = {}
    BY <1>2, <1>3, <2>2
  <2>6. \A k \in DOMAIN images : client.refused \cap Range(images[k]) = {}
    <3>1. /\ DOMAIN images = 1 .. Len(images)
          /\ \A k \in 1 .. Len(images) : StartOf(images[k], h) /\ images[k] \in Seq(Entry)
      BY <1>1, Numbers
    <3> QED
      BY <2>2, <3>1
  <2> QED
    BY <2>3, <2>4, <2>5, <2>6 DEF RefusedNeverAppears
<1>6. PositionAndEffectsTogether
  <2>1. /\ DOMAIN disk.rows = 0 .. r /\ r \in Int /\ r >= -1 /\ r <= disk.applied.index
        /\ disk.applied.index \in Int
        /\ (disk.applied.index >= 0 => disk.applied.id = h[disk.applied.index + 1])
        /\ \A k \in 0 .. r : disk.rows[k] = h[k + 1]
    BY <1>1, Numbers
  <2>2. Cardinality(0 .. r) = r + 1
    <3>1. CASE r < 0
      <4>1. 0 .. r = {} /\ r = -1
        BY <2>1, <3>1
      <4> QED
        BY <4>1, FS_EmptySet
    <3>2. CASE r >= 0
      BY <2>1, <3>2, FS_Interval
    <3> QED
      BY <2>1, <3>1, <3>2
  <2>3. DOMAIN disk.rows = 0 .. Cardinality(DOMAIN disk.rows) - 1
    BY <2>1, <2>2
  <2>4. DOMAIN disk.rows \subseteq 0 .. disk.applied.index
    BY <2>1
  <2>5. phase = "serving" => DOMAIN disk.rows = 0 .. disk.applied.index
    BY <2>1, Serving
  <2>6. disk.applied.index \in DOMAIN disk.rows => disk.rows[disk.applied.index] = disk.applied.id
    BY <2>1
  <2> QED
    BY <2>3, <2>4, <2>5, <2>6 DEF PositionAndEffectsTogether
<1> QED
  BY <1>4, <1>5, <1>6 DEF ServesCommitted

\* A step from a sound state only adds to the history.
LEMMA HistoryGrows ==
    ASSUME JournalInv, [Next]_vars
    PROVE  /\ JournalInv'
           /\ \A i \in DOMAIN History : i \in DOMAIN History' /\ History'[i] = History[i]
           /\ disk'.purged >= disk.purged
<1>1. PICK h \in Seq(Entry), e \in Index, r \in Index : Sound(h, e, r)
  BY DEF JournalInv
<1>2. Keeps(h)
  BY <1>1, JournalStep
<1>3. PICK g \in Seq(Entry), f \in Index, s \in Index :
         Sound(g, f, s)' /\ StartOf(h, g) /\ disk.purged <= disk'.purged
  BY <1>2 DEF Keeps
<1>4. JournalInv'
  BY <1>3 DEF JournalInv
<1>5. DiskSound(disk, images, h, e, r) /\ DiskSound(disk', images', g, f, s)
  BY <1>1, <1>3 DEF Sound
<1>6. disk.purged \in Int /\ disk'.purged \in Int
  BY <1>5, Numbers
<1>7. /\ DOMAIN HistoryAt(disk, images) = 0 .. Len(h) - 1
      /\ \A i \in 0 .. Len(h) - 1 : HistoryAt(disk, images)[i] = h[i + 1]
  BY <1>5, HistoryIs
<1>8. /\ DOMAIN HistoryAt(disk', images') = 0 .. Len(g) - 1
      /\ \A i \in 0 .. Len(g) - 1 : HistoryAt(disk', images')[i] = g[i + 1]
  BY <1>5, HistoryIs
<1>9. History = HistoryAt(disk, images)
  BY DEF History, HistoryAt, Reach, ImagePosition, Position
<1>10. History' = HistoryAt(disk', images')
  BY DEF History, HistoryAt, Reach, ImagePosition, Position
<1>11. Len(h) \in Nat /\ Len(g) \in Nat /\ Len(h) <= Len(g) /\ \A i \in 1 .. Len(h) : h[i] = g[i]
  BY <1>3 DEF StartOf
<1>12. \A i \in 0 .. Len(h) - 1 : i \in 0 .. Len(g) - 1 /\ h[i + 1] = g[i + 1]
  <2> SUFFICES ASSUME NEW i \in 0 .. Len(h) - 1
               PROVE  i \in 0 .. Len(g) - 1 /\ h[i + 1] = g[i + 1]
    OBVIOUS
  <2>1. i + 1 \in 1 .. Len(h) /\ i \in 0 .. Len(g) - 1
    BY <1>11
  <2> QED
    BY <1>11, <2>1
<1>13. ASSUME NEW i \in DOMAIN History PROVE i \in DOMAIN History' /\ History'[i] = History[i]
  <2>1. i \in 0 .. Len(h) - 1
    BY <1>7, <1>9
  <2> QED
    BY <1>7, <1>8, <1>9, <1>10, <1>12, <2>1
<1> QED
  BY <1>3, <1>4, <1>6, <1>13

----------------------------------------------------------------------------
(* The theorems *)

\* In every state of LocalGroup, LogStore and StateMachine, what is stored, what is in
\* memory and what clients were told agree with one committed history.
THEOREM JournalAgrees == Spec => []JournalInv
<1>1. Init => JournalInv
  BY JournalInit
<1>2. JournalInv /\ [Next]_vars => JournalInv'
  BY HistoryGrows
<1> QED
  BY <1>1, <1>2, PTL DEF Spec

\* LogStore::open, open_inner and LocalGroup::open pass their checks on whatever a crash,
\* a refusal or a storage error left, the span in memory is the stored one, and no
\* image loses its chunks.
THEOREM JournalOpensAlways == Spec => []JournalOpens
<1>1. JournalInv => JournalOpens
  BY SoundOpens DEF JournalInv
<1> QED
  BY <1>1, JournalAgrees, PTL

\* A serving group holds every acknowledged entry once and in the order of the history,
\* nothing of a refused attempt (LocalAppendCapacityDenied) is stored or served, and no
\* applied position is durable without its rows.
THEOREM ServesCommittedAlways == Spec => []ServesCommitted
<1>1. JournalInv => ServesCommitted
  BY SoundServes DEF JournalInv
<1> QED
  BY <1>1, JournalAgrees, PTL

\* No append, purge, publication, truncation, replay or repair rewrites or loses a
\* committed entry, and the purge cursor never goes back.
THEOREM HistoryOnlyGrowsAlways == Spec => HistoryOnlyGrows
<1>1. JournalInv /\ [Next]_vars =>
        [/\ \A i \in DOMAIN History : i \in DOMAIN History' /\ History'[i] = History[i]
         /\ disk'.purged >= disk.purged]_vars
  BY HistoryGrows
<1> QED
  BY <1>1, JournalAgrees, PTL DEF Spec, HistoryOnlyGrows
=============================================================================
