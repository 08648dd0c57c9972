--------------------------- MODULE RootSlotsProofs ---------------------------
(***************************************************************************)
(* The two root slots are one durable register and whatever root a power   *)
(* loss leaves can be used: for any number of publications, files, failed  *)
(* calls, power losses and damaged slots.                                  *)
(***************************************************************************)
EXTENDS RootSlots, TLAPS

first == for_generation(next.generation)
second == other(first)

\* The intact images a read now or a reopen may return.
Written == {v \in {slots[s] : s \in Slots} \cup {stable[s] : s \in Slots} : IsValid(v)}

\* A root whose files are there, which knows every other file, and which records
\* every retired file that is not gone.
Sound(v) ==
    /\ v \in Superblock
    /\ v.next_id \in {v.last_id + 1, v.last_id + 2}
    /\ v.next_id = v.last_id + 2 => v.generation < MaxGeneration
    /\ v.refs \cap v.garbage = {}
    /\ \A f \in v.garbage \cup retired : f < v.last_id
    /\ v.refs \subseteq names \cap durable
    /\ v.last_id # 0 => v.last_id \in names \cap durable
    /\ \A f \in names \cup durable : f < v.next_id
    /\ retired \cap (names \cup durable) \subseteq v.garbage

\* Nobody was told of a newer one.
Current(v) == v = served \/ is_successor(served, v)

\* Every intact image is one of two: the root that was told and one successor.
ImagesCurrent ==
    /\ \A v \in Written : v.generation # 0 /\ Sound(v) /\ Current(v)
    /\ \A v, w \in Written : v = w \/ v = served \/ w = served

\* Slot A is written after the first root is ordered in slot B: as long as it never
\* was, there is no file and nobody was told of any root.
UnbornIsEmpty ==
    /\ slots["A"] = Unwritten => stable["A"] = Unwritten
    /\ stable["A"] = Unwritten =>
         names = {} /\ durable = {} /\ retired = {} /\ served = genesis

\* Unless the only intact copy was damaged, a reopen finds a root, or none in a
\* group that never had one.
Survives(x) ==
    LET sel == select_root_images(x)
    IN sel.kind = "Selected" \/ (sel.kind = "Empty" /\ served = genesis)
SomeRootSurvives == ~exposed => \A x \in CrashOutcomes : Survives(x)

MediaInv == ImagesCurrent /\ UnbornIsEmpty /\ SomeRootSurvives

\* The owner's root, from its selection on.
Publishing == {"restore", "restore_sync", "first", "order", "second", "sync"}
Told == {"serving", "takeover", "create", "publish", "unlink"} \cup Publishing
Holding == {"repair", "repair_sync", "opened"} \cup Told
OwnerSound ==
    /\ phase \in Holding => Sound(root) /\ Current(root)
    /\ phase \in Told => served = root
    /\ phase \in {"publish"} \cup Publishing => Sound(next)
    /\ phase \in Publishing => is_successor(root, next)
    /\ phase \in {"restore", "restore_sync"} => root.generation # 0
    /\ phase \in {"create", "takeover"} => pending(root) # 0
    /\ phase \in {"serving", "unlink"} => pending(root) = 0
    /\ phase = "unlink" => file \in root.garbage /\ root.generation < MaxGeneration

\* What the slots hold while the owner is at work.
Settled == {"repair", "opened", "serving", "takeover", "create", "publish", "restore", "first",
            "unlink"}
Mirrored == {"opened", "serving", "takeover", "create", "unlink", "restore", "restore_sync"}
SlotsFollow ==
    /\ phase \in Settled => slots = stable
    /\ phase \in Mirrored => stable["A"] # Unwritten
    /\ phase \in {"sync", "repair_sync"} => slots["A"] # Unwritten
    /\ phase \in Told \cup {"opened"} => \A s \in Slots : IsValid(stable[s]) => stable[s] = root
    /\ phase \in {"repair_sync", "restore_sync"} => \A s \in Slots : IsValid(slots[s]) => slots[s] = root
    /\ phase \in {"restore", "restore_sync"} => ~IsValid(stable[second])
    /\ phase = "restore_sync" => slots[second] = root
    /\ phase \in {"order", "second", "sync"} => slots[first] = next
    /\ phase \in {"order", "second"} => slots[second] = stable[second]
    /\ phase = "sync" => slots[second] = next

\* Unless it was damaged, a publication has a copy to fall back on.
FallBack ==
    \/ slots[second] = root /\ IsValid(root) /\ root.generation # 0
    \/ slots["A"] = Unwritten /\ first = "B" /\ root = genesis
CopyKept ==
    ~exposed =>
      /\ phase \in {"first", "order", "second"} => FallBack
      /\ phase = "second" => first \in ordered
      /\ phase \in {"restore", "restore_sync"} =>
           /\ slots[first] = root /\ stable[first] = root /\ IsValid(root)
           /\ root.generation # 0

MediaTypes ==
    /\ slots \in [Slots -> Superblock \cup {Unwritten, Invalid}]
    /\ stable \in [Slots -> Superblock \cup {Unwritten, Invalid}]
    /\ ordered \subseteq PendingSlots

RootInv == TypeOK /\ MediaInv /\ OwnerSound /\ SlotsFollow /\ CopyKept

----------------------------------------------------------------------------
(* Images, slots and selections *)

\* A superblock is an intact image; the two other images are not.
LEMMA ImageView ==
    /\ \A r \in Superblock : IsValid(r)
    /\ ~IsValid(Unwritten) /\ ~IsValid(Invalid) /\ Unwritten # Invalid
    /\ genesis \in Superblock
<1>1. \A r \in Superblock : r # Unwritten /\ r # Invalid
  BY DEF Superblock, Unwritten, Invalid
<1>2. Unwritten # Invalid
  BY DEF Unwritten, Invalid
<1>3. genesis \in Superblock
  BY RootSlotsAssumption DEF genesis, Superblock
<1> QED
  BY <1>1, <1>2, <1>3 DEF IsValid

\* There are two slots, and the first publication goes to slot B.
LEMMA SlotView ==
    /\ "A" \in Slots /\ "B" \in Slots /\ other("A") = "B" /\ other("B") = "A"
    /\ \A s \in Slots : /\ other(s) \in Slots /\ other(s) # s /\ other(other(s)) = s
                        /\ s = "A" \/ s = "B"
                        /\ \A t \in Slots : t = s \/ t = other(s)
    /\ \A g \in Nat : for_generation(g) \in Slots
    /\ for_generation(1) = "B"
BY DEF Slots, other, for_generation

\* What a selection says about the images it was made from.
LEMMA SelectView ==
    ASSUME NEW x, NEW sel, sel = select_root_images(x)
    PROVE  /\ sel.kind \in {"Selected", "Empty", "Corrupt"}
           /\ sel.kind = "Selected" =>
                /\ sel.slot \in Slots /\ IsValid(sel.superblock) /\ x[sel.slot] = sel.superblock
                /\ sel.mirrored => x["A"] = sel.superblock /\ x["B"] = sel.superblock
           /\ sel.kind = "Empty" =>
                x["A"] = Unwritten /\ ~IsValid(x["B"]) /\ sel.superblock = genesis
<1> DEFINE a == x["A"]
           b == x["B"]
<1>1. Corrupt.kind = "Corrupt" /\ NoRoot.kind = "Empty" /\ NoRoot.superblock = genesis
  BY DEF Corrupt, NoRoot
<1>2. \/ sel = Corrupt
      \/ sel = NoRoot /\ a = Unwritten /\ ~IsValid(b)
      \/ sel = Selected(a, "A", TRUE) /\ IsValid(a) /\ a = b
      \/ sel = Selected(a, "A", FALSE) /\ IsValid(a)
      \/ sel = Selected(b, "B", FALSE) /\ IsValid(b)
  <2>1. CASE IsValid(a) /\ IsValid(b)
    <3>1. sel = select_valid(a, b)
      BY <2>1 DEF select_root_images
    <3>2. \/ sel = Corrupt \/ (sel = Selected(a, "A", TRUE) /\ a = b)
          \/ sel = Selected(a, "A", FALSE) \/ sel = Selected(b, "B", FALSE)
      BY <3>1 DEF select_valid
    <3> QED
      BY <2>1, <3>2
  <2>2. CASE ~(IsValid(a) /\ IsValid(b))
    BY <2>2 DEF select_root_images
  <2> QED
    BY <2>1, <2>2
<1>3. "A" \in Slots /\ "B" \in Slots
  BY DEF Slots
<1>4. CASE sel = Corrupt
  BY <1>1, <1>4
<1>5. CASE sel = NoRoot /\ a = Unwritten /\ ~IsValid(b)
  BY <1>1, <1>5
<1>6. CASE sel = Selected(a, "A", TRUE) /\ IsValid(a) /\ a = b
  <2>1. sel.kind = "Selected" /\ sel.superblock = a /\ sel.slot = "A" /\ sel.mirrored = TRUE
    BY <1>6 DEF Selected
  <2> QED
    BY <1>3, <1>6, <2>1
<1>7. CASE sel = Selected(a, "A", FALSE) /\ IsValid(a)
  <2>1. sel.kind = "Selected" /\ sel.superblock = a /\ sel.slot = "A" /\ sel.mirrored = FALSE
    BY <1>7 DEF Selected
  <2> QED
    BY <1>3, <1>7, <2>1
<1>8. CASE sel = Selected(b, "B", FALSE) /\ IsValid(b)
  <2>1. sel.kind = "Selected" /\ sel.superblock = b /\ sel.slot = "B" /\ sel.mirrored = FALSE
    BY <1>8 DEF Selected
  <2> QED
    BY <1>3, <1>8, <2>1
<1> QED
  BY <1>2, <1>4, <1>5, <1>6, <1>7, <1>8

\* A root is found when the other slot holds the same one or is torn,
LEMMA SelectCopy ==
    ASSUME NEW x, NEW s \in Slots, IsValid(x[s]), x[other(s)] \in {x[s], Invalid}
    PROVE  /\ select_root_images(x).kind = "Selected"
           /\ select_root_images(x).superblock = x[s]
<1>1. CASE x[other(s)] = Invalid
  <2>1. s = "A" \/ s = "B"
    BY DEF Slots
  <2>2. CASE s = "A"
    BY <1>1, <2>2, ImageView DEF select_root_images, other, Selected
  <2>3. CASE s = "B"
    BY <1>1, <2>3, ImageView DEF select_root_images, other, Selected
  <2> QED
    BY <2>1, <2>2, <2>3
<1>2. CASE x[other(s)] = x[s]
  <2>1. x["A"] = x[s] /\ x["B"] = x[s]
    BY <1>2 DEF Slots, other
  <2>2. select_root_images(x) = Selected(x["A"], "A", TRUE)
    BY <2>1 DEF select_root_images, select_valid
  <2> QED
    BY <2>1, <2>2 DEF Selected
<1> QED
  BY <1>1, <1>2

\* when it holds the predecessor and the newer one is in its own slot,
LEMMA SelectNext ==
    ASSUME NEW x, NEW o \in Superblock, NEW n \in Superblock, is_successor(o, n),
           x[for_generation(n.generation)] = n, x[other(for_generation(n.generation))] = o
    PROVE  /\ select_root_images(x).kind = "Selected"
           /\ select_root_images(x).superblock = n
<1>1. /\ n.generation \in Nat /\ o.generation \in Nat /\ n.generation = o.generation + 1
      /\ IsValid(o) /\ IsValid(n)
  BY ImageView DEF Superblock, is_successor
<1> DEFINE s == for_generation(n.generation)
<1>2. s = "A" \/ s = "B"
  BY DEF for_generation
<1>3. CASE s = "A"
  <2>1. x["A"] = n /\ x["B"] = o
    BY <1>3 DEF other
  <2>2. select_root_images(x) = select_valid(n, o)
    BY <1>1, <2>1 DEF select_root_images
  <2>3. n.generation # o.generation /\ (n.generation > o.generation) /\ ~(o.generation > n.generation)
    BY <1>1
  <2>4. select_valid(n, o) = Selected(n, "A", FALSE)
    BY <1>3, <2>3 DEF select_valid
  <2> QED
    BY <2>2, <2>4 DEF Selected
<1>4. CASE s = "B"
  <2>1. x["B"] = n /\ x["A"] = o
    BY <1>4 DEF other
  <2>2. select_root_images(x) = select_valid(o, n)
    BY <1>1, <2>1 DEF select_root_images
  <2>3. o.generation # n.generation /\ (n.generation > o.generation) /\ ~(o.generation > n.generation)
    BY <1>1
  <2>4. select_valid(o, n) = Selected(n, "B", FALSE)
    BY <1>4, <2>3 DEF select_valid
  <2> QED
    BY <2>2, <2>4 DEF Selected
<1> QED
  BY <1>2, <1>3, <1>4

\* and the very first one when slot A was never written; before it there is none.
LEMMA SelectUnborn ==
    ASSUME NEW x, x["A"] = Unwritten
    PROVE  /\ IsValid(x["B"]) /\ x["B"].generation = 1 =>
                /\ select_root_images(x).kind = "Selected"
                /\ select_root_images(x).superblock = x["B"]
           /\ ~IsValid(x["B"]) => /\ select_root_images(x).kind = "Empty"
                                  /\ select_root_images(x).superblock = genesis
<1>1. ~IsValid(x["A"]) /\ x["A"] # Invalid
  BY ImageView
<1>2. CASE IsValid(x["B"]) /\ x["B"].generation = 1
  BY <1>1, <1>2 DEF select_root_images, Selected
<1>3. CASE ~IsValid(x["B"])
  BY <1>1, <1>3 DEF select_root_images, NoRoot
<1> QED
  BY <1>2, <1>3

----------------------------------------------------------------------------
(* What a power loss leaves *)

Outcomes(sl, st, ord) ==
    {x \in [Slots -> {sl[s] : s \in Slots} \cup {st[s] : s \in Slots} \cup {Invalid}] :
        /\ \A s \in Slots : x[s] \in IF sl[s] # st[s] THEN {st[s], sl[s], Invalid} ELSE {st[s]}
        /\ (\E s \in Slots \ ord : sl[s] # st[s] /\ x[s] # st[s]) => \A s \in ord : x[s] = sl[s]}

\* The media after a power loss now, and after one more step.
LEMMA OutcomesAre ==
    /\ CrashOutcomes = Outcomes(slots, stable, ordered)
    /\ CrashOutcomes' = Outcomes(slots', stable', ordered')
BY DEF CrashOutcomes, Outcomes, PendingSlots

\* Nothing is lost of what was settled; a write that is not may be lost, kept or
\* torn, but none before one it was ordered after.
LEMMA OutcomesView ==
    ASSUME NEW sl, NEW st, NEW ord \in SUBSET Slots, sl = [s \in Slots |-> sl[s]],
           st = [s \in Slots |-> st[s]]
    PROVE  /\ sl \in Outcomes(sl, st, ord)
           /\ \A x \in Outcomes(sl, st, ord) :
                /\ x = [s \in Slots |-> x[s]]
                /\ \A s \in Slots : x[s] \in {st[s], sl[s], Invalid}
                /\ \A s \in Slots : sl[s] = st[s] => x[s] = st[s]
                /\ \A s \in Slots \ ord : x[s] # st[s] => \A t \in ord : x[t] = sl[t]
           /\ sl = st => Outcomes(sl, st, ord) = {sl}
<1>1. sl \in Outcomes(sl, st, ord)
  BY DEF Outcomes
<1>2. ASSUME NEW x \in Outcomes(sl, st, ord)
      PROVE  /\ x = [s \in Slots |-> x[s]]
             /\ \A s \in Slots : x[s] \in {st[s], sl[s], Invalid}
             /\ \A s \in Slots : sl[s] = st[s] => x[s] = st[s]
             /\ \A s \in Slots \ ord : x[s] # st[s] => \A t \in ord : x[t] = sl[t]
  BY <1>2 DEF Outcomes
<1>3. sl = st => Outcomes(sl, st, ord) = {sl}
  BY <1>1, <1>2
<1> QED
  BY <1>1, <1>2, <1>3

\* Neither is a settled image that a later write replaced, alone.
LEMMA StableOutcome ==
    ASSUME NEW sl, NEW st, NEW ord \in SUBSET Slots, st = [s \in Slots |-> st[s]]
    PROVE  st \in Outcomes(sl, st, ord)
BY DEF Outcomes

----------------------------------------------------------------------------
(* Steps of the media *)

\* The slots as functions, and the order in which a publication writes them.
LEMMA SlotsView ==
    ASSUME TypeOK
    PROVE  /\ slots = [s \in Slots |-> slots[s]] /\ stable = [s \in Slots |-> stable[s]]
           /\ \A s \in Slots : /\ slots[s] \in Superblock \cup {Unwritten, Invalid}
                                /\ stable[s] \in Superblock \cup {Unwritten, Invalid}
           /\ ordered \in SUBSET Slots
           /\ first \in Slots /\ second \in Slots /\ second = other(first)
           /\ first = other(second) /\ first # second
           /\ \A s \in Slots : s = first \/ s = second
           /\ root \in Superblock /\ next \in Superblock /\ served \in Superblock
<1>1. next.generation \in Nat
  BY RootSlotsAssumption DEF TypeOK, Superblock
<1>2. first \in Slots /\ second = other(first)
  BY <1>1, SlotView DEF first, second
<1> QED
  BY <1>2, SlotView DEF TypeOK, PendingSlots

\* The images a power loss can leave are intact ones of the slots, or none.
LEMMA LossView ==
    ASSUME RootInv
    PROVE  /\ slots \in CrashOutcomes /\ stable \in CrashOutcomes
           /\ \A x \in CrashOutcomes :
                /\ x = [s \in Slots |-> x[s]]
                /\ \A s \in Slots : x[s] \in {stable[s], slots[s], Invalid}
                /\ \A s \in Slots : slots[s] = stable[s] => x[s] = stable[s]
                /\ \A s \in Slots : IsValid(x[s]) => x[s] \in Written
           /\ slots = stable => CrashOutcomes = {slots}
<1>1. /\ slots = [s \in Slots |-> slots[s]] /\ stable = [s \in Slots |-> stable[s]]
      /\ ordered \in SUBSET Slots
  BY SlotsView DEF RootInv
<1>2. CrashOutcomes = Outcomes(slots, stable, ordered)
  BY OutcomesAre
<1>3. slots \in CrashOutcomes /\ stable \in CrashOutcomes
  BY <1>1, <1>2, OutcomesView, StableOutcome
<1>4. \A x \in CrashOutcomes :
        /\ x = [s \in Slots |-> x[s]]
        /\ \A s \in Slots : x[s] \in {stable[s], slots[s], Invalid}
        /\ \A s \in Slots : slots[s] = stable[s] => x[s] = stable[s]
  BY <1>1, <1>2, OutcomesView
<1>5. \A x \in CrashOutcomes : \A s \in Slots : IsValid(x[s]) => x[s] \in Written
  BY <1>4, ImageView DEF Written
<1>6. slots = stable => CrashOutcomes = {slots}
  BY <1>1, <1>2, OutcomesView
<1> QED
  BY <1>3, <1>4, <1>5, <1>6

\* The step leaves the files and what anybody was told alone.
Quiet == UNCHANGED <<names, durable, served, retired, exposed>>

\* A step that touches no slot.
LEMMA SameMedia ==
    ASSUME RootInv, UNCHANGED media, Quiet
    PROVE  MediaInv' /\ MediaTypes' /\ Written' = Written /\ CrashOutcomes' = CrashOutcomes
<1>1. Written' = Written
  BY DEF media, Written
<1>2. CrashOutcomes' = CrashOutcomes
  BY DEF media, CrashOutcomes, PendingSlots
<1>3. ImagesCurrent'
  BY <1>1 DEF Quiet, RootInv, MediaInv, ImagesCurrent, Sound, Current
<1>4. UnbornIsEmpty' /\ SomeRootSurvives'
  BY <1>2 DEF media, Quiet, RootInv, MediaInv, UnbornIsEmpty, SomeRootSurvives, Survives
<1>5. MediaTypes'
  BY DEF media, RootInv, TypeOK, MediaTypes, PendingSlots
<1> QED
  BY <1>1, <1>2, <1>3, <1>4, <1>5 DEF MediaInv

\* A synchronization settles what a read returns.
LEMMA SyncMedia ==
    ASSUME RootInv, SyncSlots, Quiet
    PROVE  /\ MediaInv' /\ MediaTypes' /\ Written' \subseteq Written
           /\ slots' = slots /\ stable' = slots /\ ordered' = {} /\ CrashOutcomes' = {slots}
           /\ \A v \in Written' : \E s \in Slots : v = slots[s]
<1>1. slots' = slots /\ stable' = slots /\ ordered' = {}
  BY DEF SyncSlots
<1>2. Written' \subseteq Written /\ \A v \in Written' : \E s \in Slots : v = slots[s]
  BY <1>1 DEF Written
<1>3. CrashOutcomes' = {slots}
  <2>1. slots = [s \in Slots |-> slots[s]]
    BY SlotsView DEF RootInv
  <2>2. CrashOutcomes' = Outcomes(slots, slots, {})
    BY <1>1, OutcomesAre
  <2> QED
    BY <2>1, <2>2, OutcomesView
<1>4. ImagesCurrent'
  BY <1>2 DEF Quiet, RootInv, MediaInv, ImagesCurrent, Sound, Current
<1>5. UnbornIsEmpty'
  BY <1>1 DEF Quiet, RootInv, MediaInv, UnbornIsEmpty
<1>6. SomeRootSurvives'
  <2>1. slots \in CrashOutcomes
    BY LossView
  <2> QED
    BY <1>3, <2>1 DEF Quiet, RootInv, MediaInv, SomeRootSurvives, Survives
<1>7. MediaTypes'
  BY <1>1 DEF RootInv, TypeOK, MediaTypes, PendingSlots
<1> QED
  BY <1>1, <1>2, <1>3, <1>4, <1>5, <1>6, <1>7 DEF MediaInv

\* A write that succeeded, failed or was torn.
Writes(t, r, i) ==
    /\ i \in {slots[t], r, Invalid}
    /\ slots' = [slots EXCEPT ![t] = i] /\ stable' = stable /\ ordered' = ordered \ {t}

\* It adds the written root to the images, if that belongs there.
LEMMA WriteMedia ==
    ASSUME RootInv, Quiet, NEW t \in Slots, NEW r \in Superblock, NEW i, Writes(t, r, i),
           r.generation # 0, Sound(r), Current(r),
           \A v \in Written : v = r \/ v = served \/ r = served,
           ~exposed => \A x \in CrashOutcomes' : Survives(x)
    PROVE  /\ MediaInv' /\ MediaTypes' /\ Written' \subseteq Written \cup {r}
           /\ slots'[t] = i /\ slots'[other(t)] = slots[other(t)]
<1>1. /\ slots = [s \in Slots |-> slots[s]]
      /\ \A s \in Slots : slots[s] \in Superblock \cup {Unwritten, Invalid}
      /\ other(t) \in Slots /\ other(t) # t
  BY SlotsView, SlotView DEF RootInv
<1>2. /\ slots'[t] = i /\ slots'[other(t)] = slots[other(t)] /\ stable' = stable
      /\ \A s \in Slots : slots'[s] = slots[s] \/ (s = t /\ slots'[s] \in {r, Invalid})
      /\ slots' \in [Slots -> Superblock \cup {Unwritten, Invalid}]
  BY <1>1 DEF Writes
<1>3. Written' \subseteq Written \cup {r}
  BY <1>2, ImageView DEF Written
<1>4. ImagesCurrent'
  <2>1. \A v \in Written \cup {r} : v.generation # 0 /\ Sound(v) /\ Current(v)
    BY DEF RootInv, MediaInv, ImagesCurrent
  <2>2. \A v, w \in Written \cup {r} : v = w \/ v = served \/ w = served
    BY DEF RootInv, MediaInv, ImagesCurrent
  <2> QED
    BY <1>3, <2>1, <2>2 DEF Quiet, ImagesCurrent, Sound, Current
<1>5. UnbornIsEmpty'
  <2>1. slots'["A"] = Unwritten => slots["A"] = Unwritten
    BY <1>2, ImageView, SlotView DEF IsValid
  <2> QED
    BY <1>2, <2>1 DEF Quiet, RootInv, MediaInv, UnbornIsEmpty
<1>6. SomeRootSurvives'
  BY DEF Quiet, SomeRootSurvives, Survives
<1>7. MediaTypes'
  BY <1>2 DEF Writes, RootInv, TypeOK, MediaTypes, PendingSlots
<1> QED
  BY <1>2, <1>3, <1>4, <1>5, <1>6, <1>7 DEF MediaInv

----------------------------------------------------------------------------
(* What the slots select at each phase *)

\* Without an owner there is nothing more to show.
LEMMA IdleKeeps ==
    ASSUME TypeOK', MediaInv', phase' \in {"closed", "fenced", "corrupt"}
    PROVE  RootInv'
<1>1. /\ phase' \notin Holding /\ phase' \notin Told /\ phase' \notin Publishing
      /\ phase' \notin Settled /\ phase' \notin Mirrored
      /\ phase' \notin {"publish", "create", "takeover", "serving", "unlink", "opened", "repair_sync"}
  BY DEF Holding, Told, Publishing, Settled, Mirrored
<1>2. OwnerSound'
  BY <1>1 DEF OwnerSound, Publishing
<1>3. SlotsFollow'
  BY <1>1 DEF SlotsFollow, Publishing
<1>4. CopyKept'
  BY <1>1 DEF CopyKept, Publishing
<1> QED
  BY <1>2, <1>3, <1>4 DEF RootInv

\* Generations of the root and its successor differ.
LEMMA NextView ==
    ASSUME RootInv, phase \in Publishing
    PROVE  /\ is_successor(root, next) /\ next # root /\ next.generation # 0
           /\ next.generation = root.generation + 1 /\ IsValid(root) /\ IsValid(next)
           /\ served = root /\ Sound(next) /\ Sound(root) /\ Current(next) /\ Current(root)
           /\ \A s \in Slots : stable[s] # next /\ (IsValid(stable[s]) => stable[s] = root)
<1>1. phase \in Told /\ phase \in Holding /\ phase \in {"publish"} \cup Publishing
  BY DEF Told, Holding
<1>2. /\ root \in Superblock /\ next \in Superblock
      /\ root.generation \in Nat /\ next.generation \in Nat
  BY DEF RootInv, TypeOK, Superblock
<1>3. /\ is_successor(root, next) /\ served = root /\ Sound(next) /\ Sound(root)
  BY <1>1 DEF RootInv, OwnerSound
<1>4. next # root /\ next.generation # 0 /\ next.generation = root.generation + 1
  BY <1>2, <1>3 DEF is_successor
<1>5. IsValid(root) /\ IsValid(next)
  BY <1>2, ImageView
<1>6. \A s \in Slots : IsValid(stable[s]) => stable[s] = root
  BY <1>1 DEF RootInv, SlotsFollow
<1> QED
  BY <1>3, <1>4, <1>5, <1>6 DEF Current

\* While a publication has written at most its first slot, or its second one too,
\* a reopen finds the predecessor or the successor.
LEMMA PairView ==
    ASSUME RootInv, ~exposed, phase \in {"first", "order", "second"},
           NEW x, x[second] = stable[second], x[first] \in {stable[first], next, Invalid}
    PROVE  /\ Survives(x)
           /\ x[first] = next => select_root_images(x).superblock = next
           /\ x[first] # next => select_root_images(x).superblock = root
<1>1. phase \in Publishing /\ FallBack /\ stable[second] = slots[second]
  BY DEF Publishing, RootInv, CopyKept, SlotsFollow, Settled
<1>2. /\ is_successor(root, next) /\ next # root /\ IsValid(root) /\ IsValid(next)
      /\ next.generation = root.generation + 1 /\ served = root
      /\ \A s \in Slots : IsValid(stable[s]) => stable[s] = root
  BY <1>1, NextView
<1>3. /\ first \in Slots /\ second \in Slots /\ second = other(first) /\ first = other(second)
      /\ root \in Superblock /\ next \in Superblock
      /\ stable[first] \in Superblock \cup {Unwritten, Invalid}
  BY SlotsView DEF RootInv
<1>4. CASE slots[second] = root /\ IsValid(root) /\ root.generation # 0
  <2>1. x[second] = root
    BY <1>1, <1>4
  <2>2. CASE x[first] = next
    <3>1. select_root_images(x).kind = "Selected" /\ select_root_images(x).superblock = next
      BY <1>2, <1>3, <2>1, <2>2, SelectNext DEF first, second
    <3> QED
      BY <2>2, <3>1 DEF Survives
  <2>3. CASE x[first] \in {root, Invalid}
    <3>1. select_root_images(x).kind = "Selected" /\ select_root_images(x).superblock = root
      <4>1. x[other(second)] \in {x[second], Invalid} /\ IsValid(x[second])
        BY <1>2, <1>3, <2>1, <2>3
      <4> QED
        BY <1>3, <2>1, <4>1, SelectCopy
    <3> QED
      BY <1>2, <2>3, <3>1, ImageView DEF Survives
  <2>4. stable[first] # Unwritten
    <3>1. SUFFICES ASSUME stable[first] = Unwritten PROVE FALSE
      OBVIOUS
    <3>2. Survives(stable)
      BY LossView DEF RootInv, MediaInv, SomeRootSurvives
    <3>3. CASE first = "A"
      BY <1>2, <1>4, <3>1, <3>3 DEF RootInv, MediaInv, UnbornIsEmpty, genesis
    <3>4. CASE first = "B"
      <4>1. stable["B"] = Unwritten /\ stable["A"] = root
        BY <1>1, <1>3, <1>4, <3>1, <3>4, SlotView
      <4>2. select_root_images(stable) = Corrupt
        BY <1>2, <4>1, ImageView DEF select_root_images, IsValid
      <4> QED
        BY <3>2, <4>2 DEF Survives, Corrupt, NoRoot
    <3> QED
      BY <1>3, <3>3, <3>4, SlotView
  <2>5. x[first] \in {next, root, Invalid}
    BY <1>2, <1>3, <2>4 DEF IsValid
  <2> QED
    BY <2>2, <2>3, <2>5
<1>5. CASE slots["A"] = Unwritten /\ first = "B" /\ root = genesis
  <2>1. second = "A" /\ x["A"] = Unwritten
    BY <1>1, <1>3, <1>5, SlotView
  <2>2. ~IsValid(stable[first])
    <3>1. IsValid(stable[first]) => stable[first] \in Written
      BY <1>3 DEF Written
    <3>2. IsValid(stable[first]) => stable[first].generation # 0
      BY <3>1 DEF RootInv, MediaInv, ImagesCurrent
    <3>3. IsValid(stable[first]) => stable[first] = genesis
      BY <1>2, <1>3, <1>5
    <3> QED
      BY <3>2, <3>3 DEF genesis
  <2>3. next.generation = 1
    BY <1>2, <1>5 DEF genesis
  <2>4. CASE x[first] = next
    <3>1. select_root_images(x).kind = "Selected" /\ select_root_images(x).superblock = next
      BY <1>2, <1>5, <2>1, <2>3, <2>4, SelectUnborn
    <3> QED
      BY <2>4, <3>1 DEF Survives
  <2>5. CASE ~IsValid(x[first])
    <3>1. select_root_images(x).kind = "Empty" /\ select_root_images(x).superblock = genesis
      BY <1>5, <2>1, <2>5, SelectUnborn
    <3> QED
      BY <1>2, <1>5, <2>5, <3>1 DEF Survives
  <2> QED
    BY <2>2, <2>4, <2>5, ImageView
<1> QED
  BY <1>1, <1>4, <1>5 DEF FallBack

\* A write over the other copy of the root loses nothing: a reopen finds what it
\* found before, or the root.
LEMMA CopyWrite ==
    ASSUME RootInv, slots = stable, NEW t \in Slots, NEW i, Writes(t, root, i),
           slots[other(t)] = root
    PROVE  \A x \in CrashOutcomes' :
             \/ x = slots
             \/ /\ select_root_images(x).kind = "Selected"
                /\ select_root_images(x).superblock = root
<1>1. /\ slots = [s \in Slots |-> slots[s]] /\ stable = [s \in Slots |-> stable[s]]
      /\ ordered \in SUBSET Slots /\ root \in Superblock /\ other(t) \in Slots /\ other(t) # t
      /\ \A s \in Slots : s = t \/ s = other(t)
  BY SlotsView, SlotView DEF RootInv
<1>2. /\ slots' = [s \in Slots |-> slots'[s]] /\ stable' = stable /\ ordered' \in SUBSET Slots
      /\ slots'[t] = i /\ slots'[other(t)] = slots[other(t)] /\ i \in {slots[t], root, Invalid}
  BY <1>1 DEF Writes
<1>3. SUFFICES ASSUME NEW x \in CrashOutcomes' PROVE \/ x = slots
             \/ /\ select_root_images(x).kind = "Selected"
                /\ select_root_images(x).superblock = root
  OBVIOUS
<1>4. CrashOutcomes' = Outcomes(slots', stable', ordered')
  BY OutcomesAre
<1>5. /\ x = [s \in Slots |-> x[s]]
      /\ \A s \in Slots : x[s] \in {stable'[s], slots'[s], Invalid}
      /\ \A s \in Slots : slots'[s] = stable'[s] => x[s] = stable'[s]
  BY <1>1, <1>2, <1>3, <1>4, OutcomesView
<1>6. x[other(t)] = root /\ x[other(t)] = slots[other(t)]
  BY <1>1, <1>2, <1>5
<1>7. x[t] \in {slots[t], root, Invalid}
  BY <1>2, <1>5
<1>8. CASE x[t] = slots[t]
  BY <1>1, <1>5, <1>6, <1>8
<1>9. CASE x[t] \in {root, Invalid}
  <2>1. IsValid(x[other(t)]) /\ x[other(other(t))] \in {x[other(t)], Invalid}
    BY <1>1, <1>6, <1>9, ImageView, SlotView
  <2> QED
    BY <1>1, <1>6, <2>1, SelectCopy
<1> QED
  BY <1>7, <1>8, <1>9

\* While the first slot is written and ordered, a reopen finds the predecessor, or
\* the successor once its image is there.
LEMMA FirstOutcomes ==
    ASSUME RootInv, phase \in {"first", "order"}, ~exposed,
           NEW i \in {slots[first], next, Invalid},
           slots' = [slots EXCEPT ![first] = i], stable' = stable, ordered' \in SUBSET Slots
    PROVE  \A x \in CrashOutcomes' :
             /\ Survives(x)
             /\ x[second] = stable[second] /\ x[first] \in {stable[first], next, Invalid}
<1>1. /\ slots = [s \in Slots |-> slots[s]] /\ stable = [s \in Slots |-> stable[s]]
      /\ first \in Slots /\ second \in Slots /\ first # second
  BY SlotsView DEF RootInv
<1>2. slots[second] = stable[second] /\ slots[first] \in {stable[first], next}
  BY DEF RootInv, SlotsFollow, Settled
<1>3. /\ slots' = [s \in Slots |-> slots'[s]] /\ stable' = [s \in Slots |-> stable'[s]]
      /\ slots'[second] = stable'[second] /\ slots'[first] \in {stable[first], next, Invalid}
      /\ CrashOutcomes' = Outcomes(slots', stable', ordered')
  BY <1>1, <1>2, OutcomesAre
<1>4. ASSUME NEW x \in CrashOutcomes'
      PROVE  x[second] = stable[second] /\ x[first] \in {stable[first], next, Invalid}
  <2>1. /\ \A s \in Slots : x[s] \in {stable'[s], slots'[s], Invalid}
        /\ \A s \in Slots : slots'[s] = stable'[s] => x[s] = stable'[s]
    BY <1>3, <1>4, OutcomesView
  <2> QED
    BY <1>1, <1>3, <2>1
<1>5. ASSUME NEW x \in CrashOutcomes' PROVE Survives(x)
  BY <1>4, <1>5, PairView
<1> QED
  BY <1>4, <1>5

\* While the second slot is written, after the first one was ordered, likewise.
LEMMA SecondOutcomes ==
    ASSUME RootInv, phase = "second", ~exposed, NEW i, Writes(second, next, i)
    PROVE  \A x \in CrashOutcomes' :
             /\ Survives(x)
             /\ select_root_images(x).superblock \in {root, next}
<1>1. /\ slots = [s \in Slots |-> slots[s]] /\ stable = [s \in Slots |-> stable[s]]
      /\ first \in Slots /\ second \in Slots /\ first # second /\ second = other(first)
      /\ next \in Superblock /\ ordered \in SUBSET Slots
  BY SlotsView DEF RootInv
<1>2. /\ slots[second] = stable[second] /\ slots[first] = next /\ first \in ordered
  BY DEF RootInv, SlotsFollow, CopyKept
<1>3. /\ slots' = [s \in Slots |-> slots'[s]] /\ stable' = [s \in Slots |-> stable'[s]]
      /\ stable' = stable /\ slots'[first] = next /\ slots'[second] \in {stable[second], next, Invalid}
      /\ ordered' \in SUBSET Slots /\ first \in ordered' /\ second \notin ordered'
      /\ CrashOutcomes' = Outcomes(slots', stable', ordered')
  BY <1>1, <1>2, OutcomesAre DEF Writes
<1>4. SUFFICES ASSUME NEW x \in CrashOutcomes'
               PROVE  Survives(x) /\ select_root_images(x).superblock \in {root, next}
  OBVIOUS
<1>5. /\ \A s \in Slots : x[s] \in {stable[s], slots'[s], Invalid}
      /\ x[second] # stable[second] => x[first] = next
  BY <1>1, <1>3, OutcomesView
<1>6. CASE x[second] = stable[second]
  <2>1. x[first] \in {stable[first], next, Invalid}
    BY <1>1, <1>3, <1>5
  <2> QED
    BY <1>6, <2>1, PairView
<1>7. CASE x[second] # stable[second]
  <2>1. x[first] = next /\ x[second] \in {next, Invalid}
    BY <1>1, <1>3, <1>5, <1>7
  <2>2. IsValid(next)
    BY <1>1, ImageView
  <2> QED
    BY <1>1, <2>1, <2>2, SelectCopy DEF Survives
<1> QED
  BY <1>6, <1>7

----------------------------------------------------------------------------
(* The invariant holds at first and is kept by every action *)

\* Counting failed calls.
LEMMA FaultView ==
    ASSUME TypeOK, Fault \/ NoFault
    PROVE  faults' \in 0 .. MaxFaults
BY RootSlotsAssumption DEF TypeOK, Fault, NoFault

\* An empty medium without an owner.
LEMMA InitKeeps == Init => RootInv
<1> SUFFICES ASSUME Init PROVE RootInv
  OBVIOUS
<1>1. /\ slots = [s \in Slots |-> Unwritten] /\ stable = slots /\ ordered = {}
      /\ names = {} /\ durable = {} /\ retired = {} /\ served = genesis /\ exposed = FALSE
      /\ phase = "closed" /\ root = genesis /\ next = genesis
  BY DEF Init
<1>2. TypeOK
  <2>1. /\ slots \in [Slots -> Superblock \cup {Unwritten, Invalid}]
        /\ stable \in [Slots -> Superblock \cup {Unwritten, Invalid}]
    BY <1>1
  <2>2. phase \in Phases
    BY <1>1 DEF Phases
  <2>3. file \in 0 .. MaxFile /\ faults \in 0 .. MaxFaults /\ damage \in 0 .. MaxDamage
    BY RootSlotsAssumption DEF Init
  <2> QED
    BY <1>1, <2>1, <2>2, <2>3, ImageView DEF TypeOK
<1>3. \A s \in Slots : slots[s] = Unwritten /\ stable[s] = Unwritten
  BY <1>1
<1>4. Written = {}
  BY <1>3, ImageView DEF Written
<1>5. ImagesCurrent /\ UnbornIsEmpty
  BY <1>1, <1>4 DEF ImagesCurrent, UnbornIsEmpty
<1>6. SomeRootSurvives
  <2>1. CrashOutcomes = Outcomes(slots, slots, {})
    BY <1>1, OutcomesAre
  <2>2. CrashOutcomes = {slots}
    BY <1>1, <2>1, OutcomesView
  <2>3. Survives(slots)
    BY <1>1, <1>3, SelectUnborn, SlotView, ImageView DEF Survives
  <2> QED
    BY <2>2, <2>3 DEF SomeRootSurvives
<1>7. OwnerSound /\ SlotsFollow /\ CopyKept
  BY <1>1 DEF OwnerSound, SlotsFollow, CopyKept, Holding, Told, Publishing, Settled, Mirrored
<1> QED
  BY <1>2, <1>5, <1>6, <1>7 DEF RootInv, MediaInv

\* create finds no root: nothing was ever told and there is no file.
LEMMA CreateKeeps ==
    ASSUME RootInv, Create
    PROVE  RootInv'
<1>1. SyncSlots /\ Quiet /\ root' = genesis /\ next' = successor(genesis) /\ phase' = "publish"
  BY DEF Create, Quiet
<1>2. /\ MediaInv' /\ MediaTypes' /\ slots' = slots /\ stable' = slots
  BY <1>1, SyncMedia
<1>3. slots["A"] = Unwritten /\ ~IsValid(slots["B"])
  BY SelectView DEF Create, read_selection
<1>4. /\ names = {} /\ durable = {} /\ retired = {} /\ served = genesis
      /\ names' = {} /\ durable' = {} /\ retired' = {} /\ served' = genesis
  BY <1>1, <1>3 DEF Quiet, RootInv, MediaInv, UnbornIsEmpty
<1>5. /\ next' = [genesis EXCEPT !.generation = 1]
      /\ next'.generation = 1 /\ next'.next_id = 1 /\ next'.last_id = 0
      /\ next'.refs = {} /\ next'.garbage = {}
  <2>1. next' = [genesis EXCEPT !.generation = genesis.generation + 1]
    BY <1>1 DEF successor
  <2>2. genesis.generation + 1 = 1
    BY DEF genesis
  <2> QED
    BY <2>1, <2>2 DEF genesis
<1>6. next' \in Superblock /\ genesis \in Superblock
  BY <1>5, RootSlotsAssumption, ImageView DEF Superblock
<1>7. TypeOK'
  BY <1>1, <1>2, <1>6, FaultView DEF RootInv, TypeOK, MediaTypes, Phases, Create
<1>8. Sound(root)' /\ Sound(next)'
  BY <1>1, <1>4, <1>5, <1>6, RootSlotsAssumption DEF Sound, genesis
<1>9. OwnerSound'
  BY <1>1, <1>4, <1>8 DEF OwnerSound, Current, Publishing, Told, Holding
<1>10. \A s \in Slots : ~IsValid(slots[s])
  BY <1>3, ImageView, SlotView
<1>11. SlotsFollow' /\ CopyKept'
  BY <1>1, <1>2, <1>10 DEF SlotsFollow, CopyKept, Publishing, Told, Settled, Mirrored
<1> QED
  BY <1>2, <1>7, <1>9, <1>11 DEF RootInv

\* A selected root is one of the intact images.
LEMMA OpenKeeps ==
    ASSUME RootInv, Open
    PROVE  RootInv'
<1>1. SyncSlots /\ Quiet /\ root' = read_selection.superblock /\ next' = root' /\ phase' \in {"opened", "repair"}
  BY DEF Open, Quiet
<1>2. /\ MediaInv' /\ MediaTypes' /\ slots' = slots /\ stable' = slots
  BY <1>1, SyncMedia
<1>3. /\ read_selection.slot \in Slots /\ slots[read_selection.slot] = root' /\ IsValid(root')
      /\ read_selection.mirrored => slots["A"] = root' /\ slots["B"] = root'
  BY <1>1, SelectView DEF Open, read_selection
<1>4. root' \in Written
  BY <1>3 DEF Written
<1>5. Sound(root') /\ Current(root') /\ root' \in Superblock
  BY <1>4 DEF RootInv, MediaInv, ImagesCurrent, Sound
<1>6. TypeOK'
  BY <1>1, <1>2, <1>5, FaultView DEF RootInv, TypeOK, MediaTypes, Phases, Open
<1>7. Sound(root)' /\ Current(root)'
  BY <1>1, <1>5 DEF Quiet, Sound, Current
<1>8. OwnerSound'
  BY <1>1, <1>7 DEF OwnerSound, Publishing, Told, Holding
<1>9. phase' = "opened" => read_selection.mirrored
  BY DEF Open
<1>10. phase' = "opened" => \A s \in Slots : slots[s] = root'
  BY <1>3, <1>9, SlotView
<1>11. SlotsFollow' /\ CopyKept'
  BY <1>1, <1>2, <1>3, <1>10, SlotView DEF SlotsFollow, CopyKept, Publishing, Told, Settled, Mirrored, IsValid
<1> QED
  BY <1>2, <1>6, <1>8, <1>11 DEF RootInv

\* A failed open leaves the slots as they are, or settled.
LEMMA OpenFailsKeeps ==
    ASSUME RootInv, OpenCorrupt \/ OpenSyncFails
    PROVE  RootInv'
<1>1. /\ SyncSlots \/ UNCHANGED media
      /\ Quiet /\ phase' \in {"corrupt", "fenced"} /\ (Fault \/ NoFault)
      /\ UNCHANGED <<root, next, file, damage>>
  BY DEF OpenCorrupt, OpenSyncFails, SyncSlotsFails, Quiet, Fence
<1>2. MediaInv' /\ MediaTypes'
  BY <1>1, SyncMedia, SameMedia
<1>3. TypeOK'
  BY <1>1, <1>2, FaultView DEF RootInv, TypeOK, MediaTypes, Phases, Quiet
<1> QED
  BY <1>1, <1>2, <1>3, IdleKeeps

\* A write is one of its outcomes.
LEMMA WritesAre ==
    ASSUME TypeOK, NEW t \in Slots, NEW r
    PROVE  /\ WriteSlot(t, r) => Writes(t, r, r)
           /\ WriteSlotFails(t, r) => \E i \in {slots[t], r, Invalid} : Writes(t, r, i)
<1>1. WriteSlot(t, r) => Writes(t, r, r)
  BY DEF WriteSlot, Writes
<1>2. WriteSlotFails(t, r) => \E i \in {slots[t], r, Invalid} : Writes(t, r, i)
  BY DEF WriteSlotFails, Writes
<1> QED
  BY <1>1, <1>2

\* A repair copies the selected root over the other slot.
LEMMA RepairMedia ==
    ASSUME RootInv, phase = "repair", Quiet, read_selection.kind = "Selected",
           read_selection.superblock = root,
           NEW i, Writes(other(read_selection.slot), root, i)
    PROVE  /\ MediaInv' /\ MediaTypes' /\ Written' \subseteq Written
           /\ i = root => \A s \in Slots : slots'[s] = root
           /\ ~exposed => \A x \in CrashOutcomes' : select_root_images(x).superblock = root
<1> DEFINE t == other(read_selection.slot)
<1>1. /\ read_selection.slot \in Slots /\ slots[read_selection.slot] = root /\ IsValid(root)
  BY SelectView DEF read_selection
<1>2. t \in Slots /\ other(t) = read_selection.slot /\ \A s \in Slots : s = t \/ s = other(t)
  BY <1>1, SlotView
<1>3. root \in Written /\ root \in Superblock
  BY <1>1 DEF Written, RootInv, TypeOK
<1>4. /\ root.generation # 0 /\ Sound(root) /\ Current(root)
      /\ \A v \in Written : v = root \/ v = served \/ root = served
  BY <1>3 DEF RootInv, MediaInv, ImagesCurrent
<1>5. slots = stable /\ slots[other(t)] = root
  BY <1>1, <1>2 DEF RootInv, SlotsFollow, Settled
<1>6. Writes(t, root, i)
  OBVIOUS
<1> HIDE DEF t
<1>7. \A x \in CrashOutcomes' :
         \/ x = slots
         \/ /\ select_root_images(x).kind = "Selected"
            /\ select_root_images(x).superblock = root
  BY <1>2, <1>5, <1>6, CopyWrite
<1>8. ~exposed => \A x \in CrashOutcomes' : Survives(x)
  BY <1>7 DEF Survives, read_selection
<1>9. /\ MediaInv' /\ MediaTypes' /\ Written' \subseteq Written \cup {root}
      /\ slots'[t] = i /\ slots'[other(t)] = slots[other(t)]
  BY <1>2, <1>3, <1>4, <1>6, <1>8, WriteMedia
<1> QED
  BY <1>2, <1>3, <1>5, <1>7, <1>9 DEF read_selection

\* The repair keeps the invariant, with every outcome of its write.
LEMMA RepairWriteKeeps ==
    ASSUME RootInv, RepairWrite
    PROVE  RootInv'
<1>1. phase = "repair" /\ Quiet /\ (Fault \/ NoFault) /\ UNCHANGED <<root, next, file, damage>>
  BY DEF RepairWrite, Quiet
<1>2. Sound(root)' /\ Current(root)'
  BY <1>1 DEF RootInv, OwnerSound, Holding, Quiet, Sound, Current
<1>3. ASSUME phase' \in Phases, MediaTypes' PROVE TypeOK'
  BY <1>1, <1>3, FaultView DEF RootInv, TypeOK, MediaTypes, Quiet
<1>4. CASE read_selection.kind = "Selected" /\ read_selection.superblock = root
  <2> DEFINE t == other(read_selection.slot)
  <2>1. t \in Slots /\ IsValid(root)
    BY <1>4, SelectView, SlotView DEF read_selection
  <2>2. CASE WriteSlot(t, root) /\ phase' = "repair_sync"
    <3>1. Writes(t, root, root)
      BY <2>1, <2>2, WritesAre DEF RootInv
    <3>2. MediaInv' /\ MediaTypes' /\ \A s \in Slots : slots'[s] = root
      BY <1>1, <1>4, <3>1, RepairMedia
    <3>3. OwnerSound'
      BY <1>2, <2>2 DEF OwnerSound, Publishing, Told, Holding
    <3>4. SlotsFollow' /\ CopyKept'
      BY <1>1, <2>1, <2>2, <3>2, SlotView, ImageView
      DEF SlotsFollow, CopyKept, Publishing, Told, Settled, Mirrored, IsValid
    <3> QED
      BY <1>3, <2>2, <3>2, <3>3, <3>4 DEF RootInv, Phases
  <2>3. CASE WriteSlotFails(t, root) /\ phase' = "fenced"
    <3>1. PICK i \in {slots[t], root, Invalid} : Writes(t, root, i)
      BY <2>1, <2>3, WritesAre DEF RootInv
    <3>2. MediaInv' /\ MediaTypes'
      BY <1>1, <1>4, <3>1, RepairMedia
    <3> QED
      BY <1>3, <2>3, <3>2, IdleKeeps DEF Phases
  <2> QED
    BY <1>4, <2>2, <2>3 DEF RepairWrite, Fence
<1>5. CASE ~(read_selection.kind = "Selected" /\ read_selection.superblock = root)
  <2>1. phase' = "fenced" /\ UNCHANGED media
    BY <1>5 DEF RepairWrite, Fence
  <2>2. MediaInv' /\ MediaTypes'
    BY <1>1, <2>1, SameMedia
  <2> QED
    BY <1>3, <2>1, <2>2, IdleKeeps DEF Phases
<1> QED
  BY <1>4, <1>5

\* A synchronization that failed, whatever it did.
LEMMA SyncFailsKeeps ==
    ASSUME RootInv, SyncSlotsFails, Quiet, Fault, Fence, UNCHANGED <<root, next, damage>>,
           file' \in 0 .. MaxFile
    PROVE  RootInv'
<1>1. phase' = "fenced" /\ (SyncSlots \/ UNCHANGED media)
  BY DEF Fence, SyncSlotsFails
<1>2. MediaInv' /\ MediaTypes'
  BY <1>1, SyncMedia, SameMedia
<1>3. TypeOK'
  BY <1>1, <1>2, FaultView DEF RootInv, TypeOK, MediaTypes, Phases, Quiet
<1> QED
  BY <1>1, <1>2, <1>3, IdleKeeps

\* The settled mirror holds the root: it may be shown.
LEMMA RepairSyncKeeps ==
    ASSUME RootInv, RepairSync
    PROVE  RootInv'
<1>1. phase = "repair_sync" /\ Quiet /\ UNCHANGED <<root, next, file, damage>>
  BY DEF RepairSync, Quiet
<1>2. CASE Fault /\ SyncSlotsFails /\ Fence
  BY <1>1, <1>2, SyncFailsKeeps DEF RootInv, TypeOK
<1>3. CASE NoFault /\ SyncSlots /\ phase' = "opened"
  <2>1. MediaInv' /\ MediaTypes' /\ slots' = slots /\ stable' = slots
    BY <1>1, <1>3, SyncMedia
  <2>2. TypeOK'
    BY <1>1, <1>3, <2>1, FaultView DEF RootInv, TypeOK, MediaTypes, Phases, Quiet
  <2>3. OwnerSound'
    BY <1>1, <1>3 DEF RootInv, OwnerSound, Publishing, Told, Holding, Quiet, Sound, Current
  <2>4. SlotsFollow' /\ CopyKept'
    BY <1>1, <1>3, <2>1 DEF RootInv, SlotsFollow, CopyKept, Publishing, Told, Settled, Mirrored
  <2> QED
    BY <2>1, <2>2, <2>3, <2>4 DEF RootInv
<1> QED
  BY <1>2, <1>3 DEF RepairSync

\* What a step that tells a caller of a root needs: nothing else is on the medium.
LEMMA TellMedia ==
    ASSUME RootInv, NEW r \in Superblock, Sound(r), r.generation # 0 \/ Written = {},
           slots' = slots, stable' = slots, ordered' = {},
           \A s \in Slots : IsValid(slots[s]) => slots[s] = r, slots["A"] # Unwritten,
           served' = r, retired' = retired \cup r.garbage, UNCHANGED <<names, durable, exposed>>
    PROVE  MediaInv' /\ MediaTypes' /\ Sound(r)' /\ CrashOutcomes' = {slots}
<1>1. Sound(r)'
  BY DEF Sound
<1>2. Written' \subseteq {r} /\ Written' \subseteq Written
  BY DEF Written
<1>3. ImagesCurrent'
  BY <1>1, <1>2 DEF ImagesCurrent, Current
<1>4. UnbornIsEmpty'
  BY DEF UnbornIsEmpty
<1>5. CrashOutcomes' = {slots}
  <2>1. slots = [s \in Slots |-> slots[s]]
    BY SlotsView DEF RootInv
  <2>2. CrashOutcomes' = Outcomes(slots, slots, {})
    BY OutcomesAre
  <2> QED
    BY <2>1, <2>2, OutcomesView
<1>6. SomeRootSurvives'
  <2>1. ~exposed => Survives(slots)
    BY LossView DEF RootInv, MediaInv, SomeRootSurvives
  <2>2. ~exposed => select_root_images(slots).kind = "Selected"
    BY <2>1, SelectView DEF Survives
  <2> QED
    BY <1>5, <2>2 DEF SomeRootSurvives, Survives
<1>7. MediaTypes'
  BY DEF RootInv, TypeOK, MediaTypes, PendingSlots
<1> QED
  BY <1>1, <1>3, <1>4, <1>5, <1>6, <1>7 DEF MediaInv

\* The medium holds nothing but copies of the opened root.
LEMMA OpenedKeeps ==
    ASSUME RootInv, Opened
    PROVE  RootInv'
<1>1. /\ phase = "opened" /\ served' = root /\ retired' = retired \cup root.garbage
      /\ UNCHANGED <<slots, stable, ordered, names, durable, root, next, file, exposed, damage, faults>>
      /\ phase' = IF pending(root) # 0 THEN "takeover" ELSE "serving"
  BY DEF Opened, media, NoFault
<1>2. /\ slots = stable /\ slots["A"] # Unwritten /\ root \in Superblock /\ Sound(root)
      /\ \A s \in Slots : IsValid(slots[s]) => slots[s] = root
  BY <1>1 DEF RootInv, OwnerSound, SlotsFollow, Settled, Mirrored, Holding, TypeOK
<1>3. ordered = {}
  BY <1>2 DEF RootInv, TypeOK, PendingSlots
<1>4. root.generation # 0 \/ Written = {}
  <2>1. \A v \in Written : v = root
    BY <1>2 DEF Written
  <2> QED
    BY <2>1 DEF RootInv, MediaInv, ImagesCurrent
<1>5. MediaInv' /\ MediaTypes' /\ Sound(root)'
  BY <1>1, <1>2, <1>3, <1>4, TellMedia
<1>6. phase' \in {"takeover", "serving"} /\ (phase' = "takeover" => pending(root) # 0)
      /\ (phase' = "serving" => pending(root) = 0)
  BY <1>1
<1>7. root.garbage \subseteq Files
  BY <1>2 DEF Superblock
<1>8. TypeOK'
  BY <1>1, <1>5, <1>6, <1>7 DEF RootInv, TypeOK, MediaTypes, Phases
<1>9. OwnerSound'
  BY <1>1, <1>5, <1>6 DEF OwnerSound, Publishing, Told, Holding, Current
<1>10. SlotsFollow' /\ CopyKept'
  BY <1>1, <1>2, <1>6 DEF SlotsFollow, CopyKept, Publishing, Told, Settled, Mirrored
<1> QED
  BY <1>5, <1>8, <1>9, <1>10 DEF RootInv

\* A publication goes on only from exactly its predecessor, with a copy that its
\* first write does not touch.
LEMMA PublishStartKeeps ==
    ASSUME RootInv, PublishStart
    PROVE  RootInv'
<1> DEFINE sel == read_selection
<1>1. /\ phase = "publish" /\ Quiet /\ UNCHANGED media /\ UNCHANGED <<root, next, file, damage>>
      /\ NoFault /\ phase' \in {"restore", "first", "fenced"}
  BY DEF PublishStart, Quiet
<1>2. MediaInv' /\ MediaTypes' /\ slots' = slots /\ stable' = stable /\ ordered' = ordered
  BY <1>1, SameMedia DEF media
<1>3. TypeOK'
  BY <1>1, <1>2, FaultView DEF RootInv, TypeOK, MediaTypes, Phases, Quiet
<1>4. CASE phase' = "fenced"
  BY <1>2, <1>3, <1>4, IdleKeeps
<1>5. CASE phase' \in {"restore", "first"}
  <2>1. /\ is_successor(root, next)
        /\ \/ sel.kind = "Empty" /\ root.generation = 0
           \/ sel.kind = "Selected" /\ sel.superblock = root
        /\ phase' = IF sel.kind = "Selected" /\ ~sel.mirrored /\ sel.slot = first
                      THEN "restore" ELSE "first"
    BY <1>5 DEF PublishStart, first
  <2>2. /\ Sound(root) /\ Current(root) /\ served = root /\ Sound(next) /\ slots = stable
        /\ \A s \in Slots : IsValid(stable[s]) => stable[s] = root
    BY <1>1 DEF RootInv, OwnerSound, SlotsFollow, Holding, Told, Settled
  <2>3. /\ first' = first /\ second' = second
    BY <1>1 DEF first, second
  <2>4. /\ first \in Slots /\ second \in Slots /\ second = other(first) /\ first = other(second)
        /\ root \in Superblock /\ IsValid(root) /\ next \in Superblock
    BY SlotsView, ImageView DEF RootInv
  <2>5. sel.kind = "Selected" =>
          /\ sel.slot \in Slots /\ slots[sel.slot] = root /\ root.generation # 0
          /\ sel.mirrored => slots[first] = root /\ slots[second] = root
    <3>1. SUFFICES ASSUME sel.kind = "Selected"
                   PROVE  /\ sel.slot \in Slots /\ slots[sel.slot] = root /\ root.generation # 0
                          /\ sel.mirrored => slots[first] = root /\ slots[second] = root
      OBVIOUS
    <3>2. sel.superblock = root
      BY <2>1, <3>1
    <3>3. /\ sel.slot \in Slots /\ slots[sel.slot] = root
          /\ sel.mirrored => slots["A"] = root /\ slots["B"] = root
      BY <3>1, <3>2, SelectView DEF read_selection
    <3>4. root \in Written
      BY <2>4, <3>3 DEF Written
    <3>5. root.generation # 0
      BY <3>4 DEF RootInv, MediaInv, ImagesCurrent
    <3> QED
      BY <2>4, <3>3, <3>5, SlotView
  <2>6. OwnerSound'
    <3>1. Sound(root)' /\ Current(root)' /\ Sound(next)' /\ served' = root' /\ is_successor(root, next)'
      BY <1>1, <2>1, <2>2 DEF Quiet, Sound, Current, is_successor
    <3>2. phase' = "restore" => root'.generation # 0
      BY <1>1, <2>1, <2>5
    <3> QED
      BY <1>5, <3>1, <3>2 DEF OwnerSound
  <2>7. CASE phase' = "restore"
    <3>1. sel.kind = "Selected" /\ ~sel.mirrored /\ sel.slot = first
      BY <2>1, <2>7
    <3>2. slots[first] = root /\ root.generation # 0
      BY <2>5, <3>1
    <3>3. ~IsValid(stable[second])
      <4>1. SUFFICES ASSUME IsValid(stable[second]) PROVE FALSE
        OBVIOUS
      <4>2. slots["A"] = root /\ slots["B"] = root
        BY <2>2, <2>4, <3>2, <4>1, SlotView
      <4>3. select_root_images(slots) = Selected(root, "A", TRUE)
        BY <2>4, <4>2 DEF select_root_images, select_valid
      <4> QED
        BY <3>1, <4>3 DEF read_selection, Selected
    <3>4. stable["A"] # Unwritten
      BY <2>2, <3>2 DEF RootInv, MediaInv, UnbornIsEmpty, genesis
    <3>5. SlotsFollow'
      BY <1>1, <1>2, <2>2, <2>3, <2>7, <3>3, <3>4 DEF SlotsFollow, Told, Settled, Mirrored, Publishing
    <3>6. CopyKept'
      BY <1>1, <1>2, <2>2, <2>3, <2>4, <2>7, <3>2 DEF CopyKept
    <3> QED
      BY <1>2, <1>3, <2>6, <3>5, <3>6 DEF RootInv
  <2>8. CASE phase' = "first"
    <3>1. SlotsFollow'
      BY <1>1, <1>2, <2>2, <2>3, <2>8 DEF SlotsFollow, Told, Settled, Mirrored, Publishing
    <3>2. FallBack
      <4>1. CASE sel.kind = "Selected"
        <5>1. sel.mirrored \/ sel.slot = second
          BY <2>1, <2>4, <2>5, <2>8, <4>1, SlotView
        <5> QED
          BY <2>4, <2>5, <4>1, <5>1 DEF FallBack
      <4>2. CASE sel.kind = "Empty"
        <5>1. slots["A"] = Unwritten /\ root.generation = 0
          BY <2>1, <4>2, SelectView DEF read_selection
        <5>2. root = genesis
          BY <2>2, <5>1 DEF RootInv, MediaInv, UnbornIsEmpty
        <5>3. next.generation = 1
          BY <2>1, <5>1 DEF is_successor
        <5> QED
          BY <5>1, <5>2, <5>3, SlotView DEF FallBack, first
      <4> QED
        BY <2>1, <4>1, <4>2
    <3>3. FallBack'
      BY <1>1, <1>2, <2>3, <3>2 DEF FallBack
    <3>4. CopyKept'
      BY <2>8, <3>3 DEF CopyKept
    <3> QED
      BY <1>2, <1>3, <2>6, <3>1, <3>4 DEF RootInv
  <2> QED
    BY <1>5, <2>7, <2>8
<1> QED
  BY <1>1, <1>4, <1>5

\* The restored copy is the root again.
LEMMA RestoreMedia ==
    ASSUME RootInv, phase = "restore", Quiet, NEW i, Writes(second, root, i)
    PROVE  /\ MediaInv' /\ MediaTypes'
           /\ slots'[second] = i /\ slots'[first] = slots[first]
           /\ ~exposed => \A x \in CrashOutcomes' : select_root_images(x).superblock = root
<1>1. /\ first \in Slots /\ second \in Slots /\ second = other(first) /\ first = other(second)
      /\ root \in Superblock /\ IsValid(root)
  BY SlotsView, ImageView DEF RootInv
<1>2. /\ slots = stable /\ served = root /\ Sound(root) /\ Current(root) /\ root.generation # 0
      /\ stable["A"] # Unwritten
      /\ \A s \in Slots : IsValid(slots[s]) => slots[s] = root
  BY DEF RootInv, OwnerSound, SlotsFollow, Holding, Told, Publishing, Settled, Mirrored
<1>3. \A v \in Written : v = root
  BY <1>2 DEF Written
<1>4. ~exposed => /\ Survives(slots) /\ select_root_images(slots).superblock = root
  <2>1. ~exposed => Survives(slots)
    BY LossView DEF RootInv, MediaInv, SomeRootSurvives
  <2>2. ~exposed => select_root_images(slots).kind = "Selected"
    BY <1>2, <2>1, SelectView DEF Survives
  <2> QED
    BY <1>2, <2>1, <2>2, SelectView
<1>5. ~exposed => \A x \in CrashOutcomes' :
         \/ x = slots
         \/ /\ select_root_images(x).kind = "Selected"
            /\ select_root_images(x).superblock = root
  <2>1. ~exposed => slots[other(second)] = root
    BY <1>1 DEF RootInv, CopyKept
  <2> QED
    BY <1>1, <1>2, <2>1, CopyWrite
<1>6. ~exposed => \A x \in CrashOutcomes' : Survives(x)
  BY <1>4, <1>5 DEF Survives
<1>7. /\ MediaInv' /\ MediaTypes' /\ slots'[second] = i /\ slots'[other(second)] = slots[other(second)]
  BY <1>1, <1>2, <1>3, <1>6, WriteMedia
<1> QED
  BY <1>1, <1>4, <1>5, <1>7

\* The other copy is restored before the only one is overwritten.
LEMMA PublishRestoreKeeps ==
    ASSUME RootInv, PublishRestore
    PROVE  RootInv'
<1>1. phase = "restore" /\ Quiet /\ UNCHANGED <<root, next, file, damage>> /\ (Fault \/ NoFault)
  BY DEF PublishRestore, Quiet
<1>2. /\ first \in Slots /\ second \in Slots /\ \A s \in Slots : s = first \/ s = second
      /\ first' = first /\ second' = second /\ IsValid(root)
  BY <1>1, SlotsView, ImageView DEF RootInv, first, second
<1>3. ASSUME phase' \in Phases, MediaTypes' PROVE TypeOK'
  BY <1>1, <1>3, FaultView DEF RootInv, TypeOK, MediaTypes, Quiet
<1>4. CASE WriteSlot(second, root) /\ phase' = "restore_sync"
  <2>1. Writes(second, root, root)
    BY <1>2, <1>4, WritesAre DEF RootInv
  <2>2. MediaInv' /\ MediaTypes' /\ slots'[second] = root /\ slots'[first] = slots[first] /\ stable' = stable
    BY <1>1, <2>1, RestoreMedia DEF Writes
  <2>3. OwnerSound'
    BY <1>1, <1>4 DEF RootInv, OwnerSound, Publishing, Told, Holding, Quiet, Sound, Current, is_successor
  <2>4. /\ slots = stable /\ stable["A"] # Unwritten /\ ~IsValid(stable[second])
        /\ \A s \in Slots : IsValid(stable[s]) => stable[s] = root
    BY <1>1 DEF RootInv, SlotsFollow, Settled, Mirrored, Told, Publishing
  <2>5. \A s \in Slots : IsValid(slots'[s]) => slots'[s] = root
    BY <1>2, <2>2, <2>4
  <2>6. SlotsFollow'
    BY <1>1, <1>2, <1>4, <2>2, <2>4, <2>5 DEF SlotsFollow, Publishing, Told, Settled, Mirrored
  <2>7. CopyKept'
    BY <1>1, <1>2, <1>4, <2>2 DEF RootInv, CopyKept, Quiet
  <2> QED
    BY <1>3, <1>4, <2>2, <2>3, <2>6, <2>7 DEF RootInv, Phases
<1>5. CASE WriteSlotFails(second, root) /\ phase' = "fenced"
  <2>1. PICK i \in {slots[second], root, Invalid} : Writes(second, root, i)
    BY <1>2, <1>5, WritesAre DEF RootInv
  <2>2. MediaInv' /\ MediaTypes'
    BY <1>1, <2>1, RestoreMedia
  <2> QED
    BY <1>3, <1>5, <2>2, IdleKeeps DEF Phases
<1> QED
  BY <1>4, <1>5 DEF PublishRestore, Fence, second, first

\* The restored copy is settled before the publication goes on.
LEMMA PublishRestoreSyncKeeps ==
    ASSUME RootInv, PublishRestoreSync
    PROVE  RootInv'
<1>1. phase = "restore_sync" /\ Quiet /\ UNCHANGED <<root, next, file, damage>>
  BY DEF PublishRestoreSync, Quiet
<1>2. CASE Fault /\ SyncSlotsFails /\ Fence
  BY <1>1, <1>2, SyncFailsKeeps DEF RootInv, TypeOK
<1>3. CASE NoFault /\ SyncSlots /\ phase' = "first"
  <2>1. MediaInv' /\ MediaTypes' /\ slots' = slots /\ stable' = slots
    BY <1>1, <1>3, SyncMedia
  <2>2. TypeOK'
    BY <1>1, <1>3, <2>1, FaultView DEF RootInv, TypeOK, MediaTypes, Phases, Quiet
  <2>3. OwnerSound'
    BY <1>1, <1>3 DEF RootInv, OwnerSound, Publishing, Told, Holding, Quiet, Sound, Current, is_successor
  <2>4. second' = second /\ IsValid(root)
    BY <1>1, SlotsView, ImageView DEF first, second, RootInv
  <2>5. SlotsFollow'
    BY <1>1, <1>3, <2>1 DEF RootInv, SlotsFollow, Publishing, Told, Settled, Mirrored
  <2>6. FallBack'
    BY <1>1, <2>1, <2>4 DEF RootInv, SlotsFollow, OwnerSound, FallBack
  <2>7. CopyKept'
    BY <1>3, <2>6 DEF CopyKept
  <2> QED
    BY <2>1, <2>2, <2>3, <2>5, <2>7 DEF RootInv
<1> QED
  BY <1>2, <1>3 DEF PublishRestoreSync

\* The first write of a publication, whatever became of it.
LEMMA FirstMedia ==
    ASSUME RootInv, phase = "first", Quiet, NEW i, Writes(first, next, i)
    PROVE  /\ MediaInv' /\ MediaTypes'
           /\ slots'[first] = i /\ slots'[second] = slots[second]
<1>1. /\ first \in Slots /\ second \in Slots /\ second = other(first) /\ next \in Superblock
      /\ ordered \in SUBSET Slots
  BY SlotsView DEF RootInv
<1>2. /\ next.generation # 0 /\ Sound(next) /\ Current(next) /\ served = root
      /\ \A s \in Slots : IsValid(stable[s]) => stable[s] = root
  BY NextView DEF Publishing
<1>3. slots = stable
  BY DEF RootInv, SlotsFollow, Settled
<1>4. \A v \in Written : v = served
  BY <1>2, <1>3 DEF Written
<1>5. ~exposed => \A x \in CrashOutcomes' : Survives(x)
  BY <1>1, FirstOutcomes DEF Writes
<1> QED
  BY <1>1, <1>2, <1>4, <1>5, WriteMedia

\* The first write leaves the copy to fall back on alone.
LEMMA PublishFirstKeeps ==
    ASSUME RootInv, PublishFirst
    PROVE  RootInv'
<1>1. phase = "first" /\ Quiet /\ UNCHANGED <<root, next, file, damage>> /\ (Fault \/ NoFault)
  BY DEF PublishFirst, Quiet
<1>2. /\ first \in Slots /\ second \in Slots /\ \A s \in Slots : s = first \/ s = second
      /\ first' = first /\ second' = second /\ first # second /\ second = other(first)
  BY <1>1, SlotsView DEF RootInv, first, second
<1>3. ASSUME phase' \in Phases, MediaTypes' PROVE TypeOK'
  BY <1>1, <1>3, FaultView DEF RootInv, TypeOK, MediaTypes, Quiet
<1>4. CASE WriteSlot(first, next) /\ phase' = "order"
  <2>1. Writes(first, next, next)
    BY <1>2, <1>4, WritesAre DEF RootInv
  <2>2. MediaInv' /\ MediaTypes' /\ slots'[first] = next /\ slots'[second] = slots[second] /\ stable' = stable
    BY <1>1, <2>1, FirstMedia DEF Writes
  <2>3. OwnerSound'
    BY <1>1, <1>4 DEF RootInv, OwnerSound, Publishing, Told, Holding, Quiet, Sound, Current, is_successor
  <2>4. slots = stable /\ \A s \in Slots : IsValid(stable[s]) => stable[s] = root
    BY <1>1 DEF RootInv, SlotsFollow, Settled, Told, Publishing
  <2>5. SlotsFollow'
    BY <1>1, <1>2, <1>4, <2>2, <2>4 DEF SlotsFollow, Publishing, Told, Settled, Mirrored
  <2>6. FallBack => FallBack'
    BY <1>1, <1>2, <2>2, SlotView DEF FallBack
  <2>7. CopyKept'
    BY <1>1, <1>4, <2>6 DEF RootInv, CopyKept, Quiet
  <2> QED
    BY <1>3, <1>4, <2>2, <2>3, <2>5, <2>7 DEF RootInv, Phases
<1>5. CASE WriteSlotFails(first, next) /\ phase' = "fenced"
  <2>1. PICK i \in {slots[first], next, Invalid} : Writes(first, next, i)
    BY <1>2, <1>5, WritesAre DEF RootInv
  <2>2. MediaInv' /\ MediaTypes'
    BY <1>1, <2>1, FirstMedia
  <2> QED
    BY <1>3, <1>5, <2>2, IdleKeeps DEF Phases
<1> QED
  BY <1>4, <1>5 DEF PublishFirst, Fence, first

\* Ordering the first write.
LEMMA OrderMedia ==
    ASSUME RootInv, phase = "order", Quiet, OrderSlots, UNCHANGED next
    PROVE  MediaInv' /\ MediaTypes' /\ first \in ordered'
<1>1. /\ first \in Slots /\ slots = [s \in Slots |-> slots[s]] /\ first' = first
  BY SlotsView DEF RootInv, first
<1>2. /\ slots' = slots /\ stable' = stable /\ ordered' = PendingSlots
  BY DEF OrderSlots
<1>3. ordered' \in SUBSET Slots /\ MediaTypes'
  BY <1>2 DEF RootInv, TypeOK, MediaTypes, PendingSlots
<1>4. first \in ordered'
  <2>1. slots[first] = next /\ stable[first] # next
    BY <1>1, NextView DEF RootInv, SlotsFollow, Publishing
  <2> QED
    BY <1>1, <1>2, <2>1 DEF PendingSlots
<1>5. SomeRootSurvives'
  <2>1. slots' = [slots EXCEPT ![first] = slots[first]]
    BY <1>1, <1>2
  <2>2. ~exposed => \A x \in CrashOutcomes' : Survives(x)
    BY <1>2, <1>3, <2>1, FirstOutcomes
  <2> QED
    BY <2>2 DEF SomeRootSurvives, Survives, Quiet
<1>6. ImagesCurrent' /\ UnbornIsEmpty'
  <2>1. Written' = Written
    BY <1>2 DEF Written
  <2> QED
    BY <1>2, <2>1 DEF Quiet, RootInv, MediaInv, ImagesCurrent, UnbornIsEmpty, Sound, Current
<1> QED
  BY <1>3, <1>4, <1>5, <1>6 DEF MediaInv

\* The second write waits until the first one is ordered.
LEMMA PublishOrderKeeps ==
    ASSUME RootInv, PublishOrder
    PROVE  RootInv'
<1>1. phase = "order" /\ Quiet /\ UNCHANGED <<root, next, file, damage>> /\ (Fault \/ NoFault)
  BY DEF PublishOrder, Quiet
<1>2. first' = first /\ second' = second
  BY <1>1 DEF first, second
<1>3. ASSUME phase' \in Phases, MediaTypes' PROVE TypeOK'
  BY <1>1, <1>3, FaultView DEF RootInv, TypeOK, MediaTypes, Quiet
<1>4. CASE OrderSlots /\ phase' = "second"
  <2>1. MediaInv' /\ MediaTypes' /\ first \in ordered' /\ slots' = slots /\ stable' = stable
    BY <1>1, <1>4, OrderMedia DEF OrderSlots
  <2>2. OwnerSound'
    BY <1>1, <1>4 DEF RootInv, OwnerSound, Publishing, Told, Holding, Quiet, Sound, Current, is_successor
  <2>3. SlotsFollow'
    BY <1>1, <1>2, <1>4, <2>1 DEF RootInv, SlotsFollow, Publishing, Told, Settled, Mirrored
  <2>4. FallBack => FallBack'
    BY <1>1, <1>2, <2>1 DEF FallBack
  <2>5. CopyKept'
    BY <1>1, <1>2, <1>4, <2>1, <2>4 DEF RootInv, CopyKept, Quiet
  <2> QED
    BY <1>3, <1>4, <2>1, <2>2, <2>3, <2>5 DEF RootInv, Phases
<1>5. CASE (OrderSlots \/ UNCHANGED media) /\ phase' = "fenced"
  <2>1. MediaInv' /\ MediaTypes'
    BY <1>1, <1>5, OrderMedia, SameMedia
  <2> QED
    BY <1>3, <1>5, <2>1, IdleKeeps DEF Phases
<1> QED
  BY <1>4, <1>5 DEF PublishOrder, Fence

\* The second write, behind the first one.
LEMMA SecondMedia ==
    ASSUME RootInv, phase = "second", Quiet, NEW i, Writes(second, next, i)
    PROVE  /\ MediaInv' /\ MediaTypes'
           /\ slots'[second] = i /\ slots'[first] = slots[first]
<1>1. /\ first \in Slots /\ second \in Slots /\ first = other(second) /\ next \in Superblock
      /\ \A s \in Slots : s = first \/ s = second
  BY SlotsView DEF RootInv
<1>2. /\ next.generation # 0 /\ Sound(next) /\ Current(next) /\ served = root
      /\ \A s \in Slots : IsValid(stable[s]) => stable[s] = root
  BY NextView DEF Publishing
<1>3. slots[first] = next /\ slots[second] = stable[second]
  BY DEF RootInv, SlotsFollow
<1>4. \A v \in Written : v = next \/ v = served
  BY <1>1, <1>2, <1>3 DEF Written
<1>5. ~exposed => \A x \in CrashOutcomes' : Survives(x)
  BY SecondOutcomes
<1> QED
  BY <1>1, <1>2, <1>4, <1>5, WriteMedia

\* The second write follows an ordered first one.
LEMMA PublishSecondKeeps ==
    ASSUME RootInv, PublishSecond
    PROVE  RootInv'
<1>1. phase = "second" /\ Quiet /\ UNCHANGED <<root, next, file, damage>> /\ (Fault \/ NoFault)
  BY DEF PublishSecond, Quiet
<1>2. /\ first \in Slots /\ second \in Slots /\ \A s \in Slots : s = first \/ s = second
      /\ first' = first /\ second' = second
  BY <1>1, SlotsView DEF RootInv, first, second
<1>3. ASSUME phase' \in Phases, MediaTypes' PROVE TypeOK'
  BY <1>1, <1>3, FaultView DEF RootInv, TypeOK, MediaTypes, Quiet
<1>4. CASE WriteSlot(second, next) /\ phase' = "sync"
  <2>1. Writes(second, next, next)
    BY <1>2, <1>4, WritesAre DEF RootInv
  <2>2. MediaInv' /\ MediaTypes' /\ slots'[second] = next /\ slots'[first] = slots[first] /\ stable' = stable
    BY <1>1, <2>1, SecondMedia DEF Writes
  <2>3. OwnerSound'
    BY <1>1, <1>4 DEF RootInv, OwnerSound, Publishing, Told, Holding, Quiet, Sound, Current, is_successor
  <2>4. slots[first] = next /\ (\A s \in Slots : IsValid(stable[s]) => stable[s] = root) /\ IsValid(next)
    BY <1>1, SlotsView, ImageView DEF RootInv, SlotsFollow, Told, Publishing
  <2>5. slots'["A"] # Unwritten
    BY <1>2, <2>2, <2>4, SlotView, ImageView
  <2>6. SlotsFollow'
    BY <1>1, <1>2, <1>4, <2>2, <2>4, <2>5 DEF SlotsFollow, Publishing, Told, Settled, Mirrored
  <2>7. CopyKept'
    BY <1>4 DEF CopyKept
  <2> QED
    BY <1>3, <1>4, <2>2, <2>3, <2>6, <2>7 DEF RootInv, Phases
<1>5. CASE WriteSlotFails(second, next) /\ phase' = "fenced"
  <2>1. PICK i \in {slots[second], next, Invalid} : Writes(second, next, i)
    BY <1>2, <1>5, WritesAre DEF RootInv
  <2>2. MediaInv' /\ MediaTypes'
    BY <1>1, <2>1, SecondMedia
  <2> QED
    BY <1>3, <1>5, <2>2, IdleKeeps DEF Phases
<1> QED
  BY <1>4, <1>5 DEF PublishSecond, Fence, first, second

\* The last synchronization leaves nothing but the successor on the medium.
LEMMA PublishSyncKeeps ==
    ASSUME RootInv, PublishSync
    PROVE  RootInv'
<1>1. phase = "sync" /\ UNCHANGED <<names, durable, next, file, exposed, damage>>
  BY DEF PublishSync
<1>2. CASE Fault /\ SyncSlotsFails /\ Fence /\ UNCHANGED <<root, served, retired>>
  BY <1>1, <1>2, SyncFailsKeeps DEF RootInv, TypeOK, Quiet
<1>3. CASE /\ NoFault /\ SyncSlots
           /\ root' = next /\ served' = next /\ retired' = retired \cup next.garbage
           /\ phase' = IF pending(next) # 0 THEN "create" ELSE "serving"
  <2>1. /\ slots[first] = next /\ slots[second] = next /\ slots["A"] # Unwritten
    BY <1>1 DEF RootInv, SlotsFollow
  <2>2. next \in Superblock /\ next.generation # 0 /\ Sound(next) /\ \A s \in Slots : slots[s] = next
    BY <1>1, <2>1, NextView, SlotsView DEF RootInv, Publishing
  <2>3. slots' = slots /\ stable' = slots /\ ordered' = {}
    BY <1>3 DEF SyncSlots
  <2>4. MediaInv' /\ MediaTypes' /\ Sound(next)'
    <3>1. Sound(next)'
      BY <1>1, <1>3, <2>2 DEF Sound
    <3>2. MediaInv' /\ MediaTypes'
      BY <1>1, <1>3, <2>1, <2>2, <2>3, TellMedia
    <3> QED
      BY <3>1, <3>2
  <2>5. /\ phase' \in {"create", "serving"} /\ (phase' = "create" => pending(next) # 0)
        /\ (phase' = "serving" => pending(next) = 0)
    BY <1>3
  <2>6. next.garbage \subseteq Files
    BY <2>2 DEF Superblock
  <2>7. TypeOK'
    BY <1>1, <1>3, <2>2, <2>4, <2>5, <2>6 DEF RootInv, TypeOK, MediaTypes, Phases, NoFault
  <2>8. Sound(root)'
    BY <1>1, <1>3, <2>4 DEF Sound
  <2>9. OwnerSound'
    BY <1>1, <1>3, <2>5, <2>8 DEF OwnerSound, Publishing, Told, Holding, Current
  <2>10. SlotsFollow' /\ CopyKept'
    BY <1>1, <1>3, <2>1, <2>2, <2>3, <2>5 DEF SlotsFollow, CopyKept, Publishing, Told, Settled, Mirrored
  <2> QED
    BY <2>4, <2>7, <2>9, <2>10 DEF RootInv
<1> QED
  BY <1>2, <1>3 DEF PublishSync

\* Between two publications.
Serves == {"serving", "takeover", "create", "unlink"}

\* A serving owner's slots hold nothing but its root.
LEMMA ServeView ==
    ASSUME RootInv, phase \in Serves
    PROVE  /\ slots = stable /\ stable["A"] # Unwritten /\ root \in Superblock /\ Sound(root)
           /\ served = root /\ Current(root) /\ \A v \in Written : v = root
           /\ \A s \in Slots : IsValid(stable[s]) => stable[s] = root
           /\ phase = "serving" => pending(root) = 0
           /\ root.generation \in Nat /\ root.last_id \in Nat /\ root.next_id \in Nat
           /\ root.next_id = (IF pending(root) = 0 THEN root.last_id + 1 ELSE pending(root) + 1)
           /\ pending(root) # 0 =>
                pending(root) = root.last_id + 1 /\ pending(root) \in Files /\ root.generation < MaxGeneration
<1>1. phase \in Told /\ phase \in Holding /\ phase \in Settled /\ phase \in Mirrored
  BY DEF Serves, Told, Holding, Settled, Mirrored
<1>2. /\ slots = stable /\ stable["A"] # Unwritten /\ root \in Superblock /\ Sound(root)
      /\ served = root /\ Current(root)
      /\ \A s \in Slots : IsValid(stable[s]) => stable[s] = root
      /\ phase = "serving" => pending(root) = 0
  BY <1>1 DEF RootInv, OwnerSound, SlotsFollow, TypeOK
<1>3. \A v \in Written : v = root
  BY <1>2 DEF Written
<1>4. /\ root.generation \in Nat /\ root.last_id \in Nat /\ root.next_id \in Nat
      /\ root.next_id <= MaxFile + 1 /\ root.next_id >= 1
  BY <1>2, RootSlotsAssumption DEF Superblock
<1>5. root.next_id \in {root.last_id + 1, root.last_id + 2}
      /\ (root.next_id = root.last_id + 2 => root.generation < MaxGeneration)
  BY <1>2 DEF Sound
<1>6. root.next_id = (IF pending(root) = 0 THEN root.last_id + 1 ELSE pending(root) + 1)
  BY <1>4, <1>5 DEF pending
<1>7. pending(root) # 0 =>
        pending(root) = root.last_id + 1 /\ pending(root) \in Files /\ root.generation < MaxGeneration
  BY <1>4, <1>5, RootSlotsAssumption DEF pending, Files
<1> QED
  BY <1>2, <1>3, <1>4, <1>6, <1>7

\* A file may come or go while the root stays as good as it was.
LEMMA FilesMedia ==
    ASSUME RootInv, phase \in Serves, UNCHANGED <<media, root, served, retired, exposed>>,
           Sound(root)'
    PROVE  MediaInv' /\ MediaTypes' /\ CrashOutcomes' = CrashOutcomes
<1>1. /\ stable["A"] # Unwritten /\ served = root /\ \A v \in Written : v = root
      /\ slots = stable
  BY ServeView
<1>2. slots' = slots /\ stable' = stable /\ ordered' = ordered
  BY DEF media
<1>3. Written' = Written
  BY <1>2 DEF Written
<1>4. ImagesCurrent'
  <2>1. \A v \in Written : v = root' /\ v.generation # 0
    BY <1>1 DEF RootInv, MediaInv, ImagesCurrent
  <2>2. \A v \in Written : Sound(v)'
    BY <2>1 DEF Sound
  <2> QED
    BY <1>1, <1>3, <2>1, <2>2 DEF ImagesCurrent, Current
<1>5. UnbornIsEmpty'
  BY <1>1, <1>2 DEF UnbornIsEmpty
<1>6. CrashOutcomes' = CrashOutcomes
  BY <1>2 DEF CrashOutcomes, PendingSlots
<1>7. SomeRootSurvives'
  BY <1>6 DEF RootInv, MediaInv, SomeRootSurvives, Survives
<1>8. MediaTypes'
  BY <1>2 DEF RootInv, TypeOK, MediaTypes, PendingSlots
<1> QED
  BY <1>4, <1>5, <1>6, <1>7, <1>8 DEF MediaInv

\* The owner hands over a successor that is as good as its root.
LEMMA HandOver ==
    ASSUME RootInv, phase \in Serves, UNCHANGED <<media, root, file, served, retired, exposed, damage>>,
           NoFault, phase' = "publish", Sound(root)', Sound(next)',
           names' \subseteq Files, durable' \subseteq Files
    PROVE  RootInv'
<1>1. MediaInv' /\ MediaTypes'
  BY FilesMedia
<1>2. next' \in Superblock
  BY DEF Sound
<1>3. TypeOK'
  BY <1>1, <1>2 DEF RootInv, TypeOK, MediaTypes, Phases, NoFault
<1>4. /\ slots = stable /\ served = root /\ \A s \in Slots : IsValid(stable[s]) => stable[s] = root
  BY ServeView
<1>5. OwnerSound'
  BY <1>4 DEF OwnerSound, Publishing, Told, Holding, Current
<1>6. SlotsFollow' /\ CopyKept'
  BY <1>4 DEF SlotsFollow, CopyKept, Publishing, Told, Settled, Mirrored, media
<1> QED
  BY <1>1, <1>3, <1>5, <1>6 DEF RootInv

\* A file call that failed.
LEMMA FileFails ==
    ASSUME RootInv, phase \in Serves, UNCHANGED <<media, root, next, file, served, retired, exposed, damage>>,
           Fault \/ NoFault, phase' = "fenced", Sound(root)', names' \subseteq Files, durable' \subseteq Files
    PROVE  RootInv'
<1>1. MediaInv' /\ MediaTypes'
  BY FilesMedia
<1>2. TypeOK'
  BY <1>1, FaultView DEF RootInv, TypeOK, MediaTypes, Phases
<1> QED
  BY <1>1, <1>2, IdleKeeps

\* An intent takes the next identifier.
LEMMA ReserveKeeps ==
    ASSUME RootInv, Reserve
    PROVE  RootInv'
<1>1. /\ phase \in Serves /\ phase' = "publish" /\ NoFault /\ pending(root) = 0
      /\ UNCHANGED <<media, root, file, served, retired, exposed, damage, names, durable>>
      /\ root.next_id <= MaxFile /\ root.generation + 2 <= MaxGeneration
      /\ next' = [successor(root) EXCEPT !.next_id = @ + 1]
  BY DEF Reserve, Publish, Serves
<1>2. /\ root \in Superblock /\ Sound(root) /\ root.next_id = root.last_id + 1
      /\ root.generation \in Nat /\ root.last_id \in Nat
  BY <1>1, ServeView
<1>3. /\ next'.generation = root.generation + 1 /\ next'.next_id = root.next_id + 1
      /\ next'.last_id = root.last_id /\ next'.refs = root.refs /\ next'.garbage = root.garbage
      /\ next' = [root EXCEPT !.generation = root.generation + 1, !.next_id = root.next_id + 1]
  BY <1>1, <1>2 DEF successor, Superblock
<1>4. next' \in Superblock
  <2>1. root.generation + 1 \in 0 .. MaxGeneration /\ root.next_id + 1 \in 1 .. MaxFile + 1
    BY <1>1, <1>2, <1>3, RootSlotsAssumption DEF Superblock
  <2>2. next' = [root EXCEPT !.generation = root.generation + 1, !.next_id = root.next_id + 1]
    BY <1>3
  <2> QED
    BY <1>2, <2>1, <2>2 DEF Superblock
<1>5. Sound(root)'
  BY <1>1, <1>2 DEF Sound
<1>6. /\ next'.next_id = next'.last_id + 2 /\ next'.generation < MaxGeneration
      /\ \A f \in Nat : f < root.next_id => f < next'.next_id
  BY <1>1, <1>2, <1>3, RootSlotsAssumption
<1>7. names \subseteq Files /\ durable \subseteq Files /\ Files \subseteq Nat
  BY DEF RootInv, TypeOK, Files
<1>8. Sound(next)'
  BY <1>1, <1>2, <1>3, <1>4, <1>6, <1>7 DEF Sound
<1> QED
  BY <1>1, <1>5, <1>7, <1>8, HandOver

\* A new tree refers to files that are there.
LEMMA InstallKeeps ==
    ASSUME RootInv, NEW refs \in SUBSET Files, InstallDirectory(refs)
    PROVE  RootInv'
<1>1. /\ phase \in Serves /\ phase' = "publish" /\ NoFault /\ phase = "serving"
      /\ UNCHANGED <<media, root, file, served, retired, exposed, damage, names, durable>>
      /\ root.last_id # 0 /\ refs \subseteq root.refs \cup {root.last_id}
      /\ next' = [successor(root) EXCEPT !.refs = refs, !.committed = TRUE]
      /\ next'.generation <= MaxGeneration
  BY DEF InstallDirectory, Publish, Serves
<1>2. /\ root \in Superblock /\ Sound(root) /\ root.next_id = root.last_id + 1
      /\ root.generation \in Nat /\ root.last_id \in Nat
  BY <1>1, ServeView
<1>3. /\ next'.generation = root.generation + 1 /\ next'.next_id = root.next_id
      /\ next'.last_id = root.last_id /\ next'.refs = refs /\ next'.garbage = root.garbage
      /\ next' = [root EXCEPT !.generation = root.generation + 1, !.refs = refs, !.committed = TRUE]
  BY <1>1, <1>2 DEF successor, Superblock
<1>4. next' \in Superblock
  <2>1. root.generation + 1 \in 0 .. MaxGeneration /\ refs \subseteq Files
    BY <1>1, <1>2, <1>3, RootSlotsAssumption DEF Superblock
  <2>2. next' = [root EXCEPT !.generation = root.generation + 1, !.refs = refs, !.committed = TRUE]
    BY <1>3
  <2> QED
    BY <1>2, <2>1, <2>2 DEF Superblock
<1>5. Sound(root)'
  BY <1>1, <1>2 DEF Sound
<1>6. refs \cap root.garbage = {}
  <2>1. root.last_id \notin root.garbage
    BY <1>2 DEF Sound
  <2> QED
    BY <1>1, <1>2, <2>1 DEF Sound
<1>7. names \subseteq Files /\ durable \subseteq Files /\ next'.next_id # next'.last_id + 2
  BY <1>2, <1>3 DEF RootInv, TypeOK
<1>8. refs \subseteq names \cap durable
  BY <1>1, <1>2 DEF Sound
<1>9. Sound(next)'
  BY <1>1, <1>2, <1>3, <1>4, <1>6, <1>7, <1>8 DEF Sound
<1> QED
  BY <1>1, <1>5, <1>7, <1>9, HandOver

\* Garbage is older than the newest confirmed file and not referenced.
LEMMA RetireKeeps ==
    ASSUME RootInv, NEW f \in Files, Retire(f)
    PROVE  RootInv'
<1>1. /\ phase \in Serves /\ phase' = "publish" /\ NoFault /\ phase = "serving"
      /\ UNCHANGED <<media, root, file, served, retired, exposed, damage, names, durable>>
      /\ f < root.last_id /\ f \notin root.refs
      /\ next' = [successor(root) EXCEPT !.garbage = @ \cup {f}]
      /\ next'.generation <= MaxGeneration
  BY DEF Retire, Publish, Serves, file_is_retirable
<1>2. /\ root \in Superblock /\ Sound(root) /\ root.next_id = root.last_id + 1
      /\ root.generation \in Nat /\ root.last_id \in Nat
  BY <1>1, ServeView
<1>3. /\ next'.generation = root.generation + 1 /\ next'.next_id = root.next_id
      /\ next'.last_id = root.last_id /\ next'.refs = root.refs /\ next'.garbage = root.garbage \cup {f}
      /\ next' = [root EXCEPT !.generation = root.generation + 1, !.garbage = root.garbage \cup {f}]
  BY <1>1, <1>2 DEF successor, Superblock
<1>4. next' \in Superblock
  <2>1. root.generation + 1 \in 0 .. MaxGeneration /\ root.garbage \cup {f} \subseteq Files
    BY <1>1, <1>2, <1>3, RootSlotsAssumption DEF Superblock
  <2>2. next' = [root EXCEPT !.generation = root.generation + 1, !.garbage = root.garbage \cup {f}]
    BY <1>3
  <2> QED
    BY <1>2, <2>1, <2>2 DEF Superblock
<1>5. Sound(root)'
  BY <1>1, <1>2 DEF Sound
<1>6. names \subseteq Files /\ durable \subseteq Files /\ next'.next_id # next'.last_id + 2
  BY <1>2, <1>3 DEF RootInv, TypeOK
<1>7. Sound(next)'
  BY <1>1, <1>2, <1>3, <1>4, <1>6 DEF Sound
<1> QED
  BY <1>1, <1>5, <1>6, <1>7, HandOver

\* The intent's own file is below the next identifier and was never retired.
LEMMA IntentFile ==
    ASSUME RootInv, phase \in {"create", "takeover"}, UNCHANGED <<root, retired>>,
           names' \subseteq names \cup {pending(root)},
           durable' \subseteq names \cup durable \cup {pending(root)},
           names \subseteq names', names \cap durable \subseteq durable'
    PROVE  /\ Sound(root)' /\ names' \subseteq Files /\ durable' \subseteq Files
           /\ (/\ next' = [successor(root) EXCEPT !.last_id = pending(root)]
               /\ pending(root) \in names' \cap durable') => Sound(next)'
<1> DEFINE f == pending(root)
<1>1. phase \in Serves /\ f # 0
  BY DEF Serves, RootInv, OwnerSound
<1>2. /\ root \in Superblock /\ Sound(root) /\ root.next_id = f + 1 /\ f = root.last_id + 1
      /\ root.generation \in Nat /\ root.last_id \in Nat /\ f \in Files /\ f \in Nat
      /\ root.generation < MaxGeneration
  BY <1>1, ServeView DEF Files
<1>3. f \notin retired
  BY <1>2 DEF Sound
<1>4. names' \subseteq Files /\ durable' \subseteq Files
  BY <1>2 DEF RootInv, TypeOK
<1> HIDE DEF f
<1>5. /\ \A g \in names' \cup durable' : g < root.next_id
      /\ retired \cap (names' \cup durable') \subseteq root.garbage
      /\ names \cap durable \subseteq names' \cap durable'
  <2>1. f < f + 1
    BY <1>2
  <2> QED
    BY <1>2, <1>3, <2>1 DEF Sound, f
<1>6. Sound(root)'
  BY <1>2, <1>5 DEF Sound
<1>7. ASSUME next' = [successor(root) EXCEPT !.last_id = f], f \in names' \cap durable'
      PROVE  Sound(next)'
  <2>1. /\ next'.generation = root.generation + 1 /\ next'.next_id = root.next_id
        /\ next'.last_id = f /\ next'.refs = root.refs /\ next'.garbage = root.garbage
        /\ next' = [root EXCEPT !.generation = root.generation + 1, !.last_id = f]
    BY <1>2, <1>7 DEF successor, Superblock
  <2>2. root.generation + 1 \in 0 .. MaxGeneration /\ f \in 0 .. MaxFile
    BY <1>2, RootSlotsAssumption DEF Files
  <2>3. next' = [root EXCEPT !.generation = root.generation + 1, !.last_id = f]
    BY <2>1
  <2>4. next' \in Superblock
    BY <1>2, <2>2, <2>3 DEF Superblock
  <2>5. /\ next'.next_id = next'.last_id + 1 /\ next'.next_id # next'.last_id + 2
        /\ \A g \in Nat : g < root.last_id => g < next'.last_id
    BY <1>2, <2>1
  <2>6. \A g \in root.garbage \cup retired : g \in Nat
    BY <1>2 DEF Superblock, Files, RootInv, TypeOK
  <2> QED
    BY <1>2, <1>5, <1>7, <2>1, <2>4, <2>5, <2>6 DEF Sound
<1> QED
  BY <1>4, <1>6, <1>7 DEF f

\* A created file is the one that the durable intent names.
LEMMA CreateFileKeeps ==
    ASSUME RootInv, CreateFile
    PROVE  RootInv'
<1> DEFINE f == pending(root)
<1>1. /\ phase = "create" /\ phase \in Serves
      /\ UNCHANGED <<media, root, file, served, retired, exposed, damage>>
  BY DEF CreateFile, Serves
<1>2. CASE /\ NoFault /\ phase' = "publish"
           /\ names' = names \cup {f} /\ durable' = durable \cup {f}
           /\ next' = [successor(root) EXCEPT !.last_id = f]
  <2>1. Sound(root)' /\ Sound(next)' /\ names' \subseteq Files /\ durable' \subseteq Files
    BY <1>1, <1>2, IntentFile
  <2> QED
    BY <1>1, <1>2, <2>1, HandOver
<1>3. CASE /\ Fault \/ NoFault
           /\ phase' = "fenced" /\ names' \in {names, names \cup {f}} /\ UNCHANGED <<durable, next>>
  <2>1. Sound(root)' /\ names' \subseteq Files /\ durable' \subseteq Files
    BY <1>1, <1>3, IntentFile
  <2> QED
    BY <1>1, <1>3, <2>1, FileFails
<1> QED
  BY <1>2, <1>3 DEF CreateFile, Fence

\* A reopened owner confirms the file only after its name is settled.
LEMMA TakeOverKeeps ==
    ASSUME RootInv, TakeOverIntent
    PROVE  RootInv'
<1> DEFINE f == pending(root)
<1>1. /\ phase = "takeover" /\ phase \in Serves
      /\ UNCHANGED <<media, root, file, served, retired, exposed, damage>>
  BY DEF TakeOverIntent, Serves
<1>2. CASE /\ NoFault /\ phase' = "publish"
           /\ names' = names \cup {f} /\ durable' = names'
           /\ next' = [successor(root) EXCEPT !.last_id = f]
  <2>1. Sound(root)' /\ Sound(next)' /\ names' \subseteq Files /\ durable' \subseteq Files
    BY <1>1, <1>2, IntentFile
  <2> QED
    BY <1>1, <1>2, <2>1, HandOver
<1>3. CASE /\ Fault /\ phase' = "fenced" /\ names' \in {names, names \cup {f}}
           /\ UNCHANGED <<durable, next>>
  <2>1. Sound(root)' /\ names' \subseteq Files /\ durable' \subseteq Files
    BY <1>1, <1>3, IntentFile
  <2> QED
    BY <1>1, <1>3, <2>1, FileFails
<1> QED
  BY <1>2, <1>3 DEF TakeOverIntent, Fence

\* An unlink waits for the synchronized root that records the file.
LEMMA UnlinkCheckKeeps ==
    ASSUME RootInv, NEW f \in Files, UnlinkCheck(f)
    PROVE  RootInv'
<1>1. /\ phase = "serving" /\ phase \in Serves /\ f \in root.garbage /\ root.generation < MaxGeneration
      /\ file' = f /\ Quiet /\ UNCHANGED <<root, next, damage>> /\ f \in 0 .. MaxFile
  BY DEF UnlinkCheck, Serves, Quiet, Files
<1>2. CASE Fault /\ SyncSlotsFails /\ Fence
  BY <1>1, <1>2, SyncFailsKeeps
<1>3. CASE NoFault /\ SyncSlots /\ phase' \in {"unlink", "fenced"}
  <2>1. MediaInv' /\ MediaTypes' /\ slots' = slots /\ stable' = slots
    BY <1>1, <1>3, SyncMedia
  <2>2. TypeOK'
    BY <1>1, <1>3, <2>1, FaultView DEF RootInv, TypeOK, MediaTypes, Phases, Quiet
  <2>3. CASE phase' = "fenced"
    BY <2>1, <2>2, <2>3, IdleKeeps
  <2>4. CASE phase' = "unlink"
    <3>1. OwnerSound'
      BY <1>1, <2>4 DEF RootInv, OwnerSound, Publishing, Told, Holding, Quiet, Sound, Current
    <3>2. SlotsFollow' /\ CopyKept'
      BY <1>1, <2>1, <2>4 DEF RootInv, SlotsFollow, CopyKept, Publishing, Told, Settled, Mirrored
    <3> QED
      BY <2>1, <2>2, <3>1, <3>2 DEF RootInv
  <2> QED
    BY <1>3, <2>3, <2>4
<1> QED
  BY <1>2, <1>3 DEF UnlinkCheck

\* The unlinked file is recorded garbage: no root needs it.
LEMMA UnlinkKeeps ==
    ASSUME RootInv, Unlink
    PROVE  RootInv'
<1>1. /\ phase = "unlink" /\ phase \in Serves
      /\ UNCHANGED <<media, root, file, served, retired, exposed, damage>>
  BY DEF Unlink, Serves
<1>2. /\ file \in root.garbage /\ root.generation < MaxGeneration /\ pending(root) = 0
  BY <1>1 DEF RootInv, OwnerSound
<1>3. /\ root \in Superblock /\ Sound(root) /\ root.next_id = root.last_id + 1
      /\ root.generation \in Nat /\ root.last_id \in Nat /\ slots = stable
      /\ served = root /\ Current(root) /\ stable["A"] # Unwritten
      /\ \A s \in Slots : IsValid(stable[s]) => stable[s] = root
  BY <1>1, <1>2, ServeView
<1>4. file \notin root.refs /\ file # root.last_id
  BY <1>2, <1>3 DEF Sound
<1>5. ASSUME names' \in {names, names \ {file}}, durable' \in {durable, durable \ {file}}
      PROVE  Sound(root)' /\ names' \subseteq Files /\ durable' \subseteq Files
  <2>1. names' \subseteq Files /\ durable' \subseteq Files
    BY <1>5 DEF RootInv, TypeOK
  <2>2. /\ names' \subseteq names /\ durable' \subseteq durable
        /\ root.refs \subseteq names' \cap durable'
        /\ root.last_id # 0 => root.last_id \in names' \cap durable'
    BY <1>3, <1>4, <1>5 DEF Sound
  <2>3. Sound(root)'
    BY <1>1, <1>3, <2>2 DEF Sound
  <2> QED
    BY <2>1, <2>3
<1>6. CASE /\ NoFault /\ names' = names \ {file} /\ durable' = durable \ {file}
           /\ phase' = "publish" /\ next' = [successor(root) EXCEPT !.garbage = @ \ {file}]
  <2>1. Sound(root)' /\ names' \subseteq Files /\ durable' \subseteq Files
    BY <1>5, <1>6
  <2>2. /\ next'.generation = root.generation + 1 /\ next'.next_id = root.next_id
        /\ next'.last_id = root.last_id /\ next'.refs = root.refs /\ next'.garbage = root.garbage \ {file}
        /\ next' = [root EXCEPT !.generation = root.generation + 1, !.garbage = root.garbage \ {file}]
    BY <1>3, <1>6 DEF successor, Superblock
  <2>3. next' \in Superblock
    <3>1. root.generation + 1 \in 0 .. MaxGeneration /\ root.garbage \ {file} \subseteq Files
      BY <1>2, <1>3, RootSlotsAssumption DEF Superblock
    <3>2. next' = [root EXCEPT !.generation = root.generation + 1, !.garbage = root.garbage \ {file}]
      BY <2>2
    <3> QED
      BY <1>3, <3>1, <3>2 DEF Superblock
  <2>4. next'.next_id = next'.last_id + 1 /\ next'.next_id # next'.last_id + 2
    BY <1>3, <2>2
  <2>5. root' = root /\ retired' = retired
    BY <1>1
  <2>6. retired \cap (names' \cup durable') \subseteq root.garbage \ {file}
    BY <1>3, <1>6 DEF Sound
  <2>7. Sound(next)'
    BY <2>1, <2>2, <2>3, <2>4, <2>5, <2>6 DEF Sound
  <2> QED
    BY <1>1, <1>6, <2>1, <2>7, HandOver
<1>7. CASE Fault /\ phase' = "fenced" /\ names' \in {names, names \ {file}} /\ UNCHANGED <<durable, next>>
  <2>1. Sound(root)' /\ names' \subseteq Files /\ durable' \subseteq Files
    BY <1>5, <1>7
  <2> QED
    BY <1>1, <1>7, <2>1, FileFails
<1>8. CASE Fault /\ phase' = "serving" /\ UNCHANGED <<names, durable, next>>
  <2>1. Sound(root)'
    BY <1>5, <1>8
  <2>2. MediaInv' /\ MediaTypes'
    BY <1>1, <2>1, FilesMedia
  <2>3. TypeOK'
    BY <1>1, <1>8, <2>2, FaultView DEF RootInv, TypeOK, MediaTypes, Phases
  <2>4. OwnerSound'
    BY <1>1, <1>2, <1>3, <1>8, <2>1 DEF OwnerSound, Publishing, Told, Holding, Current
  <2>5. SlotsFollow' /\ CopyKept'
    BY <1>1, <1>3, <1>8 DEF SlotsFollow, CopyKept, Publishing, Told, Settled, Mirrored, media
  <2> QED
    BY <2>2, <2>3, <2>4, <2>5 DEF RootInv
<1> QED
  BY <1>6, <1>7, <1>8 DEF Unlink, Fence, Publish

\* A restart forgets the owner, not the medium.
LEMMA RestartKeeps ==
    ASSUME RootInv, Restart
    PROVE  RootInv'
<1>1. /\ Quiet /\ UNCHANGED media /\ NoFault /\ phase' = "closed" /\ root' = genesis /\ next' = genesis
      /\ file' = 0 /\ UNCHANGED damage
  BY DEF Restart, Quiet
<1>2. MediaInv' /\ MediaTypes'
  BY <1>1, SameMedia
<1>3. TypeOK'
  BY <1>1, <1>2, ImageView, RootSlotsAssumption DEF RootInv, TypeOK, MediaTypes, Phases, NoFault, Quiet
<1> QED
  BY <1>1, <1>2, <1>3, IdleKeeps

\* A power loss leaves intact images that were there, and every file a root needs.
LEMMA PowerLossKeeps ==
    ASSUME RootInv, PowerLoss
    PROVE  RootInv'
<1>1. PICK x \in CrashOutcomes : slots' = x /\ stable' = x
  BY DEF PowerLoss
<1>2. PICK d \in SUBSET (names \cup durable) :
        names \cap durable \subseteq d /\ names' = d /\ durable' = d
  BY DEF PowerLoss
<1>3. /\ Fault /\ ordered' = {} /\ phase' = "closed" /\ root' = genesis /\ next' = genesis
      /\ file' = 0 /\ UNCHANGED <<served, retired, exposed, damage>>
  BY DEF PowerLoss
<1>4. /\ x = [s \in Slots |-> x[s]]
      /\ \A s \in Slots : x[s] \in {stable[s], slots[s], Invalid}
      /\ \A s \in Slots : IsValid(x[s]) => x[s] \in Written
  BY <1>1, LossView
<1>5. MediaTypes'
  <2>1. \A s \in Slots : x[s] \in Superblock \cup {Unwritten, Invalid}
    BY <1>4, SlotsView DEF RootInv
  <2> QED
    BY <1>1, <1>3, <1>4, <2>1 DEF MediaTypes
<1>6. TypeOK'
  <2>1. names' \subseteq Files /\ durable' \subseteq Files
    BY <1>2 DEF RootInv, TypeOK
  <2>2. faults' \in 0 .. MaxFaults
    BY <1>3, FaultView DEF RootInv
  <2> QED
    BY <1>3, <1>5, <2>1, <2>2, ImageView, RootSlotsAssumption DEF RootInv, TypeOK, MediaTypes, Phases
<1>7. ImagesCurrent'
  <2>1. Written' \subseteq Written
    BY <1>1, <1>4 DEF Written
  <2>2. \A v \in Written : v.generation # 0 /\ Sound(v)' /\ Current(v)'
    <3>1. SUFFICES ASSUME NEW v \in Written PROVE v.generation # 0 /\ Sound(v)' /\ Current(v)'
      OBVIOUS
    <3>2. v.generation # 0 /\ Sound(v) /\ Current(v)
      BY DEF RootInv, MediaInv, ImagesCurrent
    <3>3. Sound(v)'
      BY <1>2, <1>3, <3>2 DEF Sound
    <3> QED
      BY <1>3, <3>2, <3>3 DEF Current
  <2>3. \A v, w \in Written : v = w \/ v = served' \/ w = served'
    BY <1>3 DEF RootInv, MediaInv, ImagesCurrent
  <2> QED
    BY <2>1, <2>2, <2>3 DEF ImagesCurrent
<1>8. UnbornIsEmpty'
  <2>1. x["A"] = Unwritten => stable["A"] = Unwritten
    BY <1>4, SlotView, ImageView DEF RootInv, MediaInv, UnbornIsEmpty
  <2> QED
    BY <1>1, <1>2, <1>3, <2>1 DEF RootInv, MediaInv, UnbornIsEmpty
<1>9. SomeRootSurvives'
  <2>1. CrashOutcomes' = Outcomes(x, x, {})
    BY <1>1, <1>3, OutcomesAre
  <2>2. CrashOutcomes' = {x}
    BY <1>4, <2>1, OutcomesView
  <2> QED
    BY <1>1, <1>3, <2>2 DEF RootInv, MediaInv, SomeRootSurvives, Survives
<1> QED
  BY <1>3, <1>6, <1>7, <1>8, <1>9, IdleKeeps DEF MediaInv

\* Damage of one copy that has an intact mirror loses no root.
LEMMA DamageMedia ==
    ASSUME RootInv, NEW s \in Slots, Damage(s)
    PROVE  /\ MediaInv' /\ MediaTypes'
           /\ slots[s] = stable[s] /\ IsValid(stable[s])
           /\ slots'[s] = Invalid /\ stable'[s] = Invalid
           /\ slots'[other(s)] = slots[other(s)] /\ stable'[other(s)] = stable[other(s)]
           /\ UNCHANGED <<names, durable, phase, root, next, file, served, retired, ordered>>
           /\ ~exposed' => /\ ~exposed /\ phase # "first" /\ slots = stable
                           /\ IsValid(stable[other(s)]) /\ CrashOutcomes' = {slots'}
<1>1. /\ IsValid(stable[s]) /\ slots[s] = stable[s]
      /\ slots' = [slots EXCEPT ![s] = Invalid]
      /\ stable' = [stable EXCEPT ![s] = Invalid]
      /\ UNCHANGED <<names, durable, phase, root, next, file, served, retired, ordered>>
      /\ ~exposed' => ~exposed /\ phase # "first" /\ other(s) \notin PendingSlots /\ IsValid(stable[other(s)])
  BY DEF Damage, PendingSlots
<1>2. /\ slots = [t \in Slots |-> slots[t]] /\ stable = [t \in Slots |-> stable[t]]
      /\ \A t \in Slots : /\ slots[t] \in Superblock \cup {Unwritten, Invalid}
                          /\ stable[t] \in Superblock \cup {Unwritten, Invalid}
      /\ ordered \in SUBSET Slots
      /\ other(s) \in Slots /\ other(s) # s /\ other(other(s)) = s
      /\ \A t \in Slots : t = s \/ t = other(s)
  BY SlotsView, SlotView DEF RootInv
<1>3. /\ slots'[s] = Invalid /\ stable'[s] = Invalid
      /\ slots'[other(s)] = slots[other(s)] /\ stable'[other(s)] = stable[other(s)]
  BY <1>1, <1>2
<1>4. MediaTypes'
  <2>1. PendingSlots' = PendingSlots
    BY <1>1, <1>2, <1>3 DEF PendingSlots
  <2> QED
    BY <1>1, <1>2, <2>1 DEF MediaTypes, RootInv, TypeOK
<1>5. Written' \subseteq Written
  BY <1>2, <1>3, ImageView DEF Written
<1>6. ImagesCurrent'
  BY <1>1, <1>5 DEF RootInv, MediaInv, ImagesCurrent, Sound, Current
<1>7. UnbornIsEmpty'
  <2>1. /\ slots'["A"] = Unwritten => slots["A"] = Unwritten /\ stable'["A"] = stable["A"]
        /\ stable'["A"] = Unwritten => stable["A"] = Unwritten
    BY <1>2, <1>3, SlotView, ImageView
  <2> QED
    BY <1>1, <2>1 DEF RootInv, MediaInv, UnbornIsEmpty
<1>8. ~exposed' => /\ slots = stable /\ CrashOutcomes' = {slots'} /\ Survives(slots')
  <2>1. SUFFICES ASSUME ~exposed' PROVE slots = stable /\ CrashOutcomes' = {slots'} /\ Survives(slots')
    OBVIOUS
  <2>2. slots[other(s)] = stable[other(s)] /\ IsValid(stable[other(s)])
    BY <1>1, <1>2, <2>1 DEF PendingSlots
  <2>3. slots = stable
    BY <1>1, <1>2, <2>2
  <2>4. slots' = stable' /\ slots' = [t \in Slots |-> slots'[t]] /\ ordered' \in SUBSET Slots
    BY <1>1, <1>2, <2>3
  <2>5. CrashOutcomes' = Outcomes(slots', slots', ordered')
    BY <2>4, OutcomesAre
  <2>6. CrashOutcomes' = {slots'}
    BY <2>4, <2>5, OutcomesView
  <2>7. select_root_images(slots').kind = "Selected"
    BY <1>2, <1>3, <2>2, SelectCopy
  <2> QED
    BY <2>3, <2>6, <2>7 DEF Survives
<1>9. SomeRootSurvives'
  BY <1>1, <1>8 DEF SomeRootSurvives, Survives
<1> QED
  BY <1>1, <1>3, <1>4, <1>6, <1>7, <1>8, <1>9 DEF MediaInv

\* Damage exposes the group wherever a publication counts on the damaged copy.
LEMMA DamageKeeps ==
    ASSUME RootInv, NEW s \in Slots, Damage(s)
    PROVE  RootInv'
<1>1. /\ MediaInv' /\ MediaTypes'
      /\ slots[s] = stable[s] /\ IsValid(stable[s])
      /\ slots'[s] = Invalid /\ stable'[s] = Invalid
      /\ slots'[other(s)] = slots[other(s)] /\ stable'[other(s)] = stable[other(s)]
      /\ UNCHANGED <<names, durable, phase, root, next, file, served, retired, ordered>>
      /\ ~exposed' => /\ ~exposed /\ phase # "first" /\ slots = stable /\ IsValid(stable[other(s)])
  BY DamageMedia
<1>2. /\ first' = first /\ second' = second
  BY <1>1 DEF first, second
<1>3. TypeOK'
  <2>1. damage' \in 0 .. MaxDamage /\ faults' = faults
    BY RootSlotsAssumption DEF RootInv, TypeOK, Damage, NoFault
  <2>2. exposed' \in BOOLEAN
    BY DEF Damage, RootInv, TypeOK
  <2> QED
    BY <1>1, <2>1, <2>2 DEF RootInv, TypeOK, MediaTypes
<1>4. OwnerSound'
  BY <1>1 DEF RootInv, OwnerSound, Sound, Current, is_successor
<1>5. /\ other(s) \in Slots /\ \A t \in Slots : t = s \/ t = other(s)
      /\ first \in Slots /\ second \in Slots /\ second = other(first) /\ first # second
      /\ slots = [t \in Slots |-> slots[t]] /\ stable = [t \in Slots |-> stable[t]]
      /\ slots' = [t \in Slots |-> slots'[t]] /\ stable' = [t \in Slots |-> stable'[t]]
  BY <1>1, SlotsView, SlotView DEF RootInv, MediaTypes
<1>6. phase \in {"order", "second", "sync"} => s # first
  <2>1. phase \in {"order", "second", "sync"} => slots[first] = next /\ stable[first] # next
    BY <1>5, NextView DEF RootInv, SlotsFollow, Publishing
  <2> QED
    BY <1>1, <2>1
<1>7. SlotsFollow'
  <2>1. phase \in Settled => slots' = stable'
    BY <1>1, <1>5 DEF RootInv, SlotsFollow
  <2>2. phase \in Mirrored => stable'["A"] # Unwritten
    BY <1>1, <1>5, SlotView, ImageView DEF RootInv, SlotsFollow
  <2>3. phase \in {"sync", "repair_sync"} => slots'["A"] # Unwritten
    BY <1>1, <1>5, SlotView, ImageView DEF RootInv, SlotsFollow
  <2>4. phase \in Told \cup {"opened"} => \A t \in Slots : IsValid(stable'[t]) => stable'[t] = root
    BY <1>1, <1>5, ImageView DEF RootInv, SlotsFollow
  <2>5. phase \in {"repair_sync", "restore_sync"} => \A t \in Slots : IsValid(slots'[t]) => slots'[t] = root
    BY <1>1, <1>5, ImageView DEF RootInv, SlotsFollow
  <2>6. phase \in {"restore", "restore_sync"} => ~IsValid(stable'[second]) /\ s # second
    BY <1>1, <1>5, ImageView DEF RootInv, SlotsFollow
  <2>7. phase = "restore_sync" => slots'[second] = root
    BY <1>1, <1>5, <2>6 DEF RootInv, SlotsFollow
  <2>8. phase \in {"order", "second", "sync"} => slots'[first] = next
    BY <1>1, <1>5, <1>6 DEF RootInv, SlotsFollow
  <2>9. phase \in {"order", "second"} => slots'[second] = stable'[second]
    BY <1>1, <1>5, <1>6 DEF RootInv, SlotsFollow
  <2>10. phase = "sync" => slots'[second] = next
    <3>1. phase = "sync" => slots[second] = next /\ stable[second] # next
      BY <1>5, NextView DEF RootInv, SlotsFollow, Publishing
    <3> QED
      BY <1>1, <1>5, <3>1
  <2> QED
    BY <1>1, <1>2, <2>1, <2>2, <2>3, <2>4, <2>5, <2>6, <2>7, <2>8, <2>9, <2>10 DEF SlotsFollow
<1>8. CopyKept'
  <2>1. SUFFICES ASSUME ~exposed' PROVE CopyKept'
    BY DEF CopyKept
  <2>2. ~exposed /\ phase # "first" /\ slots = stable /\ IsValid(stable[other(s)])
    BY <1>1, <2>1
  <2>3. phase \notin {"first", "order", "second"}
    <3>1. phase \in {"order", "second"} => slots[first] = next /\ stable[first] # next
      BY <1>5, NextView DEF RootInv, SlotsFollow, Publishing
    <3> QED
      BY <2>2, <3>1
  <2>4. phase \notin {"restore", "restore_sync"}
    <3>1. phase \in {"restore", "restore_sync"} => ~IsValid(stable[second])
      BY DEF RootInv, SlotsFollow
    <3> QED
      BY <1>1, <1>5, <2>2, <3>1
  <2> QED
    BY <1>1, <2>3, <2>4 DEF CopyKept
<1> QED
  BY <1>1, <1>3, <1>4, <1>7, <1>8 DEF RootInv

\* Every step keeps the invariant.
LEMMA NextKeeps == RootInv /\ [Next]_vars => RootInv'
<1> SUFFICES ASSUME RootInv, [Next]_vars PROVE RootInv'
  OBVIOUS
<1>1. CASE OwnerStep
  <2>1. CASE Create
    BY <2>1, CreateKeeps
  <2>2. CASE Open
    BY <2>2, OpenKeeps
  <2>3. CASE OpenCorrupt
    BY <2>3, OpenFailsKeeps
  <2>4. CASE RepairWrite
    BY <2>4, RepairWriteKeeps
  <2>5. CASE RepairSync
    BY <2>5, RepairSyncKeeps
  <2>6. CASE Opened
    BY <2>6, OpenedKeeps
  <2>7. CASE PublishStart
    BY <2>7, PublishStartKeeps
  <2>8. CASE PublishRestore
    BY <2>8, PublishRestoreKeeps
  <2>9. CASE PublishRestoreSync
    BY <2>9, PublishRestoreSyncKeeps
  <2>10. CASE PublishFirst
    BY <2>10, PublishFirstKeeps
  <2>11. CASE PublishOrder
    BY <2>11, PublishOrderKeeps
  <2>12. CASE PublishSecond
    BY <2>12, PublishSecondKeeps
  <2>13. CASE PublishSync
    BY <2>13, PublishSyncKeeps
  <2>14. CASE CreateFile
    BY <2>14, CreateFileKeeps
  <2>15. CASE TakeOverIntent
    BY <2>15, TakeOverKeeps
  <2>16. CASE Unlink
    BY <2>16, UnlinkKeeps
  <2>17. CASE Restart
    BY <2>17, RestartKeeps
  <2> QED
    BY <1>1, <2>1, <2>2, <2>3, <2>4, <2>5, <2>6, <2>7, <2>8, <2>9, <2>10, <2>11, <2>12, <2>13,
       <2>14, <2>15, <2>16, <2>17 DEF OwnerStep
<1>2. CASE OpenSyncFails
  BY <1>2, OpenFailsKeeps
<1>3. CASE Reserve
  BY <1>3, ReserveKeeps
<1>4. ASSUME NEW refs \in SUBSET Files, InstallDirectory(refs) PROVE RootInv'
  BY <1>4, InstallKeeps
<1>5. ASSUME NEW f \in Files, Retire(f) PROVE RootInv'
  BY <1>5, RetireKeeps
<1>6. ASSUME NEW f \in Files, UnlinkCheck(f) PROVE RootInv'
  BY <1>6, UnlinkCheckKeeps
<1>7. CASE PowerLoss
  BY <1>7, PowerLossKeeps
<1>8. ASSUME NEW s \in Slots, Damage(s) PROVE RootInv'
  BY <1>8, DamageKeeps
<1>9. CASE UNCHANGED vars
  <2>1. Quiet /\ UNCHANGED media /\ UNCHANGED <<phase, root, next, file, faults, damage>>
    BY <1>9 DEF vars, media, Quiet
  <2>2. MediaInv' /\ MediaTypes'
    BY <2>1, SameMedia
  <2>3. TypeOK'
    BY <1>9, <2>2 DEF vars, RootInv, TypeOK, MediaTypes
  <2>4. OwnerSound'
    BY <2>1 DEF Quiet, RootInv, OwnerSound, Sound, Current, is_successor
  <2>5. first' = first /\ second' = second
    BY <2>1 DEF first, second
  <2>6. SlotsFollow' /\ CopyKept'
    BY <2>1, <2>5 DEF Quiet, media, RootInv, SlotsFollow, CopyKept, FallBack
  <2> QED
    BY <2>2, <2>3, <2>4, <2>6 DEF RootInv
<1> QED
  BY <1>1, <1>2, <1>3, <1>4, <1>5, <1>6, <1>7, <1>8, <1>9 DEF Next

\* The invariant of the two slots and their owner, in every reachable state.
THEOREM RootInvariant == Spec => []RootInv
BY InitKeeps, NextKeeps, PTL DEF Spec

----------------------------------------------------------------------------
(* Whatever root is found can be used *)

\* The selections of intact images.
LEMMA SelectionsView ==
    ASSUME RootInv, NEW sel \in DamagedSelections, sel.kind = "Selected"
    PROVE  sel.superblock \in Written
<1>1. CASE sel \in CrashSelections
  <2>1. PICK x \in CrashOutcomes : sel = select_root_images(x)
    BY <1>1 DEF CrashSelections
  <2> QED
    BY <2>1, LossView, SelectView
<1>2. CASE sel \notin CrashSelections
  <2>1. PICK x \in CrashOutcomes, s \in Slots : sel = select_root_images([x EXCEPT ![s] = Invalid])
    BY <1>2 DEF DamagedSelections
  <2> DEFINE y == [x EXCEPT ![s] = Invalid]
  <2>2. sel.slot \in Slots /\ IsValid(sel.superblock) /\ y[sel.slot] = sel.superblock
    BY <2>1, SelectView
  <2>3. x = [t \in Slots |-> x[t]] /\ \A t \in Slots : IsValid(x[t]) => x[t] \in Written
    BY LossView
  <2>4. y[sel.slot] \in {x[sel.slot], Invalid}
    BY <2>2, <2>3
  <2> QED
    BY <2>2, <2>3, <2>4, ImageView
<1> QED
  BY <1>1, <1>2

\* The invariant says what a reopen may rely on.
LEMMA Usable == RootInv => AnyRootFoundIsUsable
<1> SUFFICES ASSUME RootInv PROVE AnyRootFoundIsUsable
  OBVIOUS
<1>1. ASSUME NEW sel \in DamagedSelections, sel.kind = "Selected"
      PROVE  /\ sel.superblock \in Superblock /\ Sound(sel.superblock) /\ Current(sel.superblock)
  BY <1>1, SelectionsView DEF RootInv, MediaInv, ImagesCurrent, Sound
<1>2. CrashSelections \subseteq DamagedSelections
  BY DEF DamagedSelections
<1>3. NeverRollsBack
  <2>1. SUFFICES ASSUME NEW sel \in DamagedSelections, sel.kind = "Selected"
                 PROVE  sel.superblock = served \/ sel.superblock.generation > served.generation
    BY DEF NeverRollsBack
  <2>2. sel.superblock \in Superblock /\ Current(sel.superblock)
    BY <1>1, <2>1
  <2>3. sel.superblock.generation \in Nat /\ served.generation \in Nat
    BY <2>2 DEF RootInv, TypeOK, Superblock
  <2> QED
    BY <2>2, <2>3 DEF Current, is_successor
<1>4. IntactRootSurvives
  BY DEF RootInv, MediaInv, SomeRootSurvives, Survives, IntactRootSurvives, CrashSelections
<1>5. NeededFilesArePresent
  BY <1>1 DEF NeededFilesArePresent, Sound
<1>6. NamesAreAllocated
  <2>1. SUFFICES ASSUME NEW sel \in CrashSelections, sel.kind # "Corrupt", NEW f \in names \cup durable
                 PROVE  classify(sel.superblock, f) # "Unexpected"
    BY DEF NamesAreAllocated
  <2>2. PICK x \in CrashOutcomes : sel = select_root_images(x)
    BY DEF CrashSelections
  <2>3. CASE sel.kind = "Selected"
    <3>1. Sound(sel.superblock) /\ f \in Nat /\ sel.superblock.next_id \in Nat
      BY <1>1, <1>2, <2>3 DEF RootInv, TypeOK, Files, Sound, Superblock
    <3>2. f < sel.superblock.next_id
      BY <3>1 DEF Sound
    <3>3. ~(f >= sel.superblock.next_id)
      BY <3>1, <3>2
    <3> QED
      BY <3>3 DEF classify
  <2>4. CASE sel.kind = "Empty"
    <3>1. x["A"] = Unwritten
      BY <2>2, <2>4, SelectView
    <3>2. stable["A"] = Unwritten
      BY <3>1, LossView, SlotView, ImageView DEF RootInv, MediaInv, UnbornIsEmpty
    <3> QED
      BY <2>1, <3>2 DEF RootInv, MediaInv, UnbornIsEmpty
  <2> QED
    BY <2>1, <2>2, <2>3, <2>4, SelectView
<1>7. ForgottenFilesAreGone
  BY <1>1, <1>2 DEF ForgottenFilesAreGone, Sound
<1> QED
  BY <1>3, <1>4, <1>5, <1>6, <1>7 DEF AnyRootFoundIsUsable, RootInv

\* Whatever root a power loss leaves, at any point of a publication, a repair or an
\* unlink and after any damage, is the newest one that was told or its successor,
\* finds its files and knows all others; one is found unless the only copy was damaged.
THEOREM FoundRootsAreUsable == Spec => []AnyRootFoundIsUsable
BY RootInvariant, Usable, PTL

----------------------------------------------------------------------------
(* The slots implement one durable register *)

Possible == {sel.superblock : sel \in CrashSelections}

\* What a reopen may find, from the media a power loss may leave.
LEMMA PossibleIs ==
    /\ Possible = {select_root_images(x).superblock : x \in CrashOutcomes}
    /\ Possible' = {select_root_images(x).superblock : x \in CrashOutcomes'}
BY DEF Possible, CrashSelections

\* A step of the register for each kind of step of the slots.
Settles == Possible' \subseteq Possible /\ Possible' # {} /\ UNCHANGED <<served, damage, exposed>>
Begins == /\ \E p \in Possible, n \in Possible' :
                Possible = {p} /\ is_successor(p, n) /\ Possible' = {p, n}
          /\ UNCHANGED <<served, damage, exposed>>
Tells == Possible' = {served'} /\ served' \in Possible /\ UNCHANGED <<damage, exposed>>
Suffers == /\ damage' = damage + 1 /\ served' = served
           /\ Possible' = Possible \/ Possible' = {served} \/ exposed'

\* Each of them is a step of the register under the refinement mapping.
LEMMA RegisterStep ==
    ASSUME Suffers \/ (~exposed /\ (Settles \/ Begins \/ Tells)) \/ (exposed /\ exposed')
    PROVE  Register!Next
BY DEF Register!Next, Register!Damaged, Register!Begin, Register!Settle, Register!Tell,
       Possible, Settles, Begins, Tells, Suffers

\* A step that touches no slot and tells nobody.
LEMMA SameSettles ==
    ASSUME RootInv, UNCHANGED media, UNCHANGED <<served, damage, exposed>>
    PROVE  Settles
<1>1. CrashOutcomes' = CrashOutcomes
  BY DEF media, CrashOutcomes, PendingSlots
<1>2. slots \in CrashOutcomes
  BY LossView
<1> QED
  BY <1>1, <1>2, PossibleIs DEF Settles

\* A synchronization, or a power loss, leaves one of the possible roots.
LEMMA OneSettles ==
    ASSUME NEW x \in CrashOutcomes, CrashOutcomes' = {x}, UNCHANGED <<served, damage, exposed>>
    PROVE  Settles
BY PossibleIs DEF Settles

\* A synchronization decides for what a read returns.
LEMMA SyncSettles ==
    ASSUME RootInv, SyncSlots, UNCHANGED <<served, damage, exposed>>
    PROVE  Settles /\ CrashOutcomes' = {slots}
<1>1. slots = [s \in Slots |-> slots[s]] /\ slots \in CrashOutcomes
  BY SlotsView, LossView DEF RootInv
<1>2. CrashOutcomes' = Outcomes(slots, slots, {})
  BY OutcomesAre DEF SyncSlots
<1>3. CrashOutcomes' = {slots}
  BY <1>1, <1>2, OutcomesView
<1> QED
  BY <1>1, <1>3, OneSettles

\* A write is among the media that a power loss may leave.
LEMMA WriteOutcomes ==
    ASSUME RootInv, NEW t \in Slots, NEW r, NEW i, Writes(t, r, i)
    PROVE  stable \in CrashOutcomes'
<1>1. stable = [s \in Slots |-> stable[s]] /\ ordered \in SUBSET Slots
  BY SlotsView DEF RootInv
<1>2. CrashOutcomes' = Outcomes(slots', stable, ordered \ {t})
  BY OutcomesAre DEF Writes
<1> QED
  BY <1>1, <1>2, StableOutcome

\* The repair writes the one root that can be found.
LEMMA RepairWriteSettles ==
    ASSUME RootInv, RepairWrite, ~exposed
    PROVE  Settles
<1>1. phase = "repair" /\ Quiet /\ UNCHANGED <<served, damage, exposed>>
  BY DEF RepairWrite, Quiet
<1>2. CASE UNCHANGED media
  BY <1>1, <1>2, SameSettles
<1>3. CASE /\ read_selection.kind = "Selected" /\ read_selection.superblock = root
           /\ \/ WriteSlot(other(read_selection.slot), root)
              \/ WriteSlotFails(other(read_selection.slot), root)
  <2> DEFINE t == other(read_selection.slot)
  <2>1. t \in Slots
    BY <1>3, SelectView, SlotView DEF read_selection
  <2>2. \E i : Writes(t, root, i)
    BY <1>3, <2>1, WritesAre DEF RootInv
  <2>3. PICK i : Writes(t, root, i)
    BY <2>2
  <2>4. \A x \in CrashOutcomes' : select_root_images(x).superblock = root
    BY <1>1, <1>3, <2>3, RepairMedia
  <2>5. stable \in CrashOutcomes'
    BY <2>1, <2>3, WriteOutcomes
  <2>6. slots \in CrashOutcomes
    BY LossView
  <2> QED
    BY <1>1, <1>3, <2>4, <2>5, <2>6, PossibleIs DEF Settles, read_selection
<1> QED
  BY <1>2, <1>3 DEF RepairWrite

\* So does the restored copy.
LEMMA RestoreSettles ==
    ASSUME RootInv, PublishRestore, ~exposed
    PROVE  Settles
<1>1. phase = "restore" /\ Quiet /\ UNCHANGED <<served, damage, exposed>>
  BY DEF PublishRestore, Quiet
<1>2. second \in Slots
  BY SlotsView DEF RootInv
<1>3. \E i : Writes(second, root, i)
  BY <1>2, WritesAre DEF RootInv, PublishRestore, second, first
<1>4. PICK i : Writes(second, root, i)
  BY <1>3
<1>5. \A x \in CrashOutcomes' : select_root_images(x).superblock = root
  BY <1>1, <1>4, RestoreMedia
<1>6. stable \in CrashOutcomes' /\ stable \in CrashOutcomes
  BY <1>2, <1>4, WriteOutcomes, LossView
<1> QED
  BY <1>1, <1>5, <1>6, PossibleIs DEF Settles

\* Before the first write only the predecessor can be found, then either.
LEMMA FirstBegins ==
    ASSUME RootInv, PublishFirst, ~exposed
    PROVE  Begins \/ Settles
<1>1. phase = "first" /\ UNCHANGED <<served, damage, exposed>>
  BY DEF PublishFirst
<1>2. /\ first \in Slots /\ second \in Slots /\ ordered \in SUBSET Slots
  BY SlotsView DEF RootInv
<1>3. slots = stable /\ CrashOutcomes = {slots}
  BY <1>1, LossView DEF RootInv, SlotsFollow, Settled
<1>4. stable[first] # next /\ is_successor(root, next)
  BY <1>1, <1>2, NextView DEF Publishing
<1>5. select_root_images(stable).superblock = root
  BY <1>1, <1>4, PairView
<1>6. Possible = {root}
  BY <1>3, <1>5, PossibleIs
<1>7. \E i : Writes(first, next, i)
  BY <1>2, WritesAre DEF RootInv, PublishFirst, first
<1>8. PICK i : Writes(first, next, i)
  BY <1>7
<1>9. \A x \in CrashOutcomes' : /\ x[second] = stable[second]
                                /\ x[first] \in {stable[first], next, Invalid}
  BY <1>1, <1>2, <1>8, FirstOutcomes DEF Writes
<1>10. \A x \in CrashOutcomes' : select_root_images(x).superblock \in {root, next}
  BY <1>1, <1>9, PairView
<1>11. stable \in CrashOutcomes'
  BY <1>2, <1>8, WriteOutcomes
<1>12. Possible' \subseteq {root, next} /\ root \in Possible'
  BY <1>5, <1>10, <1>11, PossibleIs
<1>13. CASE next \in Possible'
  BY <1>1, <1>4, <1>6, <1>12, <1>13 DEF Begins
<1>14. CASE next \notin Possible'
  BY <1>1, <1>6, <1>12, <1>14 DEF Settles
<1> QED
  BY <1>13, <1>14

\* While the first slot is written, both may be found.
LEMMA BothPossible ==
    ASSUME RootInv, phase \in {"order", "second"}, ~exposed
    PROVE  root \in Possible /\ next \in Possible
<1>1. first \in Slots
  BY SlotsView DEF RootInv
<1>2. /\ slots[second] = stable[second] /\ slots[first] = next /\ stable[first] # next
  BY <1>1, NextView DEF RootInv, SlotsFollow, Publishing
<1>3. select_root_images(slots).superblock = next /\ select_root_images(stable).superblock = root
  BY <1>2, PairView
<1> QED
  BY <1>3, LossView, PossibleIs

\* Ordering the writes only takes possibilities away.
LEMMA OrderSettles ==
    ASSUME RootInv, PublishOrder, ~exposed
    PROVE  Settles
<1>1. phase = "order" /\ UNCHANGED <<served, damage, exposed>>
  BY DEF PublishOrder
<1>2. CASE UNCHANGED media
  BY <1>1, <1>2, SameSettles
<1>3. CASE OrderSlots
  <2>1. /\ first \in Slots /\ slots = [s \in Slots |-> slots[s]] /\ stable = [s \in Slots |-> stable[s]]
    BY SlotsView DEF RootInv
  <2>2. /\ slots' = [slots EXCEPT ![first] = slots[first]] /\ stable' = stable /\ ordered' \in SUBSET Slots
    BY <1>3, <2>1 DEF OrderSlots, PendingSlots
  <2>3. \A x \in CrashOutcomes' : /\ x[second] = stable[second]
                                  /\ x[first] \in {stable[first], next, Invalid}
    BY <1>1, <2>2, FirstOutcomes
  <2>4. \A x \in CrashOutcomes' : select_root_images(x).superblock \in {root, next}
    BY <1>1, <2>3, PairView
  <2>5. stable \in CrashOutcomes'
    BY <2>1, <2>2, OutcomesAre, StableOutcome
  <2> QED
    BY <1>1, <2>4, <2>5, BothPossible, PossibleIs DEF Settles
<1> QED
  BY <1>2, <1>3 DEF PublishOrder

\* The second write adds no root to the two that can be found.
LEMMA SecondSettles ==
    ASSUME RootInv, PublishSecond, ~exposed
    PROVE  Settles
<1>1. phase = "second" /\ UNCHANGED <<served, damage, exposed>>
  BY DEF PublishSecond
<1>2. second \in Slots
  BY SlotsView DEF RootInv
<1>3. \E i : Writes(second, next, i)
  BY <1>2, WritesAre DEF RootInv, PublishSecond, second, first
<1>4. PICK i : Writes(second, next, i)
  BY <1>3
<1>5. \A x \in CrashOutcomes' : select_root_images(x).superblock \in {root, next}
  BY <1>1, <1>4, SecondOutcomes
<1>6. stable \in CrashOutcomes'
  BY <1>2, <1>4, WriteOutcomes
<1> QED
  BY <1>1, <1>5, <1>6, BothPossible, PossibleIs DEF Settles

\* A root is settled when it is told.
LEMMA SyncTells ==
    ASSUME RootInv, PublishSync, ~exposed
    PROVE  Tells \/ Settles
<1>1. phase = "sync" /\ UNCHANGED <<damage, exposed>>
  BY DEF PublishSync
<1>2. CASE SyncSlotsFails /\ UNCHANGED served
  BY <1>1, <1>2, SyncSettles, SameSettles DEF SyncSlotsFails
<1>3. CASE SyncSlots /\ served' = next
  <2>1. slots = [s \in Slots |-> slots[s]] /\ slots \in CrashOutcomes /\ first \in Slots /\ second = other(first)
    BY SlotsView, LossView DEF RootInv
  <2>2. CrashOutcomes' = {slots}
    BY <1>3, <2>1, OutcomesAre, OutcomesView DEF SyncSlots
  <2>3. slots[first] = next /\ slots[second] = next /\ IsValid(next)
    BY <1>1, NextView DEF RootInv, SlotsFollow, Publishing
  <2>4. select_root_images(slots).superblock = next
    BY <2>1, <2>3, SelectCopy
  <2> QED
    BY <1>1, <1>3, <2>1, <2>2, <2>4, PossibleIs DEF Tells
<1> QED
  BY <1>2, <1>3 DEF PublishSync

\* A reopened root is the only one that can be found when it is shown.
LEMMA OpenedTells ==
    ASSUME RootInv, Opened, ~exposed
    PROVE  Tells
<1>1. phase = "opened" /\ UNCHANGED <<damage, exposed>> /\ UNCHANGED media /\ served' = root
  BY DEF Opened
<1>2. /\ slots = stable /\ stable["A"] # Unwritten
      /\ \A s \in Slots : IsValid(stable[s]) => stable[s] = root
  BY <1>1 DEF RootInv, SlotsFollow, Settled, Mirrored
<1>3. CrashOutcomes = {slots} /\ CrashOutcomes' = CrashOutcomes
  BY <1>1, <1>2, LossView DEF media, CrashOutcomes, PendingSlots
<1>4. Survives(slots)
  BY <1>3 DEF RootInv, MediaInv, SomeRootSurvives
<1>5. select_root_images(slots).kind = "Selected"
  BY <1>2, <1>4, SelectView DEF Survives
<1>6. select_root_images(slots).superblock = root
  BY <1>2, <1>5, SelectView
<1> QED
  BY <1>1, <1>3, <1>6, PossibleIs DEF Tells

\* Of two successive images the newer one is selected.
LEMMA SelectNewer ==
    ASSUME NEW x, NEW s \in Slots, x[s] \in Superblock, x[other(s)] \in Superblock,
           is_successor(x[s], x[other(s)]), select_root_images(x).kind = "Selected"
    PROVE  select_root_images(x).superblock = x[other(s)]
<1> DEFINE o == x[s]
           n == x[other(s)]
<1>1. /\ n.generation \in Nat /\ o.generation \in Nat /\ n.generation = o.generation + 1
      /\ IsValid(o) /\ IsValid(n)
  BY ImageView DEF Superblock, is_successor
<1>2. /\ n.generation # o.generation /\ n.generation > o.generation /\ ~(o.generation > n.generation)
  BY <1>1
<1>3. select_root_images(x) = select_valid(x["A"], x["B"])
  BY <1>1, SlotView DEF select_root_images
<1>4. select_root_images(x) # Corrupt
  BY DEF Corrupt, NoRoot
<1>5. CASE s = "A"
  <2>1. x["A"] = o /\ x["B"] = n
    BY <1>5, SlotView
  <2>2. select_valid(o, n) = Selected(n, "B", FALSE) \/ select_valid(o, n) = Corrupt
    BY <1>2 DEF select_valid
  <2> QED
    BY <1>3, <1>4, <2>1, <2>2 DEF Selected
<1>6. CASE s = "B"
  <2>1. x["A"] = n /\ x["B"] = o
    BY <1>6, SlotView
  <2>2. select_valid(n, o) = Selected(n, "A", FALSE) \/ select_valid(n, o) = Corrupt
    BY <1>2 DEF select_valid
  <2> QED
    BY <1>3, <1>4, <2>1, <2>2 DEF Selected
<1> QED
  BY <1>5, <1>6, SlotView

\* What was told is found after the damage of a copy that has a mirror.
LEMMA DamageSuffers ==
    ASSUME RootInv, NEW s \in Slots, Damage(s)
    PROVE  Suffers
<1>1. damage' = damage + 1 /\ served' = served
  BY DEF Damage
<1>2. CASE exposed'
  BY <1>1, <1>2 DEF Suffers
<1>3. CASE ~exposed'
  <2>1. /\ slots = stable /\ IsValid(stable[s]) /\ IsValid(stable[other(s)]) /\ ~exposed
        /\ CrashOutcomes' = {slots'}
        /\ slots'[s] = Invalid /\ slots'[other(s)] = slots[other(s)]
    BY <1>3, DamageMedia
  <2>2. other(s) \in Slots /\ other(other(s)) = s /\ \A t \in Slots : t = s \/ t = other(s)
    BY SlotView
  <2>3. select_root_images(slots').superblock = slots[other(s)]
    BY <2>1, <2>2, SelectCopy
  <2>4. CrashOutcomes = {slots} /\ Survives(slots)
    BY <2>1, LossView DEF RootInv, MediaInv, SomeRootSurvives
  <2>5. select_root_images(slots).kind = "Selected"
    BY <2>1, <2>2, <2>4, SelectView, ImageView, SlotView DEF Survives
  <2>6. select_root_images(slots).superblock \in {slots[s], slots[other(s)]}
    BY <2>2, <2>5, SelectView
  <2>7. /\ slots[s] \in Written /\ slots[other(s)] \in Written
    BY <2>1, <2>2 DEF Written
  <2>8. /\ slots[s] = slots[other(s)] \/ slots[s] = served \/ slots[other(s)] = served
        /\ Current(slots[other(s)]) /\ slots[s] \in Superblock /\ slots[other(s)] \in Superblock
    BY <2>7 DEF RootInv, MediaInv, ImagesCurrent, Sound
  <2>9. CASE select_root_images(slots).superblock = slots[other(s)]
    BY <1>1, <2>1, <2>3, <2>4, <2>9, PossibleIs DEF Suffers
  <2>10. CASE slots[other(s)] = served
    BY <1>1, <2>1, <2>3, <2>10, PossibleIs DEF Suffers
  <2>11. CASE slots[s] = served /\ slots[other(s)] # served
    BY <2>5, <2>8, <2>9, <2>11, SelectNewer DEF Current
  <2>12. CASE slots[s] = slots[other(s)]
    BY <2>6, <2>9, <2>12
  <2> QED
    BY <2>8, <2>10, <2>11, <2>12
<1> QED
  BY <1>2, <1>3

\* Every step of the slots is a step of the register.
LEMMA NextImplements ==
    ASSUME RootInv, [Next]_vars
    PROVE  Register!Next
<1>1. ASSUME NEW s \in Slots, Damage(s) PROVE Register!Next
  BY <1>1, DamageSuffers, RegisterStep
<1>2. ASSUME ~\E s \in Slots : Damage(s) PROVE UNCHANGED <<damage, exposed>>
  BY <1>2 DEF Next, OwnerStep, vars, Create, Open, OpenCorrupt, OpenSyncFails, RepairWrite, RepairSync,
     Opened, PublishStart, PublishRestore, PublishRestoreSync, PublishFirst, PublishOrder,
     PublishSecond, PublishSync, CreateFile, TakeOverIntent, Unlink, Restart, Reserve,
     InstallDirectory, Retire, UnlinkCheck, PowerLoss
<1>3. SUFFICES ASSUME ~exposed, ~\E s \in Slots : Damage(s), UNCHANGED <<damage, exposed>>
               PROVE  Settles \/ Begins \/ Tells
  BY <1>1, <1>2, RegisterStep DEF RootInv, TypeOK
<1>4. CASE RepairWrite \/ PublishRestore \/ PublishFirst \/ PublishOrder \/ PublishSecond
             \/ PublishSync \/ Opened
  BY <1>3, <1>4, RepairWriteSettles, RestoreSettles, FirstBegins, OrderSettles, SecondSettles, SyncTells,
     OpenedTells
<1>5. CASE UNCHANGED vars \/ PublishStart \/ CreateFile \/ TakeOverIntent \/ Unlink \/ Restart \/ Reserve
             \/ (\E refs \in SUBSET Files : InstallDirectory(refs)) \/ (\E f \in Files : Retire(f))
  <2>1. UNCHANGED media /\ UNCHANGED served
    BY <1>5 DEF vars, media, PublishStart, CreateFile, TakeOverIntent, Unlink, Restart, Reserve,
       InstallDirectory, Retire
  <2> QED
    BY <1>3, <2>1, SameSettles
<1>6. CASE Create \/ Open \/ OpenCorrupt \/ OpenSyncFails \/ RepairSync \/ PublishRestoreSync
             \/ (\E f \in Files : UnlinkCheck(f))
  <2>1. (SyncSlots \/ UNCHANGED media) /\ UNCHANGED served
    BY <1>6 DEF Create, Open, OpenCorrupt, OpenSyncFails, RepairSync, PublishRestoreSync, UnlinkCheck,
       SyncSlotsFails
  <2> QED
    BY <1>3, <2>1, SameSettles, SyncSettles
<1>7. CASE PowerLoss
  <2>1. PICK x \in CrashOutcomes : slots' = x /\ stable' = x
    BY <1>7 DEF PowerLoss
  <2>2. ordered' = {} /\ UNCHANGED served /\ x = [s \in Slots |-> x[s]]
    BY <1>7, LossView DEF PowerLoss
  <2>3. CrashOutcomes' = {x}
    BY <2>1, <2>2, OutcomesAre, OutcomesView
  <2> QED
    BY <1>3, <2>2, <2>3, OneSettles
<1> QED
  BY <1>3, <1>4, <1>5, <1>6, <1>7 DEF Next, OwnerStep

\* At first there is no root.
LEMMA InitImplements == Init => Register!Init
<1> SUFFICES ASSUME Init PROVE Register!Init
  OBVIOUS
<1>1. /\ slots = [s \in Slots |-> Unwritten] /\ stable = slots /\ ordered = {}
      /\ served = genesis /\ exposed = FALSE /\ damage = 0
  BY DEF Init
<1>2. RootInv
  BY InitKeeps
<1>3. CrashOutcomes = {slots}
  BY <1>1, <1>2, LossView
<1>4. select_root_images(slots).superblock = genesis
  BY <1>1, SelectUnborn, SlotView, ImageView
<1>5. Possible = {genesis}
  BY <1>3, <1>4, PossibleIs
<1> QED
  BY <1>1, <1>5 DEF Register!Init, Possible

\* Publication, selection and repair implement one durable register: what was told
\* stays found through failed calls, power losses and damage that leaves a copy.
THEOREM SlotsImplementRegister == Spec => ImplementsRegister
<1>1. RootInv /\ [Next]_vars => [Register!Next]_Register!vars
  BY NextImplements
<1>2. Spec => Register!Init
  BY InitImplements DEF Spec
<1> QED
  BY <1>1, <1>2, RootInvariant, PTL DEF Spec, ImplementsRegister, Register!Spec
=============================================================================
