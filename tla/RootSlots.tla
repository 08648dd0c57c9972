------------------------------ MODULE RootSlots ------------------------------
(***************************************************************************)
(* The root file of one key-value group: two checksummed superblock slots, *)
(* the protocol that publishes a successor root through them, the selection*)
(* a reopen makes, the repair of a lost mirror, the create intents of files*)
(* and the unlink of recorded garbage (kasumi-kv root.rs, root_directory.rs*)
(* and the callers in disk_state.rs and disk_opening.rs).                  *)
(*                                                                         *)
(* The backend (group.rs) is modelled from the contract of its trait: a    *)
(* write is visible to reads at once and durable after a full              *)
(* synchronization; an ordering synchronization only promises that later   *)
(* writes do not overtake earlier ones; power loss keeps, loses or tears   *)
(* each write that was not synchronized; a name made or removed without its*)
(* parent's synchronization may or may not survive.                        *)
(*                                                                         *)
(* Simplifications: segments and directory arenas follow one identifier    *)
(* protocol and are one kind of file; a directory commit is the set of     *)
(* files its tree references; the group identity, the sealed record and    *)
(* the compaction record, which is_successor also compares, are constant.  *)
(***************************************************************************)
EXTENDS Naturals, FiniteSets

CONSTANTS MaxGeneration,  \* bound: publications in a behaviour
          MaxFile,        \* bound: file identifiers ever allocated
          MaxFaults,      \* bound: failed calls and power losses
          MaxDamage       \* bound: slots damaged at rest

ASSUME RootSlotsAssumption ==
    /\ MaxGeneration \in Nat \ {0} /\ MaxFile \in Nat
    /\ MaxFaults \in Nat /\ MaxDamage \in Nat

VARIABLES slots,    \* what a read of each slot returns
          stable,   \* what each slot holds on the medium
          ordered,  \* pending slot writes an ordering sync has passed
          names,    \* the files a listing shows
          durable,  \* the files whose names are on the medium
          phase,    \* where the owner's current call stands
          root,     \* the owner's superblock
          next,     \* the successor being published
          file,     \* the file being created or unlinked
          served,   \* the newest root a caller was told is durable
          retired,  \* every file a served root ever recorded as garbage
          exposed,  \* some slot was damaged while it had no intact mirror
          faults, damage

vars == <<slots, stable, ordered, names, durable, phase, root, next, file,
          served, retired, exposed, faults, damage>>

media == <<slots, stable, ordered>>
----------------------------------------------------------------------------
(* Superblocks and their transitions.                                      *)

Files == 1 .. MaxFile
Superblock == [generation : 0 .. MaxGeneration, next_id : 1 .. MaxFile + 1,
               last_id : 0 .. MaxFile, committed : BOOLEAN,
               refs : SUBSET Files, garbage : SUBSET Files]
genesis == [generation |-> 0, next_id |-> 1, last_id |-> 0,
            committed |-> FALSE, refs |-> {}, garbage |-> {}]

Unwritten == [generation |-> 0, image |-> "unwritten"]
Invalid   == [generation |-> 0, image |-> "invalid"]
IsValid(i) == i # Unwritten /\ i # Invalid

\* The identifier of an outstanding create intent, 0 for none.
pending(r) == IF r.next_id = r.last_id + 2 THEN r.next_id - 1 ELSE 0

successor(r) == [r EXCEPT !.generation = @ + 1]

is_successor(p, n) ==
    /\ n.generation = p.generation + 1
    /\ n.next_id >= p.next_id
    /\ n.last_id >= p.last_id
    /\ p.committed => n.committed

classify(r, f) == IF f >= r.next_id THEN "Unexpected"
                  ELSE IF f \in r.garbage THEN "Garbage"
                  ELSE IF f = pending(r) THEN "PendingCreate" ELSE "Live"

\* Under a directory commit, files older than the newest confirmed one that
\* its tree does not reference may be retired.
file_is_retirable(r, f) ==
    r.committed /\ f < r.last_id /\ f # pending(r) /\ f \notin r.refs

\* The census of a root accepts a listing: every file was allocated by it and
\* every file its directory needs is there.
census_accepts(r, listing) ==
    /\ \A f \in listing : classify(r, f) # "Unexpected"
    /\ r.refs \subseteq listing
----------------------------------------------------------------------------
(* Slots.                                                                  *)

Slots == {"A", "B"}
for_generation(g) == IF g % 2 = 0 THEN "A" ELSE "B"
other(s) == IF s = "A" THEN "B" ELSE "A"

NoRoot  == [kind |-> "Empty", superblock |-> genesis, slot |-> "A", mirrored |-> FALSE]
Corrupt == [NoRoot EXCEPT !.kind = "Corrupt"]
Selected(r, s, m) == [kind |-> "Selected", superblock |-> r, slot |-> s, mirrored |-> m]

\* Two intact images: one publication in both, or two successive ones of
\* which the newer sits in its own slot.
select_valid(a, b) ==
    LET newer == IF a.generation > b.generation THEN "A" ELSE "B"
        n == IF newer = "A" THEN a ELSE b
        o == IF newer = "A" THEN b ELSE a
    IN IF a.generation = b.generation
         THEN IF a = b THEN Selected(a, "A", TRUE) ELSE Corrupt
         ELSE IF /\ for_generation(n.generation) = newer
                 /\ is_successor(o, n)
                THEN Selected(n, newer, FALSE)
                ELSE Corrupt

select_root_images(img) ==
    LET a == img["A"]  b == img["B"]
    IN IF IsValid(a) /\ IsValid(b) THEN select_valid(a, b)
       ELSE IF IsValid(a) /\ b = Invalid THEN Selected(a, "A", FALSE)
       ELSE IF a = Invalid /\ IsValid(b) THEN Selected(b, "B", FALSE)
       ELSE IF a = Unwritten /\ IsValid(b) /\ b.generation = 1
              THEN Selected(b, "B", FALSE)
       ELSE IF a = Unwritten /\ ~IsValid(b) THEN NoRoot
       ELSE Corrupt

read_selection == select_root_images(slots)

PendingSlots == {s \in Slots : slots[s] # stable[s]}

\* The media a power loss may leave.
CrashOutcomes ==
    {x \in [Slots -> {slots[s] : s \in Slots} \cup {stable[s] : s \in Slots} \cup {Invalid}] :
        /\ \A s \in Slots : x[s] \in IF s \in PendingSlots
                                       THEN {stable[s], slots[s], Invalid}
                                       ELSE {stable[s]}
        /\ (\E s \in PendingSlots \ ordered : x[s] # stable[s])
              => \A s \in ordered : x[s] = slots[s]}

CrashSelections == {select_root_images(x) : x \in CrashOutcomes}
----------------------------------------------------------------------------
(* Backend calls.  A failed call may or may not have taken effect.         *)

\* write_root(s, r) succeeded.
WriteSlot(s, r) ==
    /\ slots' = [slots EXCEPT ![s] = r]
    /\ ordered' = ordered \ {s}
    /\ UNCHANGED stable

\* write_root(s, r) failed: nothing, all or part of the image was written.
WriteSlotFails(s, r) ==
    /\ \E i \in {slots[s], r, Invalid} : slots' = [slots EXCEPT ![s] = i]
    /\ ordered' = ordered \ {s}
    /\ UNCHANGED stable

SyncSlots ==
    /\ stable' = slots
    /\ ordered' = {}
    /\ UNCHANGED slots

SyncSlotsFails == SyncSlots \/ UNCHANGED media

OrderSlots ==
    /\ ordered' = PendingSlots
    /\ UNCHANGED <<slots, stable>>

Fault == faults < MaxFaults /\ faults' = faults + 1
NoFault == UNCHANGED faults

\* A failed call fences the owner: nothing more until the group is reopened.
Fence == phase' = "fenced"
----------------------------------------------------------------------------
Init ==
    /\ slots = [s \in Slots |-> Unwritten] /\ stable = slots /\ ordered = {}
    /\ names = {} /\ durable = {}
    /\ phase = "closed" /\ root = genesis /\ next = genesis /\ file = 0
    /\ served = genesis /\ retired = {}
    /\ exposed = FALSE /\ faults = 0 /\ damage = 0

(* Opening: select_root synchronizes first, so that what it selects        *)
(* survives a later power loss.                                            *)

\* The group holds no root: create publishes generation one.
Create ==
    /\ phase = "closed" /\ read_selection.kind = "Empty"
    /\ census_accepts(genesis, names)
    /\ SyncSlots
    /\ root' = genesis /\ next' = successor(genesis)
    /\ phase' = "publish"
    /\ NoFault
    /\ UNCHANGED <<names, durable, file, served, retired, exposed, damage>>

\* A root is selected and its census accepted.  One with a single intact copy
\* is mirrored before anything else.
Open ==
    /\ phase = "closed" /\ read_selection.kind = "Selected"
    /\ census_accepts(read_selection.superblock, names)
    /\ SyncSlots
    /\ root' = read_selection.superblock
    /\ next' = root'
    /\ phase' = IF read_selection.mirrored THEN "opened" ELSE "repair"
    /\ NoFault
    /\ UNCHANGED <<names, durable, file, served, retired, exposed, damage>>

\* No intact root, or a listing that does not belong to it: the group fails
\* closed.
OpenCorrupt ==
    /\ phase = "closed"
    /\ \/ read_selection.kind = "Corrupt"
       \/ ~census_accepts(read_selection.superblock, names)
    /\ SyncSlots
    /\ phase' = "corrupt"
    /\ NoFault
    /\ UNCHANGED <<names, durable, root, next, file, served, retired, exposed, damage>>

OpenSyncFails ==
    /\ phase = "closed" /\ Fault /\ SyncSlotsFails
    /\ Fence
    /\ UNCHANGED <<names, durable, root, next, file, served, retired, exposed, damage>>

\* As if the repair waited for a mirror that only it makes.
RepairWrite_NeedsMirror ==
    /\ phase = "repair" /\ read_selection.mirrored
    /\ NoFault /\ phase' = "repair_sync"
    /\ WriteSlot(other(read_selection.slot), root)
    /\ UNCHANGED <<names, durable, root, next, file, served, retired, exposed, damage>>

\* As if the repair copied the older slot over the newer one.
RepairWrite_Backwards ==
    /\ phase = "repair" /\ read_selection.kind = "Selected"
    /\ NoFault /\ phase' = "repair_sync"
    /\ IF IsValid(slots[other(read_selection.slot)])
         THEN WriteSlot(read_selection.slot, slots[other(read_selection.slot)])
         ELSE WriteSlot(other(read_selection.slot), root)
    /\ UNCHANGED <<names, durable, root, next, file, served, retired, exposed, damage>>

\* repair_mirror writes the slot that does not hold the selected root, if the
\* slots still select it.
RepairWrite ==
    /\ phase = "repair"
    /\ IF read_selection.kind = "Selected" /\ read_selection.superblock = root
         THEN \/ NoFault /\ phase' = "repair_sync"
                 /\ WriteSlot(other(read_selection.slot), root)
              \/ Fault /\ Fence
                 /\ WriteSlotFails(other(read_selection.slot), root)
         ELSE NoFault /\ Fence /\ UNCHANGED media
    /\ UNCHANGED <<names, durable, root, next, file, served, retired, exposed, damage>>

RepairSync ==
    /\ phase = "repair_sync"
    /\ \/ NoFault /\ SyncSlots /\ phase' = "opened"
       \/ Fault /\ SyncSlotsFails /\ Fence
    /\ UNCHANGED <<names, durable, root, next, file, served, retired, exposed, damage>>

\* The opened root may now be shown to callers; an outstanding create intent
\* is settled first.
Opened ==
    /\ phase = "opened"
    /\ phase' = IF pending(root) # 0 THEN "takeover" ELSE "serving"
    /\ served' = root /\ retired' = retired \cup root.garbage
    /\ NoFault
    /\ UNCHANGED <<media, names, durable, root, next, file, exposed, damage>>

(* publish: validation before any effect, then the slots one at a time.    *)

\* The slots must select exactly the predecessor.  When its only intact copy
\* is in the slot this publication writes first, the other copy is restored.
PublishStart ==
    LET sel == read_selection
        first == for_generation(next.generation)
    IN
    /\ phase = "publish"
    /\ phase' = IF /\ is_successor(root, next)
                   /\ \/ sel.kind = "Empty" /\ root.generation = 0
                      \/ sel.kind = "Selected" /\ sel.superblock = root
                  THEN IF sel.kind = "Selected" /\ ~sel.mirrored /\ sel.slot = first
                         THEN "restore" ELSE "first"
                  ELSE "fenced"
    /\ NoFault
    /\ UNCHANGED <<media, names, durable, root, next, file, served, retired, exposed, damage>>

PublishRestore ==
    LET s == other(for_generation(next.generation)) IN
    /\ phase = "restore"
    /\ \/ NoFault /\ WriteSlot(s, root) /\ phase' = "restore_sync"
       \/ Fault /\ WriteSlotFails(s, root) /\ Fence
    /\ UNCHANGED <<names, durable, root, next, file, served, retired, exposed, damage>>

PublishRestoreSync ==
    /\ phase = "restore_sync"
    /\ \/ NoFault /\ SyncSlots /\ phase' = "first"
       \/ Fault /\ SyncSlotsFails /\ Fence
    /\ UNCHANGED <<names, durable, root, next, file, served, retired, exposed, damage>>

PublishFirst ==
    LET s == for_generation(next.generation) IN
    /\ phase = "first"
    /\ \/ NoFault /\ WriteSlot(s, next) /\ phase' = "order"
       \/ Fault /\ WriteSlotFails(s, next) /\ Fence
    /\ UNCHANGED <<names, durable, root, next, file, served, retired, exposed, damage>>

PublishOrder ==
    /\ phase = "order"
    /\ \/ NoFault /\ OrderSlots /\ phase' = "second"
       \/ Fault /\ Fence /\ (OrderSlots \/ UNCHANGED media)
    /\ UNCHANGED <<names, durable, root, next, file, served, retired, exposed, damage>>

PublishSecond ==
    LET s == other(for_generation(next.generation)) IN
    /\ phase = "second"
    /\ \/ NoFault /\ WriteSlot(s, next) /\ phase' = "sync"
       \/ Fault /\ WriteSlotFails(s, next) /\ Fence
    /\ UNCHANGED <<names, durable, root, next, file, served, retired, exposed, damage>>

\* The last synchronization makes the root durable: the owner adopts it, and
\* a create intent it carries is acted on.
PublishSync ==
    /\ phase = "sync"
    /\ \/ /\ NoFault /\ SyncSlots
          /\ root' = next /\ served' = next /\ retired' = retired \cup next.garbage
          /\ phase' = IF pending(next) # 0 THEN "create" ELSE "serving"
       \/ Fault /\ SyncSlotsFails /\ Fence /\ UNCHANGED <<root, served, retired>>
    /\ UNCHANGED <<names, durable, next, file, exposed, damage>>

\* The owner hands publish a successor.
Publish(n) ==
    /\ n.generation <= MaxGeneration
    /\ next' = n
    /\ phase' = "publish"

(* The transitions a serving owner publishes.                              *)

\* reserve_segment / reserve_directory: a durable intent before the file.
Reserve ==
    /\ phase = "serving" /\ pending(root) = 0 /\ root.next_id <= MaxFile
    /\ root.generation + 2 <= MaxGeneration
    /\ Publish([successor(root) EXCEPT !.next_id = @ + 1])
    /\ NoFault
    /\ UNCHANGED <<media, names, durable, root, file, served, retired, exposed, damage>>

\* install_directory: the new tree references files of the old one and the
\* newest confirmed file.
InstallDirectory(refs) ==
    /\ phase = "serving" /\ root.last_id # 0
    /\ refs \subseteq root.refs \cup {root.last_id}
    /\ Publish([successor(root) EXCEPT !.refs = refs, !.committed = TRUE])
    /\ NoFault
    /\ UNCHANGED <<media, names, durable, root, file, served, retired, exposed, damage>>

\* retire_directory_files: proven unreachable files become garbage.
Retire(f) ==
    /\ phase = "serving" /\ file_is_retirable(root, f) /\ f \notin root.garbage
    /\ f \in names
    /\ Publish([successor(root) EXCEPT !.garbage = @ \cup {f}])
    /\ NoFault
    /\ UNCHANGED <<media, names, durable, root, file, served, retired, exposed, damage>>

(* Files.                                                                  *)

\* create and its parent synchronization; an occupied name is refused.
CreateFile ==
    LET f == pending(root) IN
    /\ phase = "create"
    /\ \/ /\ NoFault
          /\ IF f \in names
               THEN Fence /\ UNCHANGED <<names, durable, next>>
               ELSE /\ names' = names \cup {f} /\ durable' = durable \cup {f}
                    /\ next' = [successor(root) EXCEPT !.last_id = f]
                    /\ phase' = "publish"
       \/ /\ Fault /\ Fence /\ names' \in {names, names \cup {f}}
          /\ UNCHANGED <<durable, next>>
    /\ UNCHANGED <<media, root, file, served, retired, exposed, damage>>

\* As if a listed name needed no synchronization, and an absent one no file.
TakeOverIntent_TrustListing ==
    LET f == pending(root) IN
    /\ phase = "takeover" /\ phase' = "publish"
    /\ next' = [successor(root) EXCEPT !.last_id = f]
    /\ NoFault
    /\ UNCHANGED <<media, names, durable, root, file, served, retired, exposed, damage>>

\* A reopened owner finishes the intent: a present name is synchronized
\* before the root confirms it, an absent one is created.
TakeOverIntent ==
    LET f == pending(root) IN
    /\ phase = "takeover"
    /\ \/ /\ NoFault /\ phase' = "publish"
          /\ names' = names \cup {f} /\ durable' = names'
          /\ next' = [successor(root) EXCEPT !.last_id = f]
       \/ /\ Fault /\ Fence /\ names' \in {names, names \cup {f}}
          /\ UNCHANGED <<durable, next>>
    /\ UNCHANGED <<media, root, file, served, retired, exposed, damage>>

\* unlink_garbage: the recorded file's root must be selected from both slots
\* once the root file is synchronized.
UnlinkCheck(f) ==
    LET sel == read_selection IN
    /\ phase = "serving" /\ f \in root.garbage
    /\ root.generation < MaxGeneration
    /\ \/ /\ NoFault /\ SyncSlots
          /\ phase' = IF /\ sel.kind = "Selected" /\ sel.superblock = root
                         /\ sel.mirrored
                        THEN "unlink" ELSE "fenced"
       \/ Fault /\ SyncSlotsFails /\ Fence
    /\ file' = f
    /\ UNCHANGED <<names, durable, root, next, served, retired, exposed, damage>>

\* The unlink and its parent synchronization; then forget publishes the root
\* without the record.  StorageFull and WouldBlock have no effect and do not
\* fence.
Unlink ==
    /\ phase = "unlink"
    /\ \/ /\ NoFault
          /\ names' = names \ {file} /\ durable' = durable \ {file}
          /\ Publish([successor(root) EXCEPT !.garbage = @ \ {file}])
       \/ /\ Fault /\ Fence /\ names' \in {names, names \ {file}}
          /\ UNCHANGED <<durable, next>>
       \/ /\ Fault /\ phase' = "serving"
          /\ UNCHANGED <<names, durable, next>>
    /\ UNCHANGED <<media, root, file, served, retired, exposed, damage>>

(* Restart, power loss and damage.                                         *)

\* A restart without power loss: the cache of the operating system survives.
Restart ==
    /\ phase = "fenced"
    /\ phase' = "closed" /\ root' = genesis /\ next' = genesis /\ file' = 0
    /\ NoFault
    /\ UNCHANGED <<media, names, durable, served, retired, exposed, damage>>

PowerLoss ==
    /\ Fault /\ phase # "corrupt"
    /\ \E x \in CrashOutcomes : slots' = x /\ stable' = x
    /\ ordered' = {}
    /\ \E d \in SUBSET (names \cup durable) :
          /\ names \cap durable \subseteq d
          /\ names' = d /\ durable' = d
    /\ phase' = "closed" /\ root' = genesis /\ next' = genesis /\ file' = 0
    /\ UNCHANGED <<served, retired, exposed, damage>>

\* A settled slot is damaged on the medium.  The group is exposed when the
\* other slot is not a settled intact copy, or when a publication has already
\* counted on both copies.
Damage(s) ==
    /\ damage < MaxDamage /\ damage' = damage + 1
    /\ IsValid(stable[s]) /\ s \notin PendingSlots
    /\ slots' = [slots EXCEPT ![s] = Invalid]
    /\ stable' = [stable EXCEPT ![s] = Invalid]
    /\ exposed' = \/ exposed \/ phase = "first"
                  \/ other(s) \in PendingSlots \/ ~IsValid(stable[other(s)])
    /\ NoFault
    /\ UNCHANGED <<ordered, names, durable, phase, root, next, file, served, retired>>
----------------------------------------------------------------------------
OwnerStep ==
    \/ Create \/ Open \/ OpenCorrupt \/ RepairWrite \/ RepairSync \/ Opened
    \/ PublishStart \/ PublishRestore \/ PublishRestoreSync \/ PublishFirst
    \/ PublishOrder \/ PublishSecond \/ PublishSync
    \/ CreateFile \/ TakeOverIntent \/ Unlink \/ Restart

Next ==
    \/ OwnerStep \/ OpenSyncFails
    \/ Reserve
    \/ \E refs \in SUBSET Files : InstallDirectory(refs)
    \/ \E f \in Files : Retire(f) \/ UnlinkCheck(f)
    \/ PowerLoss
    \/ \E s \in Slots : Damage(s)

Spec == Init /\ [][Next]_vars

\* The owner's calls are synchronous and a fenced group is reopened by the
\* process that owns it: neither can be postponed for ever.
FairSpec == Spec /\ WF_vars(OwnerStep)
----------------------------------------------------------------------------
(* Properties.                                                             *)

Phases == {"closed", "repair", "repair_sync", "opened", "serving", "takeover",
           "create", "publish", "restore", "restore_sync", "first", "order",
           "second", "sync", "unlink", "fenced", "corrupt"}

\* Types of the state: images, phases, names and counters.
TypeOK ==
    /\ slots \in [Slots -> Superblock \cup {Unwritten, Invalid}]
    /\ stable \in [Slots -> Superblock \cup {Unwritten, Invalid}]
    /\ ordered \subseteq PendingSlots
    /\ names \subseteq Files /\ durable \subseteq Files
    /\ phase \in Phases
    /\ root \in Superblock /\ next \in Superblock /\ served \in Superblock
    /\ file \in 0 .. MaxFile /\ retired \subseteq Files
    /\ exposed \in BOOLEAN /\ faults \in 0 .. MaxFaults /\ damage \in 0 .. MaxDamage

\* What a reopen may find: the selections after a power loss now, and those
\* with either slot damaged as well.
DamagedSelections ==
    CrashSelections \cup
    {select_root_images([x EXCEPT ![s] = Invalid]) :
        x \in {y \in CrashOutcomes : \A t \in Slots : IsValid(y[t])}, s \in Slots}

\* A publication that publish_root acknowledged, or a root that a reopen
\* showed, is never followed by the selection of an older or a different root
\* of the same generation: not after a power loss at any point of a later
\* publication, a failed write, a repair or the damage of a slot.
NeverRollsBack ==
    \A sel \in DamagedSelections :
        sel.kind = "Selected" =>
            sel.superblock = served \/ sel.superblock.generation > served.generation

\* As long as no slot was damaged while it was the only intact copy, every
\* power loss leaves a selectable root; in particular the publication that
\* follows the loss of one copy never overwrites the other one first.
IntactRootSurvives ==
    ~exposed => \A sel \in CrashSelections :
                   sel.kind = "Selected" \/ (sel.kind = "Empty" /\ served = genesis)

\* No root that a power loss or the damage of one slot can bring back needs a
\* file that may be missing: not one whose unlink was attempted (unlink_garbage
\* waits until both slots hold the root that records it), nor one confirmed
\* while its name was still unsynchronized.
NeededFilesArePresent ==
    \A sel \in DamagedSelections :
        sel.kind = "Selected" => sel.superblock.refs \subseteq names \cap durable

\* A file appears only under a durable intent, so the census of whatever root
\* a power loss leaves never meets a file that the root did not allocate.
NamesAreAllocated ==
    \A sel \in CrashSelections :
        sel.kind # "Corrupt" =>
            \A f \in names \cup durable : classify(sel.superblock, f) # "Unexpected"

\* A garbage record is dropped only after its unlink and the parent's
\* synchronization: a retired file that may still be on the medium is recorded
\* as garbage by every root a reopen may select.
ForgottenFilesAreGone ==
    \A sel \in CrashSelections :
        sel.kind = "Selected" =>
            \A f \in retired \cap (names \cup durable) : f \in sel.superblock.garbage

\* Whatever root a power loss leaves can be used: it is the newest one anybody
\* was told of or a later one, its files are there, and it knows every other file.
AnyRootFoundIsUsable ==
    /\ TypeOK /\ NeverRollsBack /\ IntactRootSurvives
    /\ NeededFilesArePresent /\ NamesAreAllocated /\ ForgottenFilesAreGone

\* The slots behave as one durable register.
Register == INSTANCE DurableRoot WITH
    Empty <- genesis,
    Follows <- is_successor,
    possible <- {sel.superblock : sel \in CrashSelections},
    told <- served

\* Publication, selection and repair implement the durable register, through
\* failed calls, power losses, and damage that leaves an intact copy.
ImplementsRegister == Register!Spec

\* A group that is closed, by a fence or by a power loss, is served again
\* unless its only intact root was damaged: neither the repair nor a refused
\* publication leaves it waiting for ever.
ReopensEventually ==
    phase \in {"closed", "fenced"} ~> phase = "serving" \/ exposed
=============================================================================
