---------------------------- MODULE ReclaimProofs ----------------------------
(***************************************************************************)
(* No unlink takes a file that somebody still needs, and what a cohort     *)
(* concluded stays true until it is used: for any number of files, pins,   *)
(* commits, cycles and crashes.  This is the argument at the head of       *)
(* kasumi-kv's reclaim.rs.                                                 *)
(***************************************************************************)
EXTENDS Reclaim, FiniteSetTheorems, TLAPS

\* Nothing that a cohort of limits l may probe.
Above(l, f) == f.id >= l[f.kind]

\* The newest file of each kind and the log from the replay start on are there;
\* a cutoff, and whatever range was made from one, ends below the newest file.
FilesHeld ==
    /\ \A k \in Kinds : File(k, root.last[k]) \in files
    /\ \A k \in Kinds : root.cutoff[k] < root.last[k]
    /\ \A k \in Kinds : owed.limits[k] <= root.last[k]
    /\ \A k \in Kinds : cycle.limits[k] <= root.last[k]
    /\ root.start <= root.last["Segment"]
    /\ \A i \in root.start .. root.last["Segment"] : i = 0 \/ File("Segment", i) \in files

\* Every tree that somebody will read is whole.
TreesHeld ==
    /\ root.directory.refs \subseteq files /\ staged.refs \subseteq files
    /\ \A p \in Pins : pins[p].root.refs \subseteq files
    /\ root.phase = "Evacuating" => root.source.refs \subseteq files
    /\ cohort.stage \in {"Collecting", "Walking"} => \A r \in cohort.unwalked : r.refs \subseteq files

\* Recorded garbage is nobody's, is behind the log and the newest files, and is
\* dealt with by the cohort that proved it or by a reopen.
GarbageDead ==
    /\ mode # "corrupt"
    /\ root.garbage \cap root.directory.refs = {} /\ root.garbage \cap staged.refs = {}
    /\ \A p \in Pins : root.garbage \cap pins[p].root.refs = {}
    /\ \A f \in root.garbage :
         f.id < root.last[f.kind] /\ (f.kind = "Segment" => f.id < root.start)
    /\ root.garbage # {} => /\ root.phase # "Evacuating"
                            /\ cohort.stage \in {"None", "Draining"}
    /\ mode = "open" /\ root.garbage # {} =>
         cohort.stage = "Draining" /\ root.garbage \subseteq cohort.proofs

\* A commit being published takes its new references from above the active range.
StagedAbove ==
    /\ staged # NoDirectory => \A f \in staged.refs \ root.directory.refs : Above(cycle.limits, f)
    /\ mode = "opening" => cohort.stage = "None" /\ staged = NoDirectory

\* A tree of the active cohort's chain: nothing below the cohort's limits that R0
\* does not already reference.
Covered(r) == \A f \in r.refs : f \in cohort.r0.refs \/ Above(cycle.limits, f)

\* The chain of an active cohort is unbroken and ends at the selected root, and
\* every pin is one it captured or one taken on the chain.
ChainHolds ==
    /\ coverage.nonce <= nonce /\ \A p \in Pins : pins[p].stamp <= nonce
    /\ cohort.stage = "None" => cohort = NoCohort
    /\ cohort.stage # "None" =>
         /\ root.phase \in {"Idle", "Reclaiming"} /\ cycle.active /\ ~cohort.broken
         /\ cohort.nonce # 0 /\ cohort.nonce <= nonce
         /\ cohort.latest = root.directory
         /\ coverage = [nonce |-> cohort.nonce, root |-> root.directory]
         /\ Covered(root.directory)
         /\ \A p \in Live :
              \/ pins[p].root \in cohort.capture
              \/ pins[p].stamp = cohort.nonce
         /\ \A p \in Live : pins[p].stamp = cohort.nonce => Covered(pins[p].root)

\* What the walk of the captured trees has established so far.
WalkHolds ==
    /\ cohort.stage = "Collecting" => cohort.unwalked = cohort.capture \cup {cohort.r0}
    /\ cohort.stage = "Walking" =>
         \A r \in cohort.capture \cup {cohort.r0} :
            r \in cohort.unwalked \/ cohort.candidates \cap r.refs \subseteq referenced(cohort)
    /\ cohort.stage \in {"Walked", "Draining"} =>
         \A r \in cohort.capture \cup {cohort.r0} :
            cohort.candidates \cap r.refs \subseteq referenced(cohort)
    /\ cohort.stage # "Draining" => cohort.proofs = {}
    /\ cohort.proofs \subseteq cohort.candidates
    /\ \A f \in cohort.candidates : ~Above(cycle.limits, f)

\* Every file below the range's limits is still to be probed, has been kept, or is
\* with the active cohort; and none is below the floor.
CensusComplete ==
    /\ FloorHidesNothing
    /\ \A f \in cycle.unprobed : ~Above(cycle.limits, f)
    /\ cycle.active => \A f \in files : Above(cycle.limits, f) \/ f \in cycle.unprobed \cup cycle.kept
    /\ cohort.probed \subseteq cycle.unprobed
    /\ \A f \in files \cap cohort.probed : f \in cohort.candidates \cup cohort.skipped
    /\ cohort.stage = "Draining" => files \cap cohort.proofs \subseteq root.garbage

ReclaimInv ==
    /\ TypeOK /\ cohort \in Cohort
    /\ FilesHeld /\ TreesHeld /\ GarbageDead /\ StagedAbove
    /\ ChainHolds /\ WalkHolds /\ CensusComplete

----------------------------------------------------------------------------
(* Files, minima and the trees a commit makes *)

\* A file is its kind and its identifier.
LEMMA FileFields ==
    /\ \A f \in Files : f.kind \in Kinds /\ f.id \in 1 .. MaxId /\ f = File(f.kind, f.id)
    /\ \A k \in Kinds : \A i \in 1 .. MaxId :
          File(k, i) \in Files /\ File(k, i).kind = k /\ File(k, i).id = i
BY DEF Files, File

\* There are finitely many.
LEMMA FilesFinite == IsFiniteSet(Files)
<1> DEFINE P == Kinds \X (1 .. MaxId)
           g == [x \in P |-> File(x[1], x[2])]
<1>1. IsFiniteSet(Kinds)
  <2>1. IsFiniteSet({"Segment"})
    BY FS_Singleton
  <2>2. IsFiniteSet({"Segment"} \cup {"Directory"})
    BY <2>1, FS_AddElement
  <2>3. Kinds = {"Segment"} \cup {"Directory"}
    BY DEF Kinds
  <2> QED
    BY <2>2, <2>3
<1>2. IsFiniteSet(1 .. MaxId)
  BY FS_Interval, ReclaimAssumption
<1>3. IsFiniteSet(P)
  BY <1>1, <1>2, FS_Product
<1>4. g \in Surjection(P, Files)
  <2>1. \A x \in P : g[x] \in Files
    BY DEF Files
  <2>2. \A f \in Files : \E x \in P : g[x] = f
    <3> SUFFICES ASSUME NEW k \in Kinds, NEW i \in 1 .. MaxId
                 PROVE  \E x \in P : g[x] = File(k, i)
      BY DEF Files
    <3>1. <<k, i>> \in P /\ g[<<k, i>>] = File(k, i)
      OBVIOUS
    <3> QED
      BY <3>1
  <2>3. g \in [P -> Files]
    BY <2>1
  <2> HIDE DEF g, P
  <2> QED
    BY <2>2, <2>3 DEF Surjection
<1> QED
  BY <1>3, <1>4, FS_Surjection

\* A set of naturals that is not empty has a least element.
LEMMA MinView ==
    ASSUME NEW S, S \subseteq Nat, S # {}
    PROVE  Min(S) \in S /\ \A y \in S : Min(S) <= y
<1>1. OpToRel(<, Nat) = {ss \in Nat \X Nat : ss[1] < ss[2]}
  BY DEF OpToRel
<1>2. PICK x \in S : \A y \in S : ~(<<y, x>> \in OpToRel(<, Nat))
  BY NatLessThanWellFounded, WFMin
<1>3. \A y \in S : x <= y
  <2> SUFFICES ASSUME NEW y \in S PROVE x <= y
    OBVIOUS
  <2>1. x \in Nat /\ y \in Nat /\ ~(<<y, x>> \in {ss \in Nat \X Nat : ss[1] < ss[2]})
    BY <1>1, <1>2
  <2> QED
    BY <2>1
<1> QED
  BY <1>3 DEF Min

\* The fields of the owner's records, and the empty values.
LEMMA OwnerView ==
    ASSUME ReclaimInv
    PROVE  /\ root \in Superblock /\ root.directory \in DirectoryRoot /\ root.start \in 0 .. MaxId
           /\ root.last \in [Kinds -> 1 .. MaxId] /\ root.garbage \subseteq Files
           /\ root.cutoff \in PerKind /\ staged \in DirectoryRoot
           /\ cycle \in ReclaimCycle /\ cycle.limits \in PerKind /\ owed.limits \in PerKind
           /\ cycle.unprobed \subseteq Files /\ cycle.kept \subseteq Files
           /\ cohort \in Cohort /\ cohort.candidates \subseteq Files
           /\ pins \in [Pins -> [root : DirectoryRoot, stamp : Nat]]
           /\ floor \in PerKind /\ nonce \in Nat /\ MaxId \in Nat /\ MaxCommits \in Nat
           /\ "Segment" \in Kinds /\ "Directory" \in Kinds
           /\ files \subseteq Files
<1>1. /\ root \in Superblock /\ staged \in DirectoryRoot /\ cycle \in ReclaimCycle
      /\ owed \in [limits : PerKind, evacuated : 0 .. MaxCommits] /\ cohort \in Cohort
      /\ pins \in [Pins -> [root : DirectoryRoot, stamp : Nat]]
      /\ floor \in PerKind /\ nonce \in Nat /\ files \subseteq Files
  BY DEF ReclaimInv, TypeOK
<1>2. MaxId \in Nat /\ MaxCommits \in Nat
  BY ReclaimAssumption
<1>3. /\ root.directory \in DirectoryRoot /\ root.start \in 0 .. MaxId
      /\ root.last \in [Kinds -> 1 .. MaxId] /\ root.garbage \subseteq Files
      /\ root.cutoff \in PerKind
  BY <1>1 DEF Superblock
<1>4. /\ cycle.limits \in PerKind /\ owed.limits \in PerKind
      /\ cycle.unprobed \subseteq Files /\ cycle.kept \subseteq Files
  BY <1>1 DEF ReclaimCycle
<1>5. cohort.candidates \subseteq Files
  BY <1>1 DEF Cohort
<1>6. "Segment" \in Kinds /\ "Directory" \in Kinds
  BY DEF Kinds
<1> QED
  BY <1>1, <1>2, <1>3, <1>4, <1>5, <1>6

\* The empty values.
LEMMA EmptyView ==
    /\ NoDirectory \in DirectoryRoot /\ NoDirectory.refs = {}
    /\ NoPin \in [root : DirectoryRoot, stamp : Nat] /\ NoPin.root.refs = {} /\ NoPin.stamp = 0
    /\ NoCoverage \in [nonce : Nat, root : DirectoryRoot] /\ NoCoverage.nonce = 0
    /\ NoCohort \in Cohort /\ NoCohort.stage = "None" /\ NoCohort.proofs = {}
    /\ NoCohort.candidates = {} /\ NoCohort.probed = {}
    /\ NoCycle \in ReclaimCycle /\ NoCycle.active = FALSE /\ NoCycle.unprobed = {}
    /\ \A k \in Kinds : NoCycle.limits[k] = 0 /\ NoRound.limits[k] = 0
    /\ NoRound \in [limits : PerKind, evacuated : 0 .. MaxCommits]
<1>1. MaxId \in Nat /\ MaxCommits \in Nat
  BY ReclaimAssumption
<1>2. NoDirectory \in DirectoryRoot /\ NoDirectory.refs = {}
  BY <1>1 DEF NoDirectory, DirectoryRoot
<1>3. /\ NoPin \in [root : DirectoryRoot, stamp : Nat] /\ NoPin.root.refs = {} /\ NoPin.stamp = 0
      /\ NoCoverage \in [nonce : Nat, root : DirectoryRoot] /\ NoCoverage.nonce = 0
  BY <1>2 DEF NoPin, NoCoverage
<1>4. /\ NoCohort \in Cohort /\ NoCohort.stage = "None" /\ NoCohort.proofs = {}
      /\ NoCohort.candidates = {} /\ NoCohort.probed = {}
  BY <1>2 DEF NoCohort, Cohort, Stages
<1>5. [k \in Kinds |-> 0] \in PerKind
  BY <1>1 DEF PerKind
<1>6. /\ NoCycle \in ReclaimCycle /\ NoCycle.active = FALSE /\ NoCycle.unprobed = {}
      /\ \A k \in Kinds : NoCycle.limits[k] = 0
  BY <1>5 DEF NoCycle, ReclaimCycle
<1>7. /\ NoRound \in [limits : PerKind, evacuated : 0 .. MaxCommits]
      /\ \A k \in Kinds : NoRound.limits[k] = 0
  BY <1>1, <1>5 DEF NoRound
<1> QED
  BY <1>2, <1>3, <1>4, <1>6, <1>7

\* What a batch may append to, and the tree it leaves.
LEMMA SuccessorView ==
    ASSUME ReclaimInv, NEW next \in Rolls
    PROVE  /\ next \in [Kinds -> 1 .. MaxId]
           /\ \A k \in Kinds : next[k] \in {root.last[k], root.last[k] + 1}
           /\ \A k \in Kinds : root.last[k] \in 1 .. MaxId /\ root.last[k] <= next[k]
           /\ \A k \in Kinds : File(k, next[k]) \in Fresh(next)
           /\ Fresh(next) \subseteq Files
           /\ \A f \in Fresh(next) : f.id >= root.last[f.kind] /\ f.id <= next[f.kind]
           /\ \A i \in root.last["Segment"] .. next["Segment"] : File("Segment", i) \in Fresh(next)
           /\ root.directory.generation < MaxCommits =>
                \A d \in Successors(next) :
                   /\ d \in DirectoryRoot /\ d # NoDirectory
                   /\ d.refs \subseteq root.directory.refs \cup Fresh(next)
                   /\ d.refs \subseteq files \cup Fresh(next)
                   /\ \A f \in d.refs \ root.directory.refs : f.id >= root.last[f.kind]
<1>1. /\ next \in [Kinds -> 1 .. MaxId]
      /\ \A k \in Kinds : next[k] \in {root.last[k], root.last[k] + 1}
  BY DEF Rolls
<1>2. /\ root.last \in [Kinds -> 1 .. MaxId] /\ MaxId \in Nat /\ MaxCommits \in Nat
      /\ "Segment" \in Kinds /\ "Directory" \in Kinds
      /\ root.directory \in DirectoryRoot
  BY ReclaimAssumption DEF ReclaimInv, TypeOK, Superblock, Kinds
<1>3. \A k \in Kinds : root.last[k] \in 1 .. MaxId /\ root.last[k] <= next[k]
  BY <1>1, <1>2
<1>4. \A k \in Kinds : \A i \in root.last[k] .. next[k] : File(k, i) \in Fresh(next)
  <2> SUFFICES ASSUME NEW k \in Kinds, NEW i \in root.last[k] .. next[k]
               PROVE  File(k, i) \in Fresh(next)
    OBVIOUS
  <2>1. i \in 1 .. MaxId
    BY <1>1, <1>2
  <2>2. File(k, i) \in Files /\ File(k, i).kind = k /\ File(k, i).id = i
    BY <2>1, FileFields
  <2> QED
    BY <1>1, <1>2, <2>1, <2>2 DEF Fresh
<1>5. \A k \in Kinds : File(k, next[k]) \in Fresh(next)
  BY <1>1, <1>3, <1>4
<1>6. /\ Fresh(next) \subseteq Files
      /\ \A f \in Fresh(next) : f.id >= root.last[f.kind] /\ f.id <= next[f.kind]
  BY <1>2, FileFields DEF Fresh
<1>7. ASSUME root.directory.generation < MaxCommits, NEW d \in Successors(next)
      PROVE  /\ d \in DirectoryRoot /\ d # NoDirectory
             /\ d.refs \subseteq root.directory.refs \cup Fresh(next)
  <2>1. \E a \in root.last["Directory"] .. next["Directory"] :
        \E kept \in SUBSET root.directory.refs :
        \E new \in SUBSET {File("Segment", next["Segment"])} :
           d = [generation |-> root.directory.generation + 1, arena |-> a,
                refs |-> kept \cup {File("Directory", a)} \cup new]
    BY SMT DEF Successors
  <2> PICK a \in root.last["Directory"] .. next["Directory"],
           kept \in SUBSET root.directory.refs,
           new \in SUBSET {File("Segment", next["Segment"])} :
             d = [generation |-> root.directory.generation + 1, arena |-> a,
                  refs |-> kept \cup {File("Directory", a)} \cup new]
    BY <2>1
  <2>2. File("Directory", a) \in Fresh(next) /\ new \subseteq Fresh(next)
    BY <1>2, <1>4, <1>5
  <2>3. /\ root.directory.generation \in 0 .. MaxCommits /\ root.directory.refs \subseteq Files
    BY <1>2 DEF DirectoryRoot
  <2>4. root.directory.generation + 1 \in 1 .. MaxCommits /\ a \in 0 .. MaxId
    BY <1>1, <1>2, <1>7, <2>3
  <2>5. kept \cup {File("Directory", a)} \cup new \in SUBSET Files
    BY <1>6, <2>2, <2>3
  <2>6. /\ d.generation = root.directory.generation + 1
        /\ d.refs = kept \cup {File("Directory", a)} \cup new
    OBVIOUS
  <2>7. d \in DirectoryRoot
    BY <2>4, <2>5 DEF DirectoryRoot
  <2>8. d # NoDirectory
    BY <2>4, <2>6 DEF NoDirectory
  <2> QED
    BY <2>2, <2>6, <2>7, <2>8
<1>8. root.directory.refs \subseteq files
  BY DEF ReclaimInv, TreesHeld
<1>9. ASSUME root.directory.generation < MaxCommits, NEW d \in Successors(next)
      PROVE  /\ d.refs \subseteq files \cup Fresh(next)
             /\ \A f \in d.refs \ root.directory.refs : f.id >= root.last[f.kind]
  BY <1>6, <1>7, <1>8, <1>9
<1>10. \A i \in root.last["Segment"] .. next["Segment"] : File("Segment", i) \in Fresh(next)
  BY <1>2, <1>4
<1> QED
  BY <1>1, <1>3, <1>5, <1>6, <1>7, <1>9, <1>10

----------------------------------------------------------------------------
(* Readers *)

\* A pin on the selected root is on the chain of whatever cohort is active.
LEMMA AcquireKeeps == ASSUME ReclaimInv, NEW p \in Pins, Acquire(p) PROVE ReclaimInv'
<1> DEFINE d == root.directory
           pin == [root |-> d, stamp |-> stamp(d)]
<1>1. /\ UNCHANGED <<files, root, staged, coverage, nonce, cycle, cohort, floor, owed,
                     evacuated, mode, faults>>
      /\ pins' = [pins EXCEPT ![p] = pin]
  BY DEF Acquire
<1>2. /\ d \in DirectoryRoot /\ coverage.nonce \in Nat /\ nonce \in Nat
      /\ pins \in [Pins -> [root : DirectoryRoot, stamp : Nat]]
  BY DEF ReclaimInv, TypeOK, Superblock
<1>3. /\ stamp(d) \in Nat /\ stamp(d) <= nonce
      /\ cohort.stage # "None" => stamp(d) = cohort.nonce
  BY <1>2 DEF stamp, ReclaimInv, ChainHolds
<1> HIDE DEF d
<1>4. /\ pins' \in [Pins -> [root : DirectoryRoot, stamp : Nat]]
      /\ \A q \in Pins : q # p => pins'[q] = pins[q]
      /\ pins'[p].root = d /\ pins'[p].stamp = stamp(d)
  BY <1>1, <1>2, <1>3
<1>5. TypeOK' /\ (cohort \in Cohort)'
  BY <1>1, <1>4 DEF ReclaimInv, TypeOK
<1>6. FilesHeld' /\ WalkHolds' /\ CensusComplete'
  BY <1>1 DEF ReclaimInv, FilesHeld, WalkHolds, CensusComplete, FloorHidesNothing, Above,
              referenced
<1>7. TreesHeld' /\ GarbageDead' /\ StagedAbove'
  BY <1>1, <1>4 DEF ReclaimInv, TreesHeld, GarbageDead, StagedAbove, Above, d
<1>8. ChainHolds'
  <2>1. coverage.nonce <= nonce /\ \A q \in Pins : pins'[q].stamp <= nonce
    BY <1>3, <1>4 DEF ReclaimInv, ChainHolds
  <2>2. ASSUME cohort.stage # "None", NEW q \in Live'
        PROVE  /\ pins'[q].root \in cohort.capture \/ pins'[q].stamp = cohort.nonce
               /\ pins'[q].stamp = cohort.nonce => Covered(pins'[q].root)
    <3>1. CASE q = p
      BY <1>3, <1>4, <2>2, <3>1 DEF ReclaimInv, ChainHolds, d
    <3>2. CASE q # p
      <4>1. q \in Live /\ pins'[q] = pins[q]
        BY <1>4, <3>2 DEF Live
      <4> QED
        BY <2>2, <4>1 DEF ReclaimInv, ChainHolds
    <3> QED
      BY <3>1, <3>2
  <2>3. \A r : Covered(r)' <=> Covered(r)
    BY <1>1 DEF Covered, Above
  <2> QED
    BY <1>1, <2>1, <2>2, <2>3 DEF ReclaimInv, ChainHolds, Covered, Above
<1> QED
  BY <1>5, <1>6, <1>7, <1>8 DEF ReclaimInv

\* A released pin needs nothing any more.
LEMMA ReleaseKeeps == ASSUME ReclaimInv, NEW p \in Pins, Release(p) PROVE ReclaimInv'
<1>1. /\ UNCHANGED <<files, root, staged, coverage, nonce, cycle, cohort, floor, owed,
                     evacuated, mode, faults>>
      /\ pins' = [pins EXCEPT ![p] = NoPin]
  BY DEF Release
<1>2. /\ pins \in [Pins -> [root : DirectoryRoot, stamp : Nat]] /\ nonce \in Nat
      /\ NoDirectory \in DirectoryRoot /\ NoDirectory.refs = {}
  BY ReclaimAssumption DEF ReclaimInv, TypeOK, NoDirectory, DirectoryRoot
<1>3. NoPin \in [root : DirectoryRoot, stamp : Nat] /\ NoPin.root.refs = {} /\ NoPin.stamp = 0
  BY <1>2 DEF NoPin
<1>4. /\ pins' \in [Pins -> [root : DirectoryRoot, stamp : Nat]]
      /\ \A q \in Pins : q # p => pins'[q] = pins[q]
      /\ pins'[p] = NoPin
  BY <1>1, <1>2, <1>3
<1>5. TypeOK' /\ (cohort \in Cohort)'
  BY <1>1, <1>4 DEF ReclaimInv, TypeOK
<1>6. FilesHeld' /\ WalkHolds' /\ CensusComplete'
  BY <1>1 DEF ReclaimInv, FilesHeld, WalkHolds, CensusComplete, FloorHidesNothing, Above,
              referenced
<1>7. TreesHeld' /\ GarbageDead' /\ StagedAbove'
  BY <1>1, <1>3, <1>4 DEF ReclaimInv, TreesHeld, GarbageDead, StagedAbove, Above
<1>8. ChainHolds'
  <2>1. \A q \in Pins : pins'[q].stamp <= nonce
    BY <1>2, <1>3, <1>4 DEF ReclaimInv, ChainHolds
  <2>2. \A q \in Live' : q \in Live /\ pins'[q] = pins[q]
    BY <1>4 DEF Live
  <2> QED
    BY <1>1, <2>1, <2>2 DEF ReclaimInv, ChainHolds, Covered, Above
<1> QED
  BY <1>5, <1>6, <1>7, <1>8 DEF ReclaimInv

----------------------------------------------------------------------------
(* Commits *)

\* Files appended by a batch, and the root it is about to publish, disturb nothing
\* that a cohort has established: they are above every range.
LEMMA GrowKeeps ==
    ASSUME ReclaimInv, Quiet, NEW next \in Rolls,
           NEW s \in DirectoryRoot,
           s.refs \subseteq root.directory.refs \cup Fresh(next),
           staged' = s, files' = files \cup Fresh(next),
           root' = [root EXCEPT !.last = next],
           UNCHANGED <<pins, coverage, nonce, cycle, cohort, floor, owed, evacuated, mode, faults>>
    PROVE  ReclaimInv'
<1> DEFINE last == root.last
           F == Fresh(next)
<1>1. /\ next \in [Kinds -> 1 .. MaxId]
      /\ \A k \in Kinds : last[k] \in 1 .. MaxId /\ last[k] <= next[k]
      /\ \A k \in Kinds : File(k, next[k]) \in F
      /\ F \subseteq Files
      /\ \A f \in F : f.kind \in Kinds /\ f.id \in 1 .. MaxId /\ f.id >= last[f.kind]
      /\ \A i \in last["Segment"] .. next["Segment"] : File("Segment", i) \in F
  BY SuccessorView, FileFields
<1>2. /\ root'.last = next /\ root'.directory = root.directory /\ root'.start = root.start
      /\ root'.garbage = root.garbage /\ root'.phase = root.phase
      /\ root'.cutoff = root.cutoff /\ root'.source = root.source
      /\ root' \in Superblock
  BY <1>1, OwnerView DEF Superblock
<1>3. /\ cycle.limits \in PerKind /\ root.cutoff \in PerKind /\ owed.limits \in PerKind
      /\ floor \in PerKind /\ MaxId \in Nat /\ root.start \in 0 .. MaxId
      /\ "Segment" \in Kinds /\ mode = "open" /\ staged = NoDirectory
      /\ root.garbage \subseteq Files /\ cohort.candidates \subseteq Files
      /\ files \subseteq Files
  BY OwnerView DEF Quiet, Open
<1> HIDE DEF F, last
<1>4. \A f \in F : Above(cycle.limits, f) /\ f.id >= floor[f.kind]
  <2> SUFFICES ASSUME NEW f \in F
               PROVE  Above(cycle.limits, f) /\ f.id >= floor[f.kind]
    OBVIOUS
  <2>1. f.kind \in Kinds /\ f.id \in 1 .. MaxId /\ f.id >= last[f.kind]
    BY <1>1
  <2>2. cycle.limits[f.kind] <= last[f.kind] /\ File(f.kind, last[f.kind]) \in files
    BY <2>1 DEF ReclaimInv, FilesHeld, last
  <2>3. floor[f.kind] <= last[f.kind]
    BY <1>1, <2>1, <2>2, FileFields DEF ReclaimInv, CensusComplete, FloorHidesNothing
  <2>4. cycle.limits[f.kind] \in Nat /\ floor[f.kind] \in Nat /\ last[f.kind] \in Nat
    BY <1>1, <1>3, <2>1 DEF PerKind
  <2> QED
    BY <2>1, <2>2, <2>3, <2>4 DEF Above
<1>5. TypeOK' /\ (cohort \in Cohort)'
  BY <1>1, <1>2, <1>3 DEF ReclaimInv, TypeOK, F
<1>6. FilesHeld'
  <2>1. \A k \in Kinds : File(k, next[k]) \in files'
    BY <1>1 DEF F
  <2>2. \A k \in Kinds : root.cutoff[k] < next[k] /\ owed.limits[k] <= next[k]
                           /\ cycle.limits[k] <= next[k]
    <3> SUFFICES ASSUME NEW k \in Kinds
                 PROVE  root.cutoff[k] < next[k] /\ owed.limits[k] <= next[k]
                          /\ cycle.limits[k] <= next[k]
      OBVIOUS
    <3>1. root.cutoff[k] < last[k] /\ owed.limits[k] <= last[k] /\ cycle.limits[k] <= last[k]
      BY DEF ReclaimInv, FilesHeld, last
    <3> QED
      BY <1>1, <1>3, <3>1 DEF PerKind
  <2>3. root.start <= next["Segment"]
    BY <1>1, <1>3 DEF ReclaimInv, FilesHeld, last
  <2>4. ASSUME NEW i \in root.start .. next["Segment"], i # 0
        PROVE  File("Segment", i) \in files'
    <3>1. CASE i <= last["Segment"]
      BY <1>1, <1>3, <2>4, <3>1 DEF ReclaimInv, FilesHeld, last
    <3>2. CASE ~(i <= last["Segment"])
      <4>1. i \in last["Segment"] .. next["Segment"]
        BY <1>1, <1>3, <2>4, <3>2
      <4> QED
        BY <1>1, <4>1 DEF F
    <3> QED
      BY <3>1, <3>2
  <2> QED
    BY <1>2, <2>1, <2>2, <2>3, <2>4 DEF FilesHeld
<1>7. TreesHeld'
  <2>1. files \subseteq files' /\ F \subseteq files'
    BY DEF F
  <2> QED
    BY <1>2, <2>1 DEF ReclaimInv, TreesHeld, F
<1>8. GarbageDead'
  <2>1. \A f \in root.garbage : f.id < last[f.kind] /\ (f.kind = "Segment" => f.id < root.start)
    BY DEF ReclaimInv, GarbageDead, last
  <2>2. root.garbage \cap F = {}
    BY <1>1, <2>1
  <2>3. root.garbage \cap s.refs = {}
    BY <2>2 DEF ReclaimInv, GarbageDead, F
  <2>4. \A f \in root.garbage : f.id < next[f.kind]
    BY <1>1, <1>3, <2>1, FileFields
  <2> QED
    BY <1>2, <2>1, <2>3, <2>4 DEF ReclaimInv, GarbageDead
<1>9. StagedAbove'
  <2>1. \A f \in s.refs \ root.directory.refs : Above(cycle.limits, f)
    BY <1>4 DEF F
  <2> QED
    BY <1>2, <1>3, <2>1 DEF StagedAbove, Above
<1>10. ChainHolds' /\ WalkHolds'
  BY <1>2 DEF ReclaimInv, ChainHolds, WalkHolds, Covered, Above, Live, referenced
<1>11. CensusComplete'
  <2>1. \A f \in files' : f \in files \/ f \in F
    BY DEF F
  <2>2. \A f \in F : f \notin cohort.probed /\ f \notin cohort.proofs
    BY <1>4 DEF ReclaimInv, CensusComplete, WalkHolds
  <2>3. (FloorHidesNothing)'
    BY <1>4, <2>1 DEF ReclaimInv, CensusComplete, FloorHidesNothing
  <2>4. cycle.active => \A f \in files' : Above(cycle.limits, f) \/ f \in cycle.unprobed \cup cycle.kept
    BY <1>4, <2>1 DEF ReclaimInv, CensusComplete
  <2>5. \A f \in files' \cap cohort.probed : f \in cohort.candidates \cup cohort.skipped
    BY <2>1, <2>2 DEF ReclaimInv, CensusComplete
  <2>6. cohort.stage = "Draining" => files' \cap cohort.proofs \subseteq root.garbage
    BY <2>1, <2>2 DEF ReclaimInv, CensusComplete
  <2> QED
    BY <1>2, <2>3, <2>4, <2>5, <2>6 DEF ReclaimInv, CensusComplete, Above
<1> QED
  BY <1>5, <1>6, <1>7, <1>8, <1>9, <1>10, <1>11 DEF ReclaimInv

\* The batch of a commit whose root is then published.
LEMMA StageCommitKeeps == ASSUME ReclaimInv, StageCommit PROVE ReclaimInv'
<1>1. PICK next \in Rolls : \E d \in Successors(next) :
         staged' = d /\ files' = files \cup Fresh(next) /\ root' = [root EXCEPT !.last = next]
  BY DEF StageCommit
<1>2. PICK d \in Successors(next) :
         staged' = d /\ files' = files \cup Fresh(next) /\ root' = [root EXCEPT !.last = next]
  BY <1>1
<1>3. /\ Quiet /\ root.directory.generation < MaxCommits
      /\ UNCHANGED <<pins, coverage, nonce, cycle, cohort, floor, owed, evacuated, mode, faults>>
  BY DEF StageCommit
<1>4. d \in DirectoryRoot /\ d.refs \subseteq root.directory.refs \cup Fresh(next)
  BY <1>3, SuccessorView
<1> QED
  BY <1>2, <1>3, <1>4, GrowKeeps

\* The batch of one that is aborted.
LEMMA RollFileKeeps == ASSUME ReclaimInv, RollFile PROVE ReclaimInv'
<1>1. PICK next \in Rolls : files' = files \cup Fresh(next) /\ root' = [root EXCEPT !.last = next]
  BY DEF RollFile
<1>2. /\ Quiet /\ staged' = NoDirectory
      /\ UNCHANGED <<pins, coverage, nonce, cycle, cohort, floor, owed, evacuated, mode, faults>>
  BY DEF RollFile, Quiet
<1> QED
  BY <1>1, <1>2, GrowKeeps, EmptyView

\* Installing a successor extends the active cohort's chain by one tree that adds
\* nothing below the cohort's limits.
LEMMA InstallKeeps ==
    ASSUME ReclaimInv, NEW d \in DirectoryRoot, NEW next \in [Kinds -> 1 .. MaxId], NEW F,
           mode = "open", F \subseteq Files,
           \A k \in Kinds : root.last[k] <= next[k] /\ File(k, next[k]) \in files \cup F,
           \A f \in F : f.id >= root.last[f.kind],
           d.refs \subseteq files \cup F,
           \A f \in d.refs \ root.directory.refs : Above(cycle.limits, f),
           root.garbage \cap d.refs = {},
           files' = files \cup F, staged' = NoDirectory,
           root' = [root EXCEPT !.last = next, !.directory = d, !.start = next["Segment"]],
           cohort.stage = "None" => UNCHANGED <<cohort, coverage>>,
           cohort.stage # "None" =>
              /\ cohort' = [cohort EXCEPT !.latest = d, !.broken = FALSE]
              /\ coverage' = [nonce |-> cohort.nonce, root |-> d],
           UNCHANGED <<pins, nonce, cycle, floor, owed, evacuated, mode, faults>>
    PROVE  ReclaimInv'
<1>1. /\ cycle.limits \in PerKind /\ root.cutoff \in PerKind /\ owed.limits \in PerKind
      /\ floor \in PerKind /\ MaxId \in Nat /\ root.start \in 0 .. MaxId
      /\ root.last \in [Kinds -> 1 .. MaxId]
      /\ "Segment" \in Kinds /\ root.garbage \subseteq Files /\ cohort \in Cohort
      /\ nonce \in Nat /\ files \subseteq Files
  BY OwnerView
<1>2. /\ root'.last = next /\ root'.directory = d /\ root'.start = next["Segment"]
      /\ root'.garbage = root.garbage /\ root'.phase = root.phase
      /\ root'.cutoff = root.cutoff /\ root'.source = root.source
      /\ root' \in Superblock
  <2>1. next["Segment"] \in 0 .. MaxId
    BY <1>1
  <2> QED
    BY <2>1, OwnerView DEF Superblock
<1>3. /\ cohort' \in Cohort /\ coverage' \in [nonce : Nat, root : DirectoryRoot]
      /\ cohort'.stage = cohort.stage /\ cohort'.nonce = cohort.nonce /\ cohort'.r0 = cohort.r0
      /\ cohort'.capture = cohort.capture /\ cohort'.candidates = cohort.candidates
      /\ cohort'.current = cohort.current /\ cohort'.pinned = cohort.pinned
      /\ cohort'.unwalked = cohort.unwalked /\ cohort'.proofs = cohort.proofs
      /\ cohort'.probed = cohort.probed /\ cohort'.skipped = cohort.skipped
      /\ coverage'.nonce <= nonce
  <2>1. CASE cohort.stage = "None"
    BY <1>1, <2>1 DEF ReclaimInv, TypeOK, ChainHolds
  <2>2. CASE cohort.stage # "None"
    <3>1. cohort.nonce \in Nat /\ cohort.nonce <= nonce /\ FALSE \in BOOLEAN
      BY <1>1, <2>2 DEF ReclaimInv, ChainHolds, Cohort
    <3>2. cohort' = [cohort EXCEPT !.latest = d, !.broken = FALSE]
      BY <2>2
    <3>3. cohort' \in Cohort
      BY <1>1, <3>1, <3>2 DEF Cohort
    <3>4. coverage' = [nonce |-> cohort.nonce, root |-> d]
      BY <2>2
    <3>5. coverage' \in [nonce : Nat, root : DirectoryRoot] /\ coverage'.nonce <= nonce
      BY <3>1, <3>4
    <3> QED
      BY <1>1, <3>2, <3>3, <3>5 DEF Cohort
  <2> QED
    BY <2>1, <2>2
<1>4. \A f \in F : Above(cycle.limits, f) /\ f.id >= floor[f.kind]
  <2> SUFFICES ASSUME NEW f \in F
               PROVE  Above(cycle.limits, f) /\ f.id >= floor[f.kind]
    OBVIOUS
  <2>1. f.kind \in Kinds /\ f.id \in 1 .. MaxId /\ f.id >= root.last[f.kind]
    BY FileFields
  <2>2. cycle.limits[f.kind] <= root.last[f.kind] /\ File(f.kind, root.last[f.kind]) \in files
    BY <2>1 DEF ReclaimInv, FilesHeld
  <2>3. floor[f.kind] <= root.last[f.kind]
    BY <1>1, <2>1, <2>2, FileFields DEF ReclaimInv, CensusComplete, FloorHidesNothing
  <2>4. cycle.limits[f.kind] \in Nat /\ floor[f.kind] \in Nat /\ root.last[f.kind] \in Nat
    BY <1>1, <2>1 DEF PerKind
  <2> QED
    BY <2>1, <2>2, <2>3, <2>4 DEF Above
<1>5. TypeOK'
  BY <1>1, <1>2, <1>3, EmptyView DEF ReclaimInv, TypeOK, Cohort
<1>6. FilesHeld'
  <2>1. \A k \in Kinds : root.cutoff[k] < next[k] /\ owed.limits[k] <= next[k]
                           /\ cycle.limits[k] <= next[k]
    <3> SUFFICES ASSUME NEW k \in Kinds
                 PROVE  root.cutoff[k] < next[k] /\ owed.limits[k] <= next[k]
                          /\ cycle.limits[k] <= next[k]
      OBVIOUS
    <3>1. /\ root.cutoff[k] < root.last[k] /\ owed.limits[k] <= root.last[k]
          /\ cycle.limits[k] <= root.last[k]
      BY DEF ReclaimInv, FilesHeld
    <3> QED
      BY <1>1, <3>1 DEF PerKind
  <2>2. \A i \in next["Segment"] .. next["Segment"] : File("Segment", i) \in files'
    BY <1>1
  <2>3. next["Segment"] <= next["Segment"]
    BY <1>1
  <2> QED
    BY <1>2, <2>1, <2>2, <2>3 DEF FilesHeld
<1>7. TreesHeld'
  <2>1. files \subseteq files'
    OBVIOUS
  <2> QED
    BY <1>2, <1>3, <2>1, EmptyView DEF ReclaimInv, TreesHeld
<1>8. GarbageDead'
  <2>1. /\ \A f \in root.garbage : f.id < root.last[f.kind]
        /\ \A f \in root.garbage : f.kind = "Segment" => f.id < root.start
        /\ root.start <= root.last["Segment"]
    BY DEF ReclaimInv, GarbageDead, FilesHeld
  <2>2. \A f \in root.garbage : f.id < next[f.kind]
    BY <1>1, <2>1, FileFields
  <2>3. \A f \in root.garbage : f.kind = "Segment" => f.id < next["Segment"]
    BY <2>2
  <2> QED
    BY <1>2, <1>3, <2>2, <2>3, EmptyView DEF ReclaimInv, GarbageDead
<1>9. StagedAbove'
  BY DEF StagedAbove
<1>10. ChainHolds'
  <2>1. ASSUME cohort.stage # "None"
        PROVE  /\ Covered(d) /\ cohort'.latest = d /\ ~cohort'.broken
               /\ coverage' = [nonce |-> cohort'.nonce, root |-> d]
    <3>1. Covered(root.directory)
      BY <2>1 DEF ReclaimInv, ChainHolds
    <3>2. Covered(d)
      BY <3>1 DEF Covered
    <3> QED
      BY <1>1, <1>3, <2>1, <3>2 DEF Cohort
  <2>2. \A r : Covered(r)' <=> Covered(r)
    BY <1>3 DEF Covered, Above
  <2>3. cohort.stage = "None" => cohort' = NoCohort
    BY DEF ReclaimInv, ChainHolds
  <2> QED
    BY <1>2, <1>3, <2>1, <2>2, <2>3 DEF ReclaimInv, ChainHolds, Live, Covered, Above
<1>11. WalkHolds'
  BY <1>3 DEF ReclaimInv, WalkHolds, referenced, Above
<1>12. CensusComplete'
  <2>1. \A f \in F : f \notin cohort.probed /\ f \notin cohort.proofs
    BY <1>4 DEF ReclaimInv, CensusComplete, WalkHolds
  <2>2. FloorHidesNothing'
    BY <1>4 DEF ReclaimInv, CensusComplete, FloorHidesNothing
  <2>3. cycle.active => \A f \in files' : Above(cycle.limits, f) \/ f \in cycle.unprobed \cup cycle.kept
    BY <1>4 DEF ReclaimInv, CensusComplete
  <2>4. \A f \in files' \cap cohort.probed : f \in cohort.candidates \cup cohort.skipped
    BY <2>1 DEF ReclaimInv, CensusComplete
  <2>5. cohort.stage = "Draining" => files' \cap cohort.proofs \subseteq root.garbage
    BY <2>1 DEF ReclaimInv, CensusComplete
  <2> QED
    BY <1>2, <1>3, <2>2, <2>3, <2>4, <2>5 DEF ReclaimInv, CensusComplete, Above
<1> QED
  BY <1>3, <1>5, <1>6, <1>7, <1>8, <1>9, <1>10, <1>11, <1>12 DEF ReclaimInv

\* A certified installation keeps the cohort and its stamped root.
LEMMA ObserveView ==
    ASSUME ReclaimInv, NEW d \in DirectoryRoot, NEW c \in BOOLEAN, observe_install(d, c),
           cohort.stage # "None" => c
    PROVE  /\ cohort.stage = "None" => UNCHANGED <<cohort, coverage>>
           /\ cohort.stage # "None" =>
                /\ cohort' = [cohort EXCEPT !.latest = d, !.broken = FALSE]
                /\ coverage' = [nonce |-> cohort.nonce, root |-> d]
<1>1. CASE cohort.stage = "None"
  BY <1>1 DEF observe_install
<1>2. CASE cohort.stage # "None"
  <2>1. /\ cohort' = [cohort EXCEPT !.latest = d,
                         !.broken = @ \/ ~c \/ cohort.latest # root.directory]
        /\ coverage' = IF c /\ coverage.nonce = cohort.nonce
                          THEN [coverage EXCEPT !.root = d] ELSE NoCoverage
    BY <1>2 DEF observe_install
  <2>2. /\ cohort.broken = FALSE /\ cohort.latest = root.directory
        /\ coverage = [nonce |-> cohort.nonce, root |-> root.directory]
    BY <1>2 DEF ReclaimInv, ChainHolds, Cohort
  <2>3. (cohort.broken \/ ~c \/ cohort.latest # root.directory) = FALSE
    BY <1>2, <2>2
  <2>4. cohort' = [cohort EXCEPT !.latest = d, !.broken = FALSE]
    BY <2>1, <2>3
  <2>5. coverage' = [coverage EXCEPT !.root = d]
    BY <1>2, <2>1, <2>2
  <2>6. coverage' = [nonce |-> cohort.nonce, root |-> d]
    BY <2>2, <2>5
  <2> QED
    BY <1>2, <2>4, <2>6
<1> QED
  BY <1>1, <1>2

\* The root of a commit is adopted.
LEMMA AdoptCommitKeeps == ASSUME ReclaimInv, AdoptCommit PROVE ReclaimInv'
<1> DEFINE c == certify_install(staged, root.last)
<1>1. /\ mode = "open" /\ staged # NoDirectory
      /\ root' = [root EXCEPT !.directory = staged, !.start = root.last["Segment"]]
      /\ observe_install(staged, c) /\ staged' = NoDirectory
      /\ UNCHANGED <<files, pins, nonce, cycle, floor, owed, evacuated, mode, faults>>
  BY DEF AdoptCommit, Open
<1>2. /\ staged \in DirectoryRoot /\ root.last \in [Kinds -> 1 .. MaxId] /\ root \in Superblock
      /\ MaxId \in Nat
  BY OwnerView
<1>3. /\ \A f \in staged.refs \ root.directory.refs : Above(cycle.limits, f)
      /\ root.garbage \cap staged.refs = {} /\ staged.refs \subseteq files
      /\ \A k \in Kinds : File(k, root.last[k]) \in files
  BY <1>1 DEF ReclaimInv, StagedAbove, GarbageDead, TreesHeld, FilesHeld
<1>4. c \in BOOLEAN /\ c
  BY <1>3 DEF certify_install, Above
<1>5. root' = [root EXCEPT !.last = root.last, !.directory = staged, !.start = root.last["Segment"]]
  BY <1>1, <1>2 DEF Superblock
<1> HIDE DEF c
<1>6. /\ cohort.stage = "None" => UNCHANGED <<cohort, coverage>>
      /\ cohort.stage # "None" =>
           /\ cohort' = [cohort EXCEPT !.latest = staged, !.broken = FALSE]
           /\ coverage' = [nonce |-> cohort.nonce, root |-> staged]
  BY <1>1, <1>2, <1>4, ObserveView
<1> DEFINE F == {}
<1>7. /\ \A k \in Kinds : root.last[k] <= root.last[k] /\ File(k, root.last[k]) \in files \cup F
      /\ files' = files \cup F /\ F \subseteq Files /\ staged.refs \subseteq files \cup F
      /\ \A f \in F : f.id >= root.last[f.kind]
  BY <1>1, <1>2, <1>3
<1> HIDE DEF F
<1> QED
  BY <1>1, <1>2, <1>3, <1>5, <1>6, <1>7, InstallKeeps

\* A relocated leaf is a batch and its installation in one step.
LEMMA RelocateKeeps == ASSUME ReclaimInv, Relocate PROVE ReclaimInv'
<1>1. /\ mode = "open" /\ staged = NoDirectory /\ root.directory.generation < MaxCommits
      /\ UNCHANGED <<staged, pins, nonce, cycle, floor, owed, evacuated, mode, faults>>
  BY DEF Relocate, Quiet, Open
<1>2. \E next \in Rolls : \E d \in Successors(next) :
         /\ files' = files \cup Fresh(next)
         /\ root' = [root EXCEPT !.last = next, !.directory = d, !.start = next["Segment"]]
         /\ observe_install(d, certify_install(d, next))
  BY DEF Relocate
<1> PICK next \in Rolls : \E d \in Successors(next) :
         /\ files' = files \cup Fresh(next)
         /\ root' = [root EXCEPT !.last = next, !.directory = d, !.start = next["Segment"]]
         /\ observe_install(d, certify_install(d, next))
  BY <1>2
<1> PICK d \in Successors(next) :
         /\ files' = files \cup Fresh(next)
         /\ root' = [root EXCEPT !.last = next, !.directory = d, !.start = next["Segment"]]
         /\ observe_install(d, certify_install(d, next))
  OBVIOUS
<1> DEFINE F == Fresh(next)
           c == certify_install(d, next)
<1>3. /\ d \in DirectoryRoot /\ next \in [Kinds -> 1 .. MaxId] /\ F \subseteq Files
      /\ \A k \in Kinds : root.last[k] <= next[k] /\ File(k, next[k]) \in files \cup F
      /\ \A f \in F : f.id >= root.last[f.kind]
      /\ d.refs \subseteq files \cup F /\ d.refs \subseteq root.directory.refs \cup F
      /\ \A f \in d.refs \ root.directory.refs : f.id >= root.last[f.kind]
  BY <1>1, SuccessorView
<1>4. /\ cycle.limits \in PerKind /\ root.last \in [Kinds -> 1 .. MaxId]
      /\ root.garbage \subseteq Files
      /\ \A k \in Kinds : cycle.limits[k] <= root.last[k]
      /\ \A f \in root.garbage : f.id < root.last[f.kind]
      /\ root.garbage \cap root.directory.refs = {}
  BY OwnerView DEF ReclaimInv, FilesHeld, GarbageDead
<1> HIDE DEF F
<1>5. \A f \in d.refs \ root.directory.refs : Above(cycle.limits, f)
  <2> SUFFICES ASSUME NEW f \in d.refs \ root.directory.refs PROVE Above(cycle.limits, f)
    OBVIOUS
  <2>1. f \in Files
    BY <1>3
  <2> QED
    BY <1>3, <1>4, <2>1, FileFields DEF Above, PerKind
<1>6. root.garbage \cap d.refs = {}
  <2>1. \A f \in root.garbage : f \notin F
    BY <1>3, <1>4, FileFields
  <2> QED
    BY <1>3, <1>4, <2>1
<1>7. c \in BOOLEAN /\ c
  BY <1>5 DEF certify_install, Above
<1> HIDE DEF c
<1>8. /\ cohort.stage = "None" => UNCHANGED <<cohort, coverage>>
      /\ cohort.stage # "None" =>
           /\ cohort' = [cohort EXCEPT !.latest = d, !.broken = FALSE]
           /\ coverage' = [nonce |-> cohort.nonce, root |-> d]
  <2>1. observe_install(d, c)
    BY DEF c
  <2> QED
    BY <1>3, <1>7, <2>1, ObserveView
<1>9. files' = files \cup F
  BY DEF F
<1> QED
  BY <1>1, <1>3, <1>5, <1>6, <1>8, <1>9, InstallKeeps

----------------------------------------------------------------------------
(* The compaction cycle *)

\* Any step of maintenance that leaves no cohort active, no file touched and no
\* garbage behind.
LEMMA SettleKeeps ==
    ASSUME ReclaimInv, staged = NoDirectory, root.garbage = {}, mode' = "open",
           UNCHANGED <<files, staged, pins, nonce>>,
           cohort' = NoCohort, coverage' \in {coverage, NoCoverage},
           root' \in Superblock, root'.directory = root.directory, root'.start = root.start,
           root'.last = root.last, root'.garbage = {},
           \A k \in Kinds : root'.cutoff[k] < root.last[k],
           root'.phase = "Evacuating" => root'.source.refs \subseteq files,
           owed' \in [limits : PerKind, evacuated : 0 .. MaxCommits],
           \A k \in Kinds : owed'.limits[k] <= root.last[k],
           cycle' \in ReclaimCycle, \A k \in Kinds : cycle'.limits[k] <= root.last[k],
           \A f \in cycle'.unprobed : ~Above(cycle'.limits, f),
           cycle'.active =>
             \A f \in files : Above(cycle'.limits, f) \/ f \in cycle'.unprobed \cup cycle'.kept,
           floor' \in PerKind, \A f \in files : f.id >= floor'[f.kind],
           evacuated' \in 0 .. MaxCommits, faults' \in 0 .. MaxFaults
    PROVE  ReclaimInv'
<1>1. TypeOK' /\ cohort' \in Cohort
  BY EmptyView DEF ReclaimInv, TypeOK, Stages
<1>2. FilesHeld'
  BY DEF ReclaimInv, FilesHeld
<1>3. TreesHeld'
  BY EmptyView DEF ReclaimInv, TreesHeld
<1>4. GarbageDead' /\ StagedAbove'
  BY DEF ReclaimInv, GarbageDead, StagedAbove
<1>5. ChainHolds' /\ WalkHolds'
  <2>1. coverage'.nonce <= nonce
    BY EmptyView, OwnerView DEF ReclaimInv, ChainHolds
  <2> QED
    BY <2>1, EmptyView DEF ReclaimInv, ChainHolds, WalkHolds, Above
<1>6. CensusComplete'
  BY EmptyView DEF CensusComplete, FloorHidesNothing, Above
<1> QED
  BY <1>1, <1>2, <1>3, <1>4, <1>5, <1>6 DEF ReclaimInv

\* What those steps leave alone they leave as the invariant wants it.
LEMMA SettledView ==
    ASSUME ReclaimInv
    PROVE  /\ \A k \in Kinds : /\ root.cutoff[k] < root.last[k]
                               /\ owed.limits[k] <= root.last[k]
                               /\ cycle.limits[k] <= root.last[k]
           /\ owed \in [limits : PerKind, evacuated : 0 .. MaxCommits]
           /\ cycle \in ReclaimCycle
           /\ \A f \in cycle.unprobed : ~Above(cycle.limits, f)
           /\ cycle.active =>
                \A f \in files : Above(cycle.limits, f) \/ f \in cycle.unprobed \cup cycle.kept
           /\ floor \in PerKind /\ \A f \in files : f.id >= floor[f.kind]
           /\ evacuated \in 0 .. MaxCommits /\ faults \in 0 .. MaxFaults
           /\ root \in Superblock
           /\ root.phase = "Evacuating" => root.source.refs \subseteq files
           /\ cohort.stage = "None" => cohort = NoCohort
           /\ ~cycle.active \/ root.phase \notin {"Idle", "Reclaiming"} => cohort.stage = "None"
           /\ mode = "open" /\ cohort.stage # "Draining" => root.garbage = {}
BY DEF ReclaimInv, TypeOK, FilesHeld, TreesHeld, CensusComplete, FloorHidesNothing, ChainHolds,
       GarbageDead

\* A new range takes in every file below its limits.
LEMMA NewCycleView ==
    ASSUME ReclaimInv, NEW l \in PerKind
    PROVE  /\ NewCycle(l) \in ReclaimCycle /\ NewCycle(l).limits = l
           /\ \A f \in NewCycle(l).unprobed : ~Above(l, f)
           /\ \A f \in files : Above(l, f) \/ f \in NewCycle(l).unprobed
<1> DEFINE u == {f \in Files : floor[f.kind] <= f.id /\ f.id < l[f.kind]}
<1>1. NewCycle(l) = [active |-> TRUE, limits |-> l, unprobed |-> u, kept |-> {},
                     pin_retained |-> {}]
  <2>1. NewCycle(l) = [NoCycle EXCEPT !.active = TRUE, !.limits = l, !.unprobed = u]
    BY DEF NewCycle
  <2> HIDE DEF u
  <2> QED
    BY <2>1 DEF NoCycle
<1>2. u \subseteq Files
  OBVIOUS
<1>3. /\ \A f \in u : ~Above(l, f)
      /\ \A f \in files : Above(l, f) \/ f \in u
  <2>1. /\ \A f \in files : f.id >= floor[f.kind]
        /\ floor \in PerKind /\ files \subseteq Files
    BY OwnerView DEF ReclaimInv, CensusComplete, FloorHidesNothing
  <2>2. \A f \in Files : f.id \in Nat /\ l[f.kind] \in Nat /\ floor[f.kind] \in Nat
    BY <2>1, FileFields, ReclaimAssumption DEF PerKind
  <2> QED
    BY <2>1, <2>2 DEF Above
<1> HIDE DEF u
<1> QED
  BY <1>1, <1>2, <1>3 DEF ReclaimCycle

\* The limits below a cutoff that is itself below the newest file.
LEMMA LimitsView ==
    ASSUME ReclaimInv, NEW u \in PerKind, \A k \in Kinds : u[k] < root.last[k]
    PROVE  /\ ReclaimLimits(u) \in PerKind
           /\ \A k \in Kinds : ReclaimLimits(u)[k] <= root.last[k]
<1>1. /\ root.last \in [Kinds -> 1 .. MaxId] /\ root.start \in 0 .. MaxId /\ MaxId \in Nat
  BY OwnerView
<1> SUFFICES ASSUME NEW k \in Kinds
             PROVE  ReclaimLimits(u)[k] \in 0 .. MaxId + 1 /\ ReclaimLimits(u)[k] <= root.last[k]
  BY DEF PerKind, ReclaimLimits
<1>2. u[k] \in Nat /\ root.last[k] \in 1 .. MaxId /\ u[k] < root.last[k]
  BY <1>1 DEF PerKind
<1>3. ReclaimLimits(u)[k] \in {u[k] + 1, root.start} /\ ReclaimLimits(u)[k] <= u[k] + 1
  BY <1>1, <1>2 DEF ReclaimLimits, Least
<1> QED
  BY <1>1, <1>2, <1>3

\* The floor a completed range raises passes no present file: each is above the
\* limits or among the files the range kept.
LEMMA FloorView ==
    ASSUME ReclaimInv, raise_floor(cycle), cycle.active, cycle.unprobed = {}
    PROVE  floor' \in PerKind /\ \A f \in files : f.id >= floor'[f.kind]
<1> DEFINE S(k) == {f.id : f \in {g \in cycle.kept : g.kind = k}} \cup {cycle.limits[k]}
           low(k) == Min(S(k))
<1>1. /\ cycle.kept \subseteq Files /\ cycle.limits \in PerKind /\ floor \in PerKind
      /\ files \subseteq Files /\ MaxId \in Nat
  BY OwnerView
<1>2. floor' = [k \in Kinds |-> IF low(k) > floor[k] THEN low(k) ELSE floor[k]]
  BY DEF raise_floor
<1>3. \A k \in Kinds : S(k) \subseteq 0 .. MaxId + 1 /\ S(k) # {}
  BY <1>1, FileFields DEF PerKind
<1>4. \A k \in Kinds : S(k) \subseteq Nat
  BY <1>1, <1>3
<1>5. \A k \in Kinds : low(k) \in S(k) /\ \A y \in S(k) : low(k) <= y
  BY <1>3, <1>4, MinView
<1>6. \A k \in Kinds : low(k) \in 0 .. MaxId + 1
  BY <1>3, <1>5
<1>7. floor' \in PerKind
  <2> HIDE DEF low
  <2> QED
    BY <1>1, <1>2, <1>6 DEF PerKind
<1>8. ASSUME NEW f \in files PROVE f.id >= floor'[f.kind]
  <2>1. f.kind \in Kinds /\ f.id \in Nat /\ f.id >= floor[f.kind]
    BY <1>1, FileFields DEF ReclaimInv, CensusComplete, FloorHidesNothing
  <2>2. f.id >= cycle.limits[f.kind] \/ f \in cycle.kept
    BY DEF ReclaimInv, CensusComplete, Above
  <2>3. low(f.kind) <= f.id
    <3>1. CASE f \in cycle.kept
      <4>1. f.id \in S(f.kind)
        BY <3>1
      <4> QED
        BY <1>5, <2>1, <4>1
    <3>2. CASE f.id >= cycle.limits[f.kind]
      <4>1. cycle.limits[f.kind] \in S(f.kind)
        OBVIOUS
      <4>2. low(f.kind) <= cycle.limits[f.kind]
        BY <1>5, <2>1, <4>1
      <4>3. low(f.kind) \in Nat /\ cycle.limits[f.kind] \in Nat
        BY <1>1, <1>6, <2>1 DEF PerKind
      <4> HIDE DEF low
      <4> QED
        BY <2>1, <3>2, <4>2, <4>3
    <3> QED
      BY <2>2, <3>1, <3>2
  <2> HIDE DEF low
  <2>4. floor'[f.kind] \in {low(f.kind), floor[f.kind]}
    BY <1>2, <2>1
  <2> QED
    BY <1>1, <1>6, <2>1, <2>3, <2>4 DEF PerKind
<1> QED
  BY <1>7, <1>8

\* The cutoffs of a new cycle are below the newest files.
LEMMA CutoffView ==
    ASSUME ReclaimInv
    PROVE  /\ compaction_cutoffs(root) \in PerKind
           /\ \A k \in Kinds : compaction_cutoffs(root)[k] < root.last[k]
<1>1. root.last \in [Kinds -> 1 .. MaxId] /\ MaxId \in Nat
  BY OwnerView
<1> QED
  BY <1>1 DEF compaction_cutoffs, PerKind

\* A cycle begins with the selected root as the tree it evacuates.
LEMMA BeginKeeps == ASSUME ReclaimInv, begin_compaction PROVE ReclaimInv'
<1>1. /\ mode = "open" /\ staged = NoDirectory /\ ~cycle.active /\ root.garbage = {}
      /\ root.cycle < MaxCycles /\ owed' = NoRound
      /\ root' = [root EXCEPT !.phase = "Evacuating", !.cycle = @ + 1,
                              !.cutoff = compaction_cutoffs(root), !.source = root.directory]
      /\ UNCHANGED <<files, staged, pins, coverage, nonce, cycle, cohort, floor, evacuated,
                     mode, faults>>
  BY DEF begin_compaction, Quiet, Open
<1> DEFINE u == compaction_cutoffs(root)
<1>2. u \in PerKind /\ \A k \in Kinds : u[k] < root.last[k]
  BY CutoffView
<1> HIDE DEF u
<1>3. root \in Superblock /\ root.cycle + 1 \in 0 .. MaxCycles /\ root.directory \in DirectoryRoot
  BY <1>1, OwnerView, ReclaimAssumption DEF Superblock
<1>4. root' = [root EXCEPT !.phase = "Evacuating", !.cycle = root.cycle + 1, !.cutoff = u,
                           !.source = root.directory]
  BY <1>1 DEF u
<1>5. /\ root' \in Superblock /\ root'.directory = root.directory /\ root'.start = root.start
      /\ root'.last = root.last /\ root'.garbage = {} /\ root'.cutoff = u
      /\ root'.source = root.directory
  BY <1>1, <1>2, <1>3, <1>4 DEF Superblock, Phases
<1>6. cohort' = NoCohort
  BY <1>1, SettledView
<1>7. root.directory.refs \subseteq files
  BY DEF ReclaimInv, TreesHeld
<1>8. \A k \in Kinds : NoRound.limits[k] <= root.last[k]
  BY OwnerView, EmptyView
<1> QED
  BY <1>1, <1>2, <1>5, <1>6, <1>7, <1>8, SettledView, EmptyView, SettleKeeps

\* The evacuation ends.
LEMMA AdvanceKeeps == ASSUME ReclaimInv, advance_to_reclaiming PROVE ReclaimInv'
<1>1. /\ mode = "open" /\ staged = NoDirectory /\ root.phase = "Evacuating"
      /\ root' = [root EXCEPT !.phase = "Reclaiming", !.source = NoDirectory]
      /\ evacuated' = root.directory.generation
      /\ UNCHANGED <<files, staged, pins, coverage, nonce, cycle, cohort, floor, owed,
                     mode, faults>>
  BY DEF advance_to_reclaiming, Quiet, Open
<1>2. cohort' = NoCohort /\ root.garbage = {}
  BY <1>1, SettledView
<1>3. /\ root' \in Superblock /\ root'.directory = root.directory /\ root'.start = root.start
      /\ root'.last = root.last /\ root'.garbage = {} /\ root'.cutoff = root.cutoff
      /\ root'.phase # "Evacuating"
  BY <1>1, <1>2, OwnerView, EmptyView DEF Superblock, Phases
<1>4. evacuated' \in 0 .. MaxCommits
  BY <1>1, OwnerView DEF DirectoryRoot
<1> QED
  BY <1>1, <1>2, <1>3, <1>4, SettledView, SettleKeeps

\* The cycle itself ends.
LEMMA FinishCompactionKeeps == ASSUME ReclaimInv, finish_compaction PROVE ReclaimInv'
<1>1. /\ mode = "open" /\ staged = NoDirectory /\ root.phase = "Packing"
      /\ root' = [root EXCEPT !.phase = "Idle", !.cutoff = [k \in Kinds |-> 0]]
      /\ UNCHANGED <<files, staged, pins, coverage, nonce, cycle, cohort, floor, owed, evacuated,
                     mode, faults>>
  BY DEF finish_compaction, Quiet, Open
<1>2. cohort' = NoCohort /\ root.garbage = {}
  BY <1>1, SettledView
<1>3. [k \in Kinds |-> 0] \in PerKind
  BY ReclaimAssumption DEF PerKind
<1>4. /\ root' \in Superblock /\ root'.directory = root.directory /\ root'.start = root.start
      /\ root'.last = root.last /\ root'.garbage = {} /\ root'.cutoff = [k \in Kinds |-> 0]
      /\ root'.phase # "Evacuating"
  BY <1>1, <1>2, <1>3, OwnerView DEF Superblock, Phases
<1>5. \A k \in Kinds : root'.cutoff[k] < root.last[k]
  BY <1>4, OwnerView
<1> QED
  BY <1>1, <1>2, <1>4, <1>5, SettledView, SettleKeeps

\* A range starts, for a cycle, a round or a reopened owner.
LEMMA NewCycleKeeps ==
    ASSUME ReclaimInv, ~cycle.active \/ cohort.stage = "None", staged = NoDirectory,
           root.garbage = {}, mode' = "open", owed' \in {owed, NoRound},
           NEW l \in PerKind, \A k \in Kinds : l[k] <= root.last[k], cycle' = NewCycle(l),
           UNCHANGED <<files, root, staged, pins, coverage, nonce, cohort, floor, evacuated, faults>>
    PROVE  ReclaimInv'
<1>1. cohort' = NoCohort
  BY SettledView
<1>2. /\ cycle' \in ReclaimCycle /\ cycle'.limits = l
      /\ \A f \in cycle'.unprobed : ~Above(cycle'.limits, f)
      /\ \A f \in files : Above(cycle'.limits, f) \/ f \in cycle'.unprobed
  BY NewCycleView
<1>3. /\ owed' \in [limits : PerKind, evacuated : 0 .. MaxCommits]
      /\ \A k \in Kinds : owed'.limits[k] <= root.last[k]
  BY SettledView, EmptyView, OwnerView
<1>4. /\ root' \in Superblock /\ root'.directory = root.directory /\ root'.start = root.start
      /\ root'.last = root.last /\ root'.garbage = {}
      /\ \A k \in Kinds : root'.cutoff[k] < root.last[k]
      /\ root'.phase = "Evacuating" => root'.source.refs \subseteq files
  BY SettledView
<1>5. /\ floor' \in PerKind /\ \A f \in files : f.id >= floor'[f.kind]
      /\ evacuated' \in 0 .. MaxCommits /\ faults' \in 0 .. MaxFaults
  BY SettledView
<1> QED
  BY <1>1, <1>2, <1>3, <1>4, <1>5, SettleKeeps

\* The cycle's range, below its cutoff.
LEMMA StartCycleKeeps == ASSUME ReclaimInv, start_reclaim_cycle PROVE ReclaimInv'
<1>1. /\ mode' = "open" /\ mode = "open" /\ staged = NoDirectory /\ ~cycle.active
      /\ cycle' = NewCycle(ReclaimLimits(root.cutoff))
      /\ UNCHANGED <<files, root, staged, pins, coverage, nonce, cohort, floor, owed, evacuated,
                     faults>>
  BY DEF start_reclaim_cycle, Quiet, Open
<1>2. root.garbage = {}
  BY <1>1, SettledView
<1>3. ReclaimLimits(root.cutoff) \in PerKind
      /\ \A k \in Kinds : ReclaimLimits(root.cutoff)[k] <= root.last[k]
  BY OwnerView, SettledView, LimitsView
<1> QED
  BY <1>1, <1>2, <1>3, NewCycleKeeps

\* The range of the round a cycle owes.
LEMMA StartRoundKeeps == ASSUME ReclaimInv, start_round PROVE ReclaimInv'
<1>1. /\ mode' = "open" /\ mode = "open" /\ staged = NoDirectory /\ ~cycle.active
      /\ cycle' = NewCycle(owed.limits) /\ owed' = NoRound
      /\ UNCHANGED <<files, root, staged, pins, coverage, nonce, cohort, floor, evacuated, faults>>
  BY DEF start_round, Quiet, Open
<1>2. root.garbage = {}
  BY <1>1, SettledView
<1>3. owed.limits \in PerKind /\ \A k \in Kinds : owed.limits[k] <= root.last[k]
  BY OwnerView, SettledView
<1> QED
  BY <1>1, <1>2, <1>3, NewCycleKeeps

\* The range of a reopened owner, or none.
LEMMA ReopenedKeeps == ASSUME ReclaimInv, arm_reopen_round PROVE ReclaimInv'
<1>1. /\ mode = "opening" /\ root.garbage = {} /\ mode' = "open"
      /\ UNCHANGED <<files, root, staged, pins, coverage, nonce, cohort, floor, owed, evacuated,
                     faults>>
  BY DEF arm_reopen_round
<1>2. cohort.stage = "None" /\ cohort' = NoCohort /\ staged = NoDirectory
  BY <1>1, SettledView DEF ReclaimInv, StagedAbove
<1> DEFINE l == ReclaimLimits(compaction_cutoffs(root))
<1>3. cycle' = NewCycle(l) \/ cycle' = NoCycle
  BY DEF arm_reopen_round
<1>4. l \in PerKind /\ \A k \in Kinds : l[k] <= root.last[k]
  BY CutoffView, LimitsView
<1> HIDE DEF l
<1>5. CASE cycle' = NewCycle(l)
  BY <1>1, <1>2, <1>4, <1>5, NewCycleKeeps
<1>6. CASE cycle' = NoCycle
  <2>1. /\ cycle' \in ReclaimCycle /\ \A k \in Kinds : cycle'.limits[k] <= root.last[k]
        /\ cycle'.unprobed = {} /\ ~cycle'.active
    BY <1>6, EmptyView, OwnerView
  <2> QED
    BY <1>1, <1>2, <2>1, SettledView, SettleKeeps
<1> QED
  BY <1>3, <1>5, <1>6

\* A range ends and raises the floor.
LEMMA CompleteCycleKeeps == ASSUME ReclaimInv, complete_reclaim_cycle PROVE ReclaimInv'
<1>1. /\ mode = "open" /\ staged = NoDirectory /\ cycle.active /\ cohort = NoCohort
      /\ root.garbage = {} /\ cycle.unprobed = {} /\ raise_floor(cycle) /\ cycle' = NoCycle
      /\ root' = [root EXCEPT !.phase = "Packing"]
      /\ owed' \in {NoRound, [limits |-> cycle.limits, evacuated |-> evacuated]}
      /\ UNCHANGED <<files, staged, pins, coverage, nonce, cohort, evacuated, mode, faults>>
  BY DEF complete_reclaim_cycle, Quiet, Open, RangeDone
<1>2. /\ root' \in Superblock /\ root'.directory = root.directory /\ root'.start = root.start
      /\ root'.last = root.last /\ root'.garbage = {} /\ root'.cutoff = root.cutoff
      /\ root'.phase # "Evacuating"
  BY <1>1, OwnerView DEF Superblock, Phases
<1>3. /\ cycle' \in ReclaimCycle /\ \A k \in Kinds : cycle'.limits[k] <= root.last[k]
      /\ cycle'.unprobed = {} /\ ~cycle'.active
  BY <1>1, EmptyView, OwnerView
<1>4. /\ owed' \in [limits : PerKind, evacuated : 0 .. MaxCommits]
      /\ \A k \in Kinds : owed'.limits[k] <= root.last[k]
  <2>1. CASE owed' = NoRound
    BY <2>1, EmptyView, OwnerView
  <2>2. CASE owed' = [limits |-> cycle.limits, evacuated |-> evacuated]
    BY <2>2, SettledView, OwnerView
  <2> QED
    BY <1>1, <2>1, <2>2
<1>5. floor' \in PerKind /\ \A f \in files : f.id >= floor'[f.kind]
  BY <1>1, FloorView
<1> QED
  BY <1>1, <1>2, <1>3, <1>4, <1>5, SettledView, SettleKeeps

\* The same for a round.
LEMMA CompleteRoundKeeps == ASSUME ReclaimInv, complete_round PROVE ReclaimInv'
<1>1. /\ mode = "open" /\ staged = NoDirectory /\ cycle.active /\ cohort = NoCohort
      /\ root.garbage = {} /\ cycle.unprobed = {} /\ raise_floor(cycle) /\ cycle' = NoCycle
      /\ UNCHANGED <<files, root, staged, pins, coverage, nonce, cohort, owed, evacuated, mode, faults>>
  BY DEF complete_round, Quiet, Open, RangeDone
<1>2. /\ cycle' \in ReclaimCycle /\ \A k \in Kinds : cycle'.limits[k] <= root.last[k]
      /\ cycle'.unprobed = {} /\ ~cycle'.active
  BY <1>1, EmptyView, OwnerView
<1>3. floor' \in PerKind /\ \A f \in files : f.id >= floor'[f.kind]
  BY <1>1, FloorView
<1> QED
  BY <1>1, <1>2, <1>3, SettledView, SettleKeeps

\* A refused admission drops the cohort and keeps the range.
LEMMA RefusedKeeps == ASSUME ReclaimInv, local_reclaim_failure PROVE ReclaimInv'
<1>1. /\ mode = "open" /\ staged = NoDirectory /\ cohort.stage \in {"Collecting", "Walking", "Walked"}
      /\ faults < MaxFaults /\ faults' = faults + 1 /\ coverage' = NoCoverage /\ cohort' = NoCohort
      /\ UNCHANGED <<files, root, staged, pins, nonce, cycle, floor, owed, evacuated, mode>>
  BY DEF local_reclaim_failure, CanStep, Quiet, Open, end_coverage
<1>2. root.garbage = {}
  BY <1>1, SettledView
<1>3. faults' \in 0 .. MaxFaults
  BY <1>1, SettledView, ReclaimAssumption
<1> QED
  BY <1>1, <1>2, <1>3, SettledView, SettleKeeps

\* A finished cohort has accounted for every present file it probed: those it did
\* not prove are kept, and those it proved are gone.
LEMMA FinishCohortKeeps == ASSUME ReclaimInv, FinishCohort PROVE ReclaimInv'
<1> DEFINE kept == (cohort.candidates \ cohort.proofs) \cup cohort.skipped
           held == cohort.pinned \ (cohort.current \cup cohort.proofs)
<1>1. /\ mode = "open" /\ staged = NoDirectory
      /\ cycle' = [cycle EXCEPT !.unprobed = @ \ cohort.probed, !.kept = @ \cup kept,
                                !.pin_retained = @ \cup held]
      /\ coverage' = NoCoverage /\ cohort' = NoCohort
      /\ UNCHANGED <<files, root, staged, pins, nonce, floor, owed, evacuated, mode, faults>>
      /\ cohort.stage = "Walked" \/ (cohort.stage = "Draining" /\ root.garbage = {})
  BY DEF FinishCohort, Finished, end_coverage, CanStep, Quiet, Open
<1>2. root.garbage = {}
  BY <1>1, SettledView
<1>3. /\ cohort.candidates \subseteq Files /\ cohort.skipped \subseteq Files
      /\ cohort.pinned \subseteq Files /\ cycle \in ReclaimCycle
      /\ cohort.proofs \subseteq Files
  BY OwnerView DEF Cohort
<1>4. kept \subseteq Files /\ held \subseteq Files
  BY <1>3
<1>5. \A f \in files \cap cohort.probed : f \in kept
  <2>1. files \cap cohort.proofs = {}
    BY <1>1, <1>2 DEF ReclaimInv, CensusComplete, WalkHolds
  <2> QED
    BY <2>1 DEF ReclaimInv, CensusComplete
<1> HIDE DEF kept, held
<1>6. /\ cycle' \in ReclaimCycle /\ cycle'.limits = cycle.limits /\ cycle'.active = cycle.active
      /\ cycle'.unprobed = cycle.unprobed \ cohort.probed
      /\ cycle'.kept = cycle.kept \cup kept
  BY <1>1, <1>3, <1>4 DEF ReclaimCycle
<1>7. /\ \A k \in Kinds : cycle'.limits[k] <= root.last[k]
      /\ \A f \in cycle'.unprobed : ~Above(cycle'.limits, f)
      /\ cycle'.active =>
           \A f \in files : Above(cycle'.limits, f) \/ f \in cycle'.unprobed \cup cycle'.kept
  BY <1>5, <1>6, SettledView
<1> QED
  BY <1>1, <1>2, <1>6, <1>7, SettledView, SettleKeeps

----------------------------------------------------------------------------
(* One cohort *)

\* A step that only moves the cohort on: the files, the trees and the chain are
\* as they were.
LEMMA CohortKeeps ==
    ASSUME ReclaimInv, UNCHANGED <<files, root, staged, pins, coverage, nonce, cycle, floor, owed,
                                   evacuated, mode, faults>>,
           cohort.stage \in {"Collecting", "Walking"}, cohort' \in Cohort,
           cohort'.stage \in {"Walking", "Walked"}, cohort'.nonce = cohort.nonce,
           cohort'.r0 = cohort.r0, cohort'.latest = cohort.latest,
           cohort'.broken = cohort.broken, cohort'.capture = cohort.capture,
           cohort'.proofs = cohort.proofs, cohort'.unwalked \subseteq cohort.unwalked,
           cohort'.probed \subseteq cycle.unprobed,
           \A f \in files \cap cohort'.probed : f \in cohort'.candidates \cup cohort'.skipped,
           \A f \in cohort'.candidates : ~Above(cycle.limits, f),
           \A r \in cohort.capture \cup {cohort.r0} :
              \/ cohort'.stage = "Walking" /\ r \in cohort'.unwalked
              \/ cohort'.candidates \cap r.refs \subseteq referenced(cohort')
    PROVE  ReclaimInv'
<1>1. cohort.proofs = {} /\ cohort.stage # "None"
  BY DEF ReclaimInv, WalkHolds
<1>2. TypeOK'
  BY <1>1 DEF ReclaimInv, TypeOK, Cohort
<1>3. FilesHeld' /\ StagedAbove'
  BY <1>1 DEF ReclaimInv, FilesHeld, StagedAbove, Above
<1>4. TreesHeld'
  BY DEF ReclaimInv, TreesHeld
<1>5. GarbageDead'
  BY DEF ReclaimInv, GarbageDead
<1>6. ChainHolds'
  BY <1>1 DEF ReclaimInv, ChainHolds, Live, Covered, Above
<1>7. WalkHolds'
  BY <1>1 DEF WalkHolds, Above, referenced
<1>8. CensusComplete'
  BY DEF ReclaimInv, CensusComplete, FloorHidesNothing, Above
<1> QED
  BY <1>2, <1>3, <1>4, <1>5, <1>6, <1>7, <1>8 DEF ReclaimInv

\* A new cohort's nonce is no pin's stamp: every pin is captured.
LEMMA StartCohortKeeps == ASSUME ReclaimInv, StartCohort PROVE ReclaimInv'
<1> DEFINE n == nonce + 1
           d == root.directory
<1>1. /\ mode = "open" /\ staged = NoDirectory /\ root.phase \in {"Idle", "Reclaiming"}
      /\ cycle.active /\ cohort = NoCohort /\ nonce' = n
      /\ cohort' = [NoCohort EXCEPT !.stage = "Collecting", !.nonce = n, !.r0 = d, !.latest = d,
                      !.capture = PinnedRoots, !.unwalked = PinnedRoots \cup {d}]
      /\ coverage' = [nonce |-> n, root |-> d]
      /\ UNCHANGED <<files, root, staged, pins, cycle, floor, owed, evacuated, mode, faults>>
  BY DEF StartCohort, CanStep, Quiet, Open
<1>2. /\ d \in DirectoryRoot /\ nonce \in Nat /\ n \in Nat /\ n # 0 /\ NoCohort \in Cohort
      /\ pins \in [Pins -> [root : DirectoryRoot, stamp : Nat]]
  BY OwnerView, EmptyView
<1>3. PinnedRoots \subseteq DirectoryRoot /\ \A p \in Live : pins[p].root \in PinnedRoots
  BY <1>2 DEF PinnedRoots, Live
<1>4. /\ cohort' \in Cohort /\ cohort'.stage = "Collecting" /\ cohort'.nonce = n
      /\ cohort'.r0 = d /\ cohort'.latest = d /\ cohort'.broken = FALSE
      /\ cohort'.capture = PinnedRoots /\ cohort'.unwalked = PinnedRoots \cup {d}
      /\ cohort'.proofs = {} /\ cohort'.candidates = {} /\ cohort'.probed = {}
  BY <1>1, <1>2, <1>3 DEF NoCohort, Cohort, Stages
<1>5. root.garbage = {} /\ root'.garbage = {}
  BY <1>1, EmptyView, SettledView
<1>6. TypeOK'
  BY <1>1, <1>2, <1>4 DEF ReclaimInv, TypeOK, Stages
<1>7. FilesHeld' /\ StagedAbove'
  BY <1>1 DEF ReclaimInv, FilesHeld, StagedAbove
<1>8. TreesHeld'
  <2>1. \A r \in PinnedRoots \cup {d} : r.refs \subseteq files
    BY DEF ReclaimInv, TreesHeld, PinnedRoots, Live
  <2> QED
    BY <1>1, <1>4, <2>1 DEF ReclaimInv, TreesHeld
<1>9. GarbageDead'
  BY <1>1, <1>5 DEF ReclaimInv, GarbageDead
<1>10. ChainHolds'
  <2>1. coverage'.nonce <= nonce' /\ \A p \in Pins : pins'[p].stamp <= nonce' /\ pins'[p].stamp # n
    BY <1>1, <1>2 DEF ReclaimInv, ChainHolds
  <2>2. \A p \in Live' : p \in Pins /\ pins'[p].root \in cohort'.capture
    BY <1>1, <1>3, <1>4 DEF Live
  <2>3. Covered(root.directory)'
    BY <1>1, <1>4 DEF Covered
  <2> HIDE DEF n
  <2>4. n <= nonce'
    BY <1>1, <1>2
  <2> QED
    BY <1>1, <1>2, <1>4, <2>1, <2>2, <2>3, <2>4 DEF ChainHolds
<1>11. WalkHolds'
  BY <1>4 DEF WalkHolds
<1>12. CensusComplete'
  BY <1>1, <1>4 DEF ReclaimInv, CensusComplete, FloorHidesNothing, Above
<1> QED
  BY <1>4, <1>6, <1>7, <1>8, <1>9, <1>10, <1>11, <1>12 DEF ReclaimInv

\* Probing in identifier order: a present file at or before one of the batch is in
\* the batch itself, or is the arena that is skipped.
LEMMA CollectKeeps == ASSUME ReclaimInv, collect PROVE ReclaimInv'
<1> DEFINE arena == {f \in cycle.unprobed : f = File("Directory", cohort.r0.arena)}
           present == (cycle.unprobed \cap files) \ arena
           upto(f) == {g \in present : ProbeOrder(g) <= ProbeOrder(f)}
           full == {f \in present : Cardinality(upto(f)) <= MAX_GARBAGE}
           probed == IF full = present THEN cycle.unprobed
                     ELSE {f \in cycle.unprobed : \E g \in full : ProbeOrder(f) <= ProbeOrder(g)}
<1>1. /\ cohort.stage = "Collecting"
      /\ cohort' = [cohort EXCEPT !.stage = "Walking", !.candidates = full,
                                  !.probed = probed, !.skipped = arena \cap probed]
      /\ UNCHANGED <<files, root, staged, pins, coverage, nonce, cycle, floor, owed, evacuated,
                     mode, faults>>
  BY DEF collect
<1>2. /\ cycle.unprobed \subseteq Files /\ cohort \in Cohort /\ MaxId \in Nat
      /\ MAX_GARBAGE \in Nat
  BY OwnerView, ReclaimAssumption
<1>3. \A f \in Files : ProbeOrder(f) \in Nat
  BY <1>2, FileFields DEF ProbeOrder
<1>4. present \subseteq Files /\ IsFiniteSet(present)
  BY <1>2, FilesFinite, FS_Subset
<1>5. \A f \in files \cap probed : f \in full \cup (arena \cap probed)
  <2> SUFFICES ASSUME NEW f \in files \cap probed, f \notin arena PROVE f \in full
    OBVIOUS
  <2>1. f \in cycle.unprobed /\ f \in present /\ f \in Files
    BY <1>2
  <2>2. CASE full = present
    BY <2>1, <2>2
  <2>3. CASE full # present
    <3>1. PICK g \in full : ProbeOrder(f) <= ProbeOrder(g)
      BY <2>3
    <3>2. g \in Files /\ ProbeOrder(g) \in Nat /\ ProbeOrder(f) \in Nat
      BY <1>3, <1>4, <2>1, <3>1
    <3>3. upto(f) \subseteq upto(g)
      <4> SUFFICES ASSUME NEW h \in present, ProbeOrder(h) <= ProbeOrder(f)
                   PROVE  ProbeOrder(h) <= ProbeOrder(g)
        OBVIOUS
      <4>1. ProbeOrder(h) \in Nat
        BY <1>3, <1>4
      <4> QED
        BY <3>1, <3>2, <4>1
    <3>4. IsFiniteSet(upto(g))
      BY <1>4, FS_Subset
    <3>5. IsFiniteSet(upto(f)) /\ Cardinality(upto(f)) <= Cardinality(upto(g))
      BY <3>3, <3>4, FS_Subset
    <3>6. Cardinality(upto(f)) \in Nat /\ Cardinality(upto(g)) \in Nat
      BY <3>4, <3>5, FS_CardinalityType
    <3>7. Cardinality(upto(g)) <= MAX_GARBAGE
      BY <3>1
    <3>8. Cardinality(upto(f)) <= MAX_GARBAGE
      <4> HIDE DEF upto
      <4> QED
        BY <1>2, <3>5, <3>6, <3>7
    <3> QED
      BY <2>1, <3>8
  <2> QED
    BY <2>2, <2>3
<1>6. full \subseteq cycle.unprobed /\ probed \subseteq cycle.unprobed /\ arena \subseteq cycle.unprobed
  OBVIOUS
<1> HIDE DEF full, probed, arena
<1>7. /\ cohort' \in Cohort /\ cohort'.stage = "Walking" /\ cohort'.candidates = full
      /\ cohort'.probed = probed /\ cohort'.skipped = arena \cap probed
      /\ cohort'.nonce = cohort.nonce /\ cohort'.r0 = cohort.r0
      /\ cohort'.latest = cohort.latest /\ cohort'.broken = cohort.broken
      /\ cohort'.capture = cohort.capture /\ cohort'.proofs = cohort.proofs
      /\ cohort'.unwalked = cohort.unwalked
  <2>1. full \subseteq Files /\ probed \subseteq Files /\ arena \cap probed \subseteq Files
    BY <1>2, <1>6
  <2> QED
    BY <1>1, <1>2, <2>1 DEF Cohort, Stages
<1>8. \A r \in cohort.capture \cup {cohort.r0} : r \in cohort'.unwalked
  BY <1>1, <1>7 DEF ReclaimInv, WalkHolds
<1>9. \A f \in cohort'.candidates : ~Above(cycle.limits, f)
  BY <1>6, <1>7 DEF ReclaimInv, CensusComplete
<1> QED
  BY <1>1, <1>5, <1>6, <1>7, <1>8, <1>9, CohortKeeps

\* A walked tree's candidates are all marked as referenced.
LEMMA WalkKeeps == ASSUME ReclaimInv, walk PROVE ReclaimInv'
<1>1. /\ cohort.stage = "Walking"
      /\ UNCHANGED <<files, root, staged, pins, coverage, nonce, cycle, floor, owed, evacuated,
                     mode, faults>>
  BY DEF walk
<1>2. /\ cohort \in Cohort
      /\ \A r \in cohort.capture \cup {cohort.r0} :
            r \in cohort.unwalked \/ cohort.candidates \cap r.refs \subseteq referenced(cohort)
      /\ cohort.probed \subseteq cycle.unprobed
      /\ \A f \in files \cap cohort.probed : f \in cohort.candidates \cup cohort.skipped
      /\ \A f \in cohort.candidates : ~Above(cycle.limits, f)
  BY <1>1 DEF ReclaimInv, WalkHolds, CensusComplete
<1>3. CASE /\ cohort.candidates = {} \/ cohort.unwalked = {}
           /\ cohort' = [cohort EXCEPT !.stage = "Walked"]
  <2>1. /\ cohort' \in Cohort /\ cohort'.stage = "Walked" /\ cohort'.candidates = cohort.candidates
        /\ cohort'.probed = cohort.probed /\ cohort'.skipped = cohort.skipped
        /\ cohort'.nonce = cohort.nonce /\ cohort'.r0 = cohort.r0
        /\ cohort'.latest = cohort.latest /\ cohort'.broken = cohort.broken
        /\ cohort'.capture = cohort.capture /\ cohort'.proofs = cohort.proofs
        /\ cohort'.unwalked = cohort.unwalked /\ cohort'.current = cohort.current
        /\ cohort'.pinned = cohort.pinned
    BY <1>2, <1>3 DEF Cohort, Stages
  <2>2. \A r \in cohort.capture \cup {cohort.r0} :
           cohort'.candidates \cap r.refs \subseteq referenced(cohort')
    BY <1>2, <1>3, <2>1 DEF referenced
  <2> QED
    BY <1>1, <1>2, <2>1, <2>2, CohortKeeps
<1>4. ASSUME NEW r \in cohort.unwalked, NEW cur \in SUBSET Files, NEW pin \in SUBSET Files,
             cohort.current \subseteq cur, cohort.pinned \subseteq pin,
             cohort.candidates \cap r.refs \subseteq cur \cup pin,
             cohort' = [cohort EXCEPT !.unwalked = @ \ {r}, !.current = cur, !.pinned = pin]
      PROVE  ReclaimInv'
  <2>1. /\ cohort' \in Cohort /\ cohort'.stage = "Walking" /\ cohort'.candidates = cohort.candidates
        /\ cohort'.probed = cohort.probed /\ cohort'.skipped = cohort.skipped
        /\ cohort'.nonce = cohort.nonce /\ cohort'.r0 = cohort.r0
        /\ cohort'.latest = cohort.latest /\ cohort'.broken = cohort.broken
        /\ cohort'.capture = cohort.capture /\ cohort'.proofs = cohort.proofs
        /\ cohort'.unwalked = cohort.unwalked \ {r} /\ cohort'.current = cur
        /\ cohort'.pinned = pin
    BY <1>1, <1>2, <1>4 DEF Cohort
  <2>2. \A q \in cohort.capture \cup {cohort.r0} :
           \/ q \in cohort'.unwalked
           \/ cohort'.candidates \cap q.refs \subseteq referenced(cohort')
    BY <1>2, <1>4, <2>1 DEF referenced
  <2> QED
    BY <1>1, <1>2, <2>1, <2>2, CohortKeeps
<1>5. CASE \E r \in cohort.unwalked :
              LET hit == cohort.candidates \cap r.refs
              IN cohort' = [cohort EXCEPT !.unwalked = @ \ {r},
                              !.current = IF r = cohort.r0 THEN @ \cup hit ELSE @,
                              !.pinned = IF r = cohort.r0 THEN @ ELSE @ \cup hit]
  <2>1. PICK r \in cohort.unwalked :
              LET hit == cohort.candidates \cap r.refs
              IN cohort' = [cohort EXCEPT !.unwalked = @ \ {r},
                              !.current = IF r = cohort.r0 THEN @ \cup hit ELSE @,
                              !.pinned = IF r = cohort.r0 THEN @ ELSE @ \cup hit]
    BY <1>5
  <2> DEFINE hit == cohort.candidates \cap r.refs
             cur == IF r = cohort.r0 THEN cohort.current \cup hit ELSE cohort.current
             pin == IF r = cohort.r0 THEN cohort.pinned ELSE cohort.pinned \cup hit
  <2>2. cohort' = [cohort EXCEPT !.unwalked = @ \ {r}, !.current = cur, !.pinned = pin]
    BY <2>1
  <2>3. hit \subseteq Files /\ cohort.current \subseteq Files /\ cohort.pinned \subseteq Files
    BY <1>2 DEF Cohort
  <2>4. /\ cur \in SUBSET Files /\ pin \in SUBSET Files
        /\ cohort.current \subseteq cur /\ cohort.pinned \subseteq pin /\ hit \subseteq cur \cup pin
    BY <2>3
  <2> HIDE DEF cur, pin
  <2> QED
    BY <1>4, <2>2, <2>4
<1>6. \/ /\ cohort.candidates = {} \/ cohort.unwalked = {}
         /\ cohort' = [cohort EXCEPT !.stage = "Walked"]
      \/ \E r \in cohort.unwalked :
           LET hit == cohort.candidates \cap r.refs
           IN cohort' = [cohort EXCEPT !.unwalked = @ \ {r},
                           !.current = IF r = cohort.r0 THEN @ \cup hit ELSE @,
                           !.pinned = IF r = cohort.r0 THEN @ ELSE @ \cup hit]
  BY DEF walk
<1> QED
  BY <1>3, <1>5, <1>6

\* What a cohort proves is dead: its candidates are below its limits, so a tree of
\* the chain has them only from R0, and R0 and every captured tree were walked.
LEMMA SealKeeps == ASSUME ReclaimInv, Seal PROVE ReclaimInv'
<1> DEFINE G == mint_proofs(cohort)
<1>1. /\ mode = "open" /\ staged = NoDirectory /\ root.phase \in {"Idle", "Reclaiming"}
      /\ cohort.stage = "Walked" /\ G # {}
      /\ root' = [root EXCEPT !.garbage = G]
      /\ cohort' = [cohort EXCEPT !.stage = "Draining", !.proofs = G]
      /\ UNCHANGED <<files, staged, pins, coverage, nonce, cycle, floor, owed, evacuated,
                     mode, faults>>
  BY DEF Seal, CanStep, Quiet, Open
<1>2. /\ G \subseteq cohort.candidates /\ G \cap referenced(cohort) = {}
      /\ \A f \in G : f.id < root.last[f.kind] /\ (f.kind = "Segment" => f.id < root.start)
  BY DEF mint_proofs, file_is_retirable
<1> HIDE DEF G
<1>3. /\ cohort \in Cohort /\ root \in Superblock /\ G \subseteq Files
      /\ root.directory \in DirectoryRoot
  BY <1>2, OwnerView
<1>4. /\ root' \in Superblock /\ root'.garbage = G /\ root'.directory = root.directory
      /\ root'.start = root.start /\ root'.last = root.last /\ root'.phase = root.phase
      /\ root'.cutoff = root.cutoff /\ root'.source = root.source
  BY <1>1, <1>3 DEF Superblock
<1>5. /\ cohort' \in Cohort /\ cohort'.stage = "Draining" /\ cohort'.proofs = G
      /\ cohort'.candidates = cohort.candidates
      /\ cohort'.probed = cohort.probed /\ cohort'.skipped = cohort.skipped
      /\ cohort'.nonce = cohort.nonce /\ cohort'.r0 = cohort.r0
      /\ cohort'.latest = cohort.latest /\ cohort'.broken = cohort.broken
      /\ cohort'.capture = cohort.capture
      /\ cohort'.current = cohort.current /\ cohort'.pinned = cohort.pinned
  BY <1>1, <1>3 DEF Cohort, Stages
<1>6. \A r \in cohort.capture \cup {cohort.r0} : G \cap r.refs = {}
  BY <1>1, <1>2 DEF ReclaimInv, WalkHolds
<1>7. \A r : Covered(r) => G \cap r.refs = {}
  <2>1. \A f \in G : ~Above(cycle.limits, f)
    BY <1>2 DEF ReclaimInv, WalkHolds
  <2> QED
    BY <1>6, <2>1 DEF Covered
<1>8. G \cap root.directory.refs = {}
  BY <1>1, <1>7 DEF ReclaimInv, ChainHolds
<1>9. \A p \in Pins : G \cap pins[p].root.refs = {}
  <2> SUFFICES ASSUME NEW p \in Pins PROVE G \cap pins[p].root.refs = {}
    OBVIOUS
  <2>1. CASE p \in Live
    <3>1. pins[p].root \in cohort.capture \/ Covered(pins[p].root)
      BY <1>1, <2>1 DEF ReclaimInv, ChainHolds
    <3> QED
      BY <1>6, <1>7, <3>1
  <2>2. CASE p \notin Live
    BY <2>2, EmptyView DEF Live
  <2> QED
    BY <2>1, <2>2
<1>10. TypeOK'
  BY <1>1, <1>3, <1>4, <1>5 DEF ReclaimInv, TypeOK, Stages
<1>11. FilesHeld' /\ StagedAbove'
  BY <1>1, <1>4 DEF ReclaimInv, FilesHeld, StagedAbove
<1>12. TreesHeld'
  BY <1>1, <1>4, <1>5 DEF ReclaimInv, TreesHeld
<1>13. GarbageDead'
  BY <1>1, <1>2, <1>4, <1>5, <1>8, <1>9, EmptyView DEF GarbageDead
<1>14. ChainHolds'
  BY <1>1, <1>4, <1>5 DEF ReclaimInv, ChainHolds, Live, Covered, Above
<1>15. WalkHolds'
  BY <1>1, <1>2, <1>5 DEF ReclaimInv, WalkHolds, referenced, Above
<1>16. CensusComplete'
  BY <1>1, <1>4, <1>5 DEF ReclaimInv, CensusComplete, FloorHidesNothing, Above
<1> QED
  BY <1>5, <1>10, <1>11, <1>12, <1>13, <1>14, <1>15, <1>16 DEF ReclaimInv

\* Unlinking recorded garbage takes nothing that is needed, whether the record is
\* shortened with it or the owner stops in between.
LEMMA UnlinkKeeps ==
    ASSUME ReclaimInv, NEW f \in root.garbage, files' = files \ {f},
           root' = [root EXCEPT !.garbage = @ \ {f}] \/ root' = root,
           mode' \in {mode, "failed"}, faults' \in 0 .. MaxFaults,
           UNCHANGED <<staged, pins, coverage, nonce, cycle, cohort, floor, owed, evacuated>>
    PROVE  ReclaimInv'
<1>1. /\ root \in Superblock /\ f \in Files /\ f.kind \in Kinds /\ f.id \in 1 .. MaxId
      /\ root.last \in [Kinds -> 1 .. MaxId] /\ root.start \in 0 .. MaxId /\ MaxId \in Nat
      /\ "Segment" \in Kinds
  BY OwnerView, FileFields
<1>2. /\ root' \in Superblock /\ root'.garbage \in {root.garbage, root.garbage \ {f}}
      /\ root'.directory = root.directory
      /\ root'.start = root.start /\ root'.last = root.last /\ root'.phase = root.phase
      /\ root'.cutoff = root.cutoff /\ root'.source = root.source
  BY <1>1 DEF Superblock
<1>3. /\ f \notin root.directory.refs /\ f \notin staged.refs
      /\ \A p \in Pins : f \notin pins[p].root.refs
      /\ f.id < root.last[f.kind] /\ (f.kind = "Segment" => f.id < root.start)
      /\ root.phase # "Evacuating" /\ cohort.stage \in {"None", "Draining"}
  BY DEF ReclaimInv, GarbageDead
<1>4. TypeOK' /\ (cohort \in Cohort)'
  BY <1>1, <1>2 DEF ReclaimInv, TypeOK
<1>5. FilesHeld'
  <2>1. \A k \in Kinds : File(k, root.last[k]) # f
    BY <1>1, <1>3, FileFields
  <2>2. \A i \in root.start .. root.last["Segment"] : i # 0 => File("Segment", i) # f
    <3> SUFFICES ASSUME NEW i \in root.start .. root.last["Segment"], i # 0
                 PROVE  File("Segment", i) # f
      OBVIOUS
    <3>1. i \in 1 .. MaxId /\ i >= root.start
      BY <1>1
    <3>2. File("Segment", i).kind = "Segment" /\ File("Segment", i).id = i
      BY DEF File
    <3> QED
      BY <1>1, <1>3, <3>1, <3>2
  <2> QED
    BY <1>2, <2>1, <2>2 DEF ReclaimInv, FilesHeld
<1>6. TreesHeld'
  BY <1>2, <1>3 DEF ReclaimInv, TreesHeld
<1>7. GarbageDead'
  BY <1>2 DEF ReclaimInv, GarbageDead
<1>8. StagedAbove' /\ ChainHolds' /\ WalkHolds'
  BY <1>2 DEF ReclaimInv, StagedAbove, ChainHolds, WalkHolds, Live, Covered, Above, referenced
<1>9. CensusComplete'
  BY <1>2, <1>3 DEF ReclaimInv, CensusComplete, FloorHidesNothing, Above
<1> QED
  BY <1>4, <1>5, <1>6, <1>7, <1>8, <1>9 DEF ReclaimInv

\* The cohort unlinks what it proved.
LEMMA DrainKeeps == ASSUME ReclaimInv, Drain PROVE ReclaimInv'
<1>1. PICK f \in root.garbage :
         /\ files' = files \ {f}
         /\ \/ root' = [root EXCEPT !.garbage = @ \ {f}] /\ UNCHANGED <<mode, faults>>
            \/ /\ faults < MaxFaults
               /\ mode' = "failed" /\ faults' = faults + 1 /\ UNCHANGED root
  BY DEF Drain
<1>2. UNCHANGED <<staged, pins, coverage, nonce, cycle, cohort, floor, owed, evacuated>>
  BY DEF Drain
<1>3. mode' \in {mode, "failed"} /\ faults' \in 0 .. MaxFaults
  BY <1>1, SettledView, ReclaimAssumption
<1>4. root' = [root EXCEPT !.garbage = @ \ {f}] \/ root' = root
  BY <1>1
<1> QED
  BY <1>1, <1>2, <1>3, <1>4, UnlinkKeeps

\* A reopen does, and never finds the record reachable.
LEMMA RecordedKeeps == ASSUME ReclaimInv, finish_recorded_garbage PROVE ReclaimInv'
<1>1. root.garbage \cap root.directory.refs = {}
  BY DEF ReclaimInv, GarbageDead
<1>2. PICK f \in root.garbage :
         /\ files' = files \ {f}
         /\ \/ root' = [root EXCEPT !.garbage = @ \ {f}] /\ UNCHANGED mode
            \/ f \in files /\ mode' = "failed" /\ UNCHANGED root
  BY <1>1 DEF finish_recorded_garbage
<1>3. UNCHANGED <<staged, pins, coverage, nonce, cycle, cohort, floor, owed, evacuated, faults>>
  BY DEF finish_recorded_garbage
<1>4. mode' \in {mode, "failed"} /\ faults' \in 0 .. MaxFaults
  BY <1>2, <1>3, SettledView
<1>5. root' = [root EXCEPT !.garbage = @ \ {f}] \/ root' = root
  BY <1>2
<1> QED
  BY <1>2, <1>3, <1>4, <1>5, UnlinkKeeps

----------------------------------------------------------------------------
(* Crash and reopen *)

\* A crash finds the selected root or the one being published, both whole and
\* both free of recorded garbage, and the lowest present file as the floor.
LEMMA CrashKeeps == ASSUME ReclaimInv, Crash PROVE ReclaimInv'
<1>1. /\ mode' = "opening" /\ staged' = NoDirectory /\ files' = files
      /\ pins' = [p \in Pins |-> NoPin] /\ coverage' = NoCoverage /\ nonce' = 0
      /\ cycle' = NoCycle /\ cohort' = NoCohort /\ owed' = NoRound
      /\ floor' = [k \in Kinds |-> Min({f.id : f \in {g \in files : g.kind = k}})]
      /\ mode = "failed" \/ faults < MaxFaults
      /\ faults' = IF mode = "failed" THEN faults ELSE faults + 1
  BY DEF Crash
<1>2. PICK d \in {root.directory, IF staged = NoDirectory THEN root.directory ELSE staged} :
         /\ root' = [root EXCEPT !.directory = d,
                       !.start = IF d = root.directory THEN @ ELSE root.last["Segment"]]
         /\ evacuated' = d.generation
  BY DEF Crash
<1> DEFINE b == IF d = root.directory THEN root.start ELSE root.last["Segment"]
<1>3. /\ root \in Superblock /\ root.last \in [Kinds -> 1 .. MaxId] /\ root.start \in 0 .. MaxId
      /\ MaxId \in Nat /\ "Segment" \in Kinds /\ files \subseteq Files /\ root.garbage \subseteq Files
      /\ root.directory \in DirectoryRoot /\ staged \in DirectoryRoot /\ root.cutoff \in PerKind
  BY OwnerView
<1>4. d \in {root.directory, staged} /\ d \in DirectoryRoot
  BY <1>2, <1>3
<1>5. b \in {root.start, root.last["Segment"]} /\ b \in 0 .. MaxId
      /\ root.start <= b /\ b <= root.last["Segment"]
  <2>1. root.start <= root.last["Segment"]
    BY DEF ReclaimInv, FilesHeld
  <2> QED
    BY <1>3, <2>1
<1>6. root' = [root EXCEPT !.directory = d, !.start = b]
  BY <1>2
<1> HIDE DEF b
<1>7. /\ root' \in Superblock /\ root'.garbage = root.garbage /\ root'.directory = d
      /\ root'.start = b /\ root'.last = root.last /\ root'.phase = root.phase
      /\ root'.cutoff = root.cutoff /\ root'.source = root.source
  BY <1>3, <1>4, <1>5, <1>6 DEF Superblock
<1>8. floor' \in PerKind /\ \A f \in files : f.id >= floor'[f.kind]
  <2> DEFINE S(k) == {f.id : f \in {g \in files : g.kind = k}}
  <2>1. \A k \in Kinds : S(k) \subseteq 0 .. MaxId + 1 /\ S(k) \subseteq Nat
    BY <1>3, FileFields
  <2>2. \A k \in Kinds : S(k) # {}
    <3> SUFFICES ASSUME NEW k \in Kinds PROVE S(k) # {}
      OBVIOUS
    <3>1. File(k, root.last[k]) \in files /\ File(k, root.last[k]).kind = k
      BY <1>3, FileFields DEF ReclaimInv, FilesHeld
    <3> QED
      BY <3>1
  <2>3. \A k \in Kinds : Min(S(k)) \in S(k) /\ \A y \in S(k) : Min(S(k)) <= y
    BY <2>1, <2>2, MinView
  <2>4. \A k \in Kinds : Min(S(k)) \in 0 .. MaxId + 1
    BY <2>1, <2>3
  <2>5. floor' = [k \in Kinds |-> Min(S(k))]
    BY <1>1
  <2>6. \A f \in files : f.kind \in Kinds /\ f.id \in Nat /\ f.id \in S(f.kind)
    BY <1>3, FileFields
  <2> HIDE DEF S
  <2>7. floor' \in PerKind
    BY <2>4, <2>5 DEF PerKind
  <2>8. \A f \in files : Min(S(f.kind)) <= f.id
    BY <2>3, <2>6
  <2>9. \A f \in files : floor'[f.kind] = Min(S(f.kind)) /\ Min(S(f.kind)) \in Nat
    BY <1>3, <2>4, <2>5, <2>6
  <2> QED
    BY <2>6, <2>7, <2>8, <2>9
<1>9. TypeOK' /\ cohort' \in Cohort
  <2>1. faults' \in 0 .. MaxFaults
    BY <1>1, SettledView, ReclaimAssumption
  <2>2. evacuated' \in 0 .. MaxCommits
    BY <1>2, <1>4 DEF DirectoryRoot
  <2>3. pins' \in [Pins -> [root : DirectoryRoot, stamp : Nat]]
    BY <1>1, EmptyView
  <2> QED
    BY <1>1, <1>3, <1>7, <1>8, <2>1, <2>2, <2>3, EmptyView DEF TypeOK, Stages
<1>10. FilesHeld'
  <2>1. \A k \in Kinds : owed'.limits[k] <= root.last[k] /\ cycle'.limits[k] <= root.last[k]
    BY <1>1, <1>3, EmptyView
  <2>2. \A i \in b .. root.last["Segment"] : i = 0 \/ File("Segment", i) \in files
    <3>1. \A i \in b .. root.last["Segment"] : i \in root.start .. root.last["Segment"]
      BY <1>3, <1>5
    <3> QED
      BY <3>1 DEF ReclaimInv, FilesHeld
  <2> QED
    BY <1>1, <1>5, <1>7, <2>1, <2>2 DEF ReclaimInv, FilesHeld
<1>11. \A p \in Pins : pins'[p].root.refs = {} /\ pins'[p].stamp = 0
  BY <1>1, EmptyView
<1>12. TreesHeld'
  BY <1>1, <1>4, <1>7, <1>11, EmptyView DEF ReclaimInv, TreesHeld
<1>13. GarbageDead' /\ StagedAbove'
  <2>1. \A f \in root.garbage : f.kind = "Segment" => f.id < b
    BY <1>3, <1>5, FileFields DEF ReclaimInv, GarbageDead
  <2>2. GarbageDead'
    BY <1>1, <1>4, <1>7, <1>11, <2>1, EmptyView DEF ReclaimInv, GarbageDead
  <2> QED
    BY <1>1, <2>2, EmptyView DEF StagedAbove
<1>14. ChainHolds' /\ WalkHolds'
  BY <1>1, <1>11, EmptyView DEF ChainHolds, WalkHolds
<1>15. CensusComplete'
  BY <1>1, <1>8, EmptyView DEF CensusComplete, FloorHidesNothing
<1> QED
  BY <1>9, <1>10, <1>12, <1>13, <1>14, <1>15 DEF ReclaimInv

----------------------------------------------------------------------------
(* The inductive invariant *)

\* A new group holds one segment and one arena and nothing else.
LEMMA InitHolds == ASSUME Init PROVE ReclaimInv
<1>1. /\ files = {File(k, 1) : k \in Kinds}
      /\ root = [directory |-> NoDirectory, start |-> 0, last |-> [k \in Kinds |-> 1],
                 garbage |-> {}, phase |-> "Idle", cycle |-> 0,
                 cutoff |-> [k \in Kinds |-> 0], source |-> NoDirectory]
      /\ staged = NoDirectory /\ pins = [p \in Pins |-> NoPin]
      /\ coverage = NoCoverage /\ nonce = 0 /\ cycle = NoCycle /\ cohort = NoCohort
      /\ floor = [k \in Kinds |-> 1] /\ owed = NoRound /\ evacuated = 0
      /\ mode = "open" /\ faults = 0
  BY DEF Init
<1>2. /\ 1 \in 1 .. MaxId /\ MaxId \in Nat /\ MaxCommits \in Nat /\ MaxCycles \in Nat
      /\ MaxFaults \in Nat /\ 0 \in 0 .. MaxCommits /\ 0 \in 0 .. MaxFaults
      /\ 0 \in 0 .. MaxCycles /\ 0 \in 0 .. MaxId
  BY ReclaimAssumption
<1>3. [k \in Kinds |-> 0] \in PerKind /\ [k \in Kinds |-> 1] \in PerKind
      /\ [k \in Kinds |-> 1] \in [Kinds -> 1 .. MaxId]
  BY <1>2 DEF PerKind
<1>4. \A k \in Kinds : File(k, 1) \in files /\ File(k, 1) \in Files
  BY <1>1, <1>2, FileFields
<1>5. \A f \in files : f \in Files /\ f.kind \in Kinds /\ f.id = 1
  BY <1>1, <1>2, FileFields
<1>6. root \in Superblock
  BY <1>1, <1>2, <1>3, EmptyView DEF Superblock, Phases
<1>7. /\ root.directory = NoDirectory /\ root.start = 0 /\ root.garbage = {}
      /\ root.last = [k \in Kinds |-> 1] /\ root.cutoff = [k \in Kinds |-> 0]
      /\ root.phase = "Idle"
  BY <1>1
<1>8. TypeOK
  <2>1. pins \in [Pins -> [root : DirectoryRoot, stamp : Nat]]
    BY <1>1, EmptyView
  <2> QED
    BY <1>1, <1>2, <1>3, <1>5, <1>6, <2>1, EmptyView DEF TypeOK, Stages
<1>9. FilesHeld
  <2>1. "Segment" \in Kinds /\ root.last["Segment"] = 1
    BY <1>7 DEF Kinds
  <2>2. \A i \in root.start .. root.last["Segment"] : i = 0 \/ File("Segment", i) \in files
    BY <1>4, <1>7, <2>1
  <2> QED
    BY <1>1, <1>4, <1>7, <2>1, <2>2, EmptyView DEF FilesHeld
<1>10. TreesHeld /\ GarbageDead /\ StagedAbove
  BY <1>1, <1>7, EmptyView DEF TreesHeld, GarbageDead, StagedAbove
<1>11. ChainHolds /\ WalkHolds
  BY <1>1, EmptyView DEF ChainHolds, WalkHolds
<1>12. CensusComplete
  BY <1>1, <1>5, EmptyView DEF CensusComplete, FloorHidesNothing
<1> QED
  BY <1>1, <1>8, <1>9, <1>10, <1>11, <1>12, EmptyView DEF ReclaimInv

\* Every step of a reader, a commit, the maintenance thread or a reopen keeps it.
LEMMA NextKeeps == ASSUME ReclaimInv, [Next]_vars PROVE ReclaimInv'
<1>1. ASSUME NEW p \in Pins, Acquire(p) \/ Release(p) PROVE ReclaimInv'
  BY <1>1, AcquireKeeps, ReleaseKeeps
<1>2. CASE StageCommit \/ AdoptCommit \/ RollFile \/ Relocate
  BY <1>2, StageCommitKeeps, AdoptCommitKeeps, RollFileKeeps, RelocateKeeps
<1>3. CASE begin_compaction \/ local_reclaim_failure \/ Crash \/ finish_recorded_garbage
             \/ arm_reopen_round
  BY <1>3, BeginKeeps, RefusedKeeps, CrashKeeps, RecordedKeeps, ReopenedKeeps
<1>4. CASE Maintenance
  <2>1. CASE advance_to_reclaiming \/ start_reclaim_cycle \/ complete_reclaim_cycle
    BY <2>1, AdvanceKeeps, StartCycleKeeps, CompleteCycleKeeps
  <2>2. CASE finish_compaction \/ start_round \/ complete_round
    BY <2>2, FinishCompactionKeeps, StartRoundKeeps, CompleteRoundKeeps
  <2>3. CASE StartCohort \/ collect \/ walk
    BY <2>3, StartCohortKeeps, CollectKeeps, WalkKeeps
  <2>4. CASE Seal \/ Drain \/ FinishCohort
    BY <2>4, SealKeeps, DrainKeeps, FinishCohortKeeps
  <2> QED
    BY <1>4, <2>1, <2>2, <2>3, <2>4 DEF Maintenance
<1>5. CASE UNCHANGED vars
  BY <1>5 DEF vars, ReclaimInv, TypeOK, FilesHeld, TreesHeld, GarbageDead, StagedAbove, ChainHolds,
              WalkHolds, CensusComplete, FloorHidesNothing, Live, Covered, Above, referenced
<1> QED
  BY <1>1, <1>2, <1>3, <1>4, <1>5 DEF Next

\* It holds throughout.
LEMMA InvariantHolds == Spec => []ReclaimInv
<1>1. Init => ReclaimInv
  BY InitHolds
<1>2. ReclaimInv /\ [Next]_vars => ReclaimInv'
  BY NextKeeps
<1> QED
  BY <1>1, <1>2, PTL DEF Spec

\* Every file of the selected root, of a root being published, of a pinned
\* snapshot, of the evacuation worklist and of a tree still to be walked, and the
\* log from the replay start on, is present at every moment: unlink_file takes
\* none of them, whatever commits, readers and crashes come between a proof and
\* its use.
THEOREM RetainedRootsStay == Spec => []RetainedRootsReadable
<1>1. ReclaimInv => RetainedRootsReadable
  <2> SUFFICES ASSUME ReclaimInv PROVE RetainedRootsReadable
    OBVIOUS
  <2>1. \A r \in RetainedRoots : r.refs \subseteq files
    BY DEF ReclaimInv, TreesHeld, RetainedRoots, PinnedRoots, Live
  <2>2. \A i \in root.start .. root.last["Segment"] : i = 0 \/ File("Segment", i) \in files
    BY DEF ReclaimInv, FilesHeld
  <2> QED
    BY <2>1, <2>2 DEF RetainedRootsReadable
<1> QED
  BY <1>1, InvariantHolds, PTL

\* What a cohort concluded stays true until it is used: recorded garbage is never
\* reachable again, so no reopen refuses the group; a cohort that walked its trees
\* seals at every later moment (seal and validate_cohort_coverage succeed); and
\* the floor that raise_floor keeps never passes a present file.
THEOREM ConclusionsHold == Spec => []ConclusionsStayTrue
<1>1. ReclaimInv => ConclusionsStayTrue
  <2> SUFFICES ASSUME ReclaimInv PROVE ConclusionsStayTrue
    OBVIOUS
  <2>1. RecordedGarbageUnreachable
    BY DEF ReclaimInv, GarbageDead, RecordedGarbageUnreachable, PinnedRoots, Live
  <2>2. ASSUME cohort.stage \in {"Walked", "Draining"} PROVE seal(cohort)
    <3>1. /\ ~cohort.broken /\ cohort.nonce # 0 /\ cohort.latest = root.directory
          /\ coverage = [nonce |-> cohort.nonce, root |-> root.directory]
          /\ \A p \in Live : pins[p].root \in cohort.capture \/ pins[p].stamp = cohort.nonce
      BY <2>2 DEF ReclaimInv, ChainHolds
    <3> QED
      BY <3>1 DEF seal, validate_cohort_coverage
  <2>3. ChurnNeverInvalidates
    BY <2>2 DEF ChurnNeverInvalidates, ReclaimInv, GarbageDead
  <2> QED
    BY <2>1, <2>3 DEF ConclusionsStayTrue, ReclaimInv, CensusComplete
<1> QED
  BY <1>1, InvariantHolds, PTL
=============================================================================
