----------------------- MODULE AuthorityProcessProofs -----------------------
(***************************************************************************)
(* Two things one authority process keeps: its map of drain witnesses      *)
(* (DrainLedger) and its accepted requests (RequestJobs).                  *)
(*                                                                         *)
(* The witness map never reports a drain early, for every lease length,    *)
(* rate error, capacity, clock regression and number of leader changes.  A *)
(* shutdown of the service misses no accepted request, and one that        *)
(* reports no issue tells the truth, for every number of requests and      *)
(* every capacity.                                                         *)
(***************************************************************************)
EXTENDS DrainLedger, RequestJobs, FiniteSetTheorems, TLAPS

(* Ageing and require_drain_witness, for every map and every constant.     *)

\* The rates are positive: a clock within the bound always advances.
LEMMA RatePositive == RateLo \in Nat \ {0} /\ RateHi \in Nat /\ RateLo <= RateHi
BY DrainAssumption DEF RateLo, RateHi

\* The drain interval is a natural number of ticks, and so is the horizon.
LEMMA DrainNatural == drain_ms \in Nat /\ Horizon \in Nat /\ drain_ms <= Horizon
<1>1. MaxLease * RateHi \in Nat
  BY RatePositive, DrainAssumption
<1>2. drain_ms \in Nat
  <2>1. MaxLease * RateHi + RateLo - 1 \in Nat
    BY <1>1, RatePositive
  <2> QED
    BY <2>1, RatePositive DEF drain_ms
<1> QED
  BY <1>2, DrainAssumption DEF Horizon

\* Ageing moves every witness of the map by the same amount, up to the horizon.
LEMMA AgedIs ==
    ASSUME NEW d \in [Ids -> Witness \cup {None}], NEW b \in Int
    PROVE  /\ Aged(d, b) \in [Ids -> Witness \cup {None}]
           /\ \A k \in Ids : Aged(d, b)[k] # None <=> d[k] # None
           /\ \A k \in Ids : d[k] # None =>
                 Aged(d, b)[k].elapsed = AtMost(d[k].elapsed + b, Horizon)
<1> USE DrainNatural
<1>1. ASSUME NEW k \in Ids, d[k] = None PROVE Aged(d, b)[k] = None
  BY <1>1 DEF Aged
<1>2. ASSUME NEW k \in Ids, d[k] # None
      PROVE  /\ Aged(d, b)[k] \in Witness /\ Aged(d, b)[k] # None
             /\ Aged(d, b)[k].elapsed = AtMost(d[k].elapsed + b, Horizon)
  <2>1. d[k] \in Witness
    BY <1>2
  <2>2. Aged(d, b)[k] = [term |-> d[k].term,
                         elapsed |-> AtMost(d[k].elapsed + b, Horizon),
                         since |-> AtMost(d[k].since + b, Horizon)]
    BY <1>2, <2>1 DEF Aged, Witness
  <2>3. /\ AtMost(d[k].elapsed + b, Horizon) \in Int
        /\ AtMost(d[k].since + b, Horizon) \in Int
        /\ d[k].term \in Nat
    BY <2>1 DEF Witness, AtMost
  <2>4. Aged(d, b)[k] \in Witness
    BY <2>2, <2>3 DEF Witness
  <2> QED
    BY <2>2, <2>4, NoneAssumption
<1>3. Aged(d, b) = [k \in Ids |-> Aged(d, b)[k]]
  BY DEF Aged
<1> QED
  BY <1>1, <1>2, <1>3

\* What is left of a map after other terms and a regression were noticed: each
\* witness is kept as it was, or starts again, or is gone.
LEMMA ObservedIs ==
    ASSUME NEW d \in [Ids -> Witness \cup {None}], NEW t \in Nat
    PROVE  /\ Observed(d, t) \in [Ids -> Witness \cup {None}]
           /\ \A k \in Ids : Observed(d, t)[k] # None =>
                 /\ d[k] # None
                 /\ Observed(d, t)[k].elapsed \in {0, d[k].elapsed}
<1>1. ASSUME NEW k \in Ids, d[k] = None \/ d[k].term # t
      PROVE  Observed(d, t)[k] = None
  BY <1>1 DEF Observed
<1>2. ASSUME NEW k \in Ids, d[k] # None, d[k].term = t
      PROVE  /\ Observed(d, t)[k] \in Witness
             /\ Observed(d, t)[k].elapsed \in {0, d[k].elapsed}
  <2>1. d[k] \in Witness
    BY <1>2
  <2>2. Observed(d, t)[k] = [term |-> t,
            elapsed |-> IF d[k].since < 0 THEN 0 ELSE d[k].elapsed, since |-> 0]
    BY <1>2 DEF Observed
  <2> QED
    BY <2>1, <2>2 DEF Witness
<1>3. Observed(d, t) = [k \in Ids |-> Observed(d, t)[k]]
  BY DEF Observed
<1> QED
  BY <1>1, <1>2, <1>3

\* Starting a witness leaves the others alone and the started one at zero.
LEMMA StartedIs ==
    ASSUME NEW d \in [Ids -> Witness \cup {None}], NEW k \in Ids, NEW t \in Nat
    PROVE  /\ Started(d, k, t) \in [Ids -> Witness \cup {None}]
           /\ \A j \in Ids : \/ Started(d, k, t)[j] = d[j]
                             \/ j = k /\ Started(d, k, t)[j].elapsed = 0
<1>1. Fresh(t) \in Witness /\ Fresh(t).elapsed = 0
  BY DEF Fresh, Witness
<1>2. CASE d[k] # None
  BY <1>2 DEF Started
<1>3. CASE d[k] = None
  <2>1. Started(d, k, t) = [d EXCEPT ![k] = Fresh(t)]
    BY <1>3 DEF Started
  <2> QED
    BY <1>1, <2>1
<1> QED
  BY <1>2, <1>3

\* After require_drain_witness, a witness stands where it stood or at zero, and
\* it is either the requested one or was in the map before.
LEMMA RequireIs ==
    ASSUME NEW d \in [Ids -> Witness \cup {None}], NEW k \in Ids, NEW t \in Nat,
           NEW r \in RequireDrainWitness(d, k, t)
    PROVE  /\ r \in [Ids -> Witness \cup {None}]
           /\ \A j \in Ids : r[j] # None =>
                 \/ d[j] # None /\ r[j].elapsed \in {0, d[j].elapsed}
                 \/ j = k /\ r[j].elapsed = 0
<1> DEFINE seen == Observed(d, t)
<1>1. /\ seen \in [Ids -> Witness \cup {None}]
      /\ \A j \in Ids : seen[j] # None =>
            d[j] # None /\ seen[j].elapsed \in {0, d[j].elapsed}
  BY ObservedIs
<1>2. \/ r = Started(seen, k, t)
      \/ r = seen
      \/ \E e \in Ids : r = Started([seen EXCEPT ![e] = None], k, t)
  BY DEF RequireDrainWitness
<1> HIDE DEF seen
<1>3. CASE r = Started(seen, k, t)
  <2>1. /\ r \in [Ids -> Witness \cup {None}]
        /\ \A j \in Ids : r[j] = seen[j] \/ (j = k /\ r[j].elapsed = 0)
    BY <1>1, <1>3, StartedIs
  <2> QED
    BY <1>1, <2>1
<1>4. CASE r = seen
  BY <1>1, <1>4
<1>5. ASSUME NEW e \in Ids, r = Started([seen EXCEPT ![e] = None], k, t)
      PROVE  /\ r \in [Ids -> Witness \cup {None}]
             /\ \A j \in Ids : r[j] # None =>
                   \/ d[j] # None /\ r[j].elapsed \in {0, d[j].elapsed}
                   \/ j = k /\ r[j].elapsed = 0
  <2> DEFINE s == [seen EXCEPT ![e] = None]
  <2>1. /\ s \in [Ids -> Witness \cup {None}]
        /\ \A j \in Ids : s[j] # None => s[j] = seen[j]
    BY <1>1
  <2> HIDE DEF s
  <2>2. r = Started(s, k, t)
    BY <1>5 DEF s
  <2>3. /\ r \in [Ids -> Witness \cup {None}]
        /\ \A j \in Ids : r[j] = s[j] \/ (j = k /\ r[j].elapsed = 0)
    BY <2>1, <2>2, StartedIs
  <2> QED
    BY <1>1, <2>1, <2>3
<1> QED
  BY <1>2, <1>3, <1>4, <1>5

\* The map stays within its capacity: a full map gives up a witness before it
\* takes another.
LEMMA RequireWithinCapacity ==
    ASSUME NEW d \in [Ids -> Witness \cup {None}], NEW k \in Ids, NEW t \in Nat,
           NEW r \in RequireDrainWitness(d, k, t),
           IsFiniteSet(Held(d)), Cardinality(Held(d)) <= DrainCapacity
    PROVE  IsFiniteSet(Held(r)) /\ Cardinality(Held(r)) <= DrainCapacity
<1> DEFINE seen == Observed(d, t)
<1>1. /\ seen \in [Ids -> Witness \cup {None}]
      /\ Held(seen) \subseteq Held(d)
  BY ObservedIs DEF Held
<1> HIDE DEF seen
<1>2. /\ IsFiniteSet(Held(seen)) /\ Cardinality(Held(seen)) \in Nat
      /\ Cardinality(Held(seen)) <= DrainCapacity
  BY <1>1, FS_Subset, FS_CardinalityType, DrainAssumption
<1>3. ASSUME NEW s \in [Ids -> Witness \cup {None}]
      PROVE  Held(Started(s, k, t)) \subseteq Held(s) \cup {k}
  BY <1>3, StartedIs DEF Held, Started
<1>4. ASSUME NEW s \in [Ids -> Witness \cup {None}], IsFiniteSet(Held(s)),
             Cardinality(Held(s)) < DrainCapacity
      PROVE  /\ IsFiniteSet(Held(Started(s, k, t)))
             /\ Cardinality(Held(Started(s, k, t))) <= DrainCapacity
  <2>1. /\ IsFiniteSet(Held(s) \cup {k})
        /\ Cardinality(Held(s) \cup {k}) <= Cardinality(Held(s)) + 1
    <3>1. IsFiniteSet(Held(s) \cup {k})
      BY <1>4, FS_AddElement
    <3>2. /\ Cardinality(Held(s)) \in Nat
          /\ \/ Cardinality(Held(s) \cup {k}) = Cardinality(Held(s))
             \/ Cardinality(Held(s) \cup {k}) = Cardinality(Held(s)) + 1
      BY <1>4, FS_AddElement, FS_CardinalityType
    <3> QED
      BY <3>1, <3>2
  <2>2. Cardinality(Held(s)) \in Nat /\ Cardinality(Held(s) \cup {k}) \in Nat
    BY <1>4, <2>1, FS_CardinalityType
  <2>3. /\ IsFiniteSet(Held(Started(s, k, t)))
        /\ Cardinality(Held(Started(s, k, t))) <= Cardinality(Held(s) \cup {k})
        /\ Cardinality(Held(Started(s, k, t))) \in Nat
    BY <1>3, <2>1, FS_Subset, FS_CardinalityType
  <2> QED
    BY <1>4, <2>1, <2>2, <2>3, DrainAssumption
<1>5. CASE seen[k] # None
  <2>1. r = seen
    BY <1>5 DEF RequireDrainWitness, Started, seen
  <2> QED
    BY <1>2, <2>1
<1>6. CASE seen[k] = None /\ Cardinality(Held(seen)) < DrainCapacity
  <2>1. r = Started(seen, k, t)
    BY <1>6 DEF RequireDrainWitness, seen
  <2> QED
    BY <1>1, <1>2, <1>4, <1>6, <2>1
<1>7. CASE seen[k] = None /\ ~(Cardinality(Held(seen)) < DrainCapacity)
  <2>1. \/ r = seen
        \/ \E e \in Ids : Complete(seen, e) /\ r = Started([seen EXCEPT ![e] = None], k, t)
    BY <1>7 DEF RequireDrainWitness, seen
  <2>2. ASSUME NEW e \in Ids, Complete(seen, e),
               r = Started([seen EXCEPT ![e] = None], k, t)
        PROVE  IsFiniteSet(Held(r)) /\ Cardinality(Held(r)) <= DrainCapacity
    <3> DEFINE s == [seen EXCEPT ![e] = None]
    <3>1. e \in Held(seen)
      BY <2>2 DEF Complete, Held
    <3>2. s \in [Ids -> Witness \cup {None}] /\ Held(s) = Held(seen) \ {e}
      BY <1>1 DEF Held
    <3>3. /\ IsFiniteSet(Held(s))
          /\ Cardinality(Held(s)) = Cardinality(Held(seen)) - 1
      <4>1. /\ IsFiniteSet(Held(seen) \ {e})
            /\ Cardinality(Held(seen) \ {e}) = Cardinality(Held(seen)) - 1
        BY <1>2, <3>1, FS_RemoveElement
      <4> HIDE DEF s
      <4> QED
        BY <3>2, <4>1
    <3>4. Cardinality(Held(s)) < DrainCapacity
      BY <1>2, <3>3, DrainAssumption
    <3> HIDE DEF s
    <3>5. r = Started(s, k, t)
      BY <2>2 DEF s
    <3> QED
      BY <1>4, <3>2, <3>3, <3>4, <3>5
  <2> QED
    BY <1>2, <2>1, <2>2
<1> QED
  BY <1>5, <1>6, <1>7

----------------------------------------------------------------------------
\* The strengthening under which the report is never early: no witness claims
\* more than was really waited, and a reported stop has waited in full.
LedgerInv ==
    /\ LedgerTypeOK
    /\ WitnessNeverAhead
    /\ ReleasedAfterFullDrain

\* It holds of a process that just opened its store with an empty map.
LEMMA LedgerInitially == LedgerInit => LedgerInv
<1> SUFFICES ASSUME LedgerInit PROVE LedgerInv
  OBVIOUS
<1>1. LedgerTypeOK
  BY LedgerAssumption, DrainAssumption DEF LedgerInit, LedgerTypeOK
<1>2. WitnessNeverAhead /\ ReleasedAfterFullDrain
  BY DEF LedgerInit, WitnessNeverAhead, ReleasedAfterFullDrain
<1> QED
  BY <1>1, <1>2 DEF LedgerInv

\* require_drain keeps it: the map it leaves claims no more than the one before,
\* and what it reports has a complete witness.
LEMMA LedgerRequire ==
    ASSUME LedgerInv, NEW k \in Ids, require_drain(k) PROVE LedgerInv'
<1> USE DEF LedgerInv
<1>1. term \in Nat
  BY DEF LedgerTypeOK
<1>2. /\ drains' \in [Ids -> Witness \cup {None}]
      /\ \A j \in Ids : drains'[j] # None =>
            \/ drains[j] # None /\ drains'[j].elapsed \in {0, drains[j].elapsed}
            \/ j = k /\ drains'[j].elapsed = 0
  BY <1>1, RequireIs DEF require_drain, LedgerTypeOK
<1>3. LedgerTypeOK'
  BY <1>2 DEF require_drain, LedgerTypeOK
<1>4. WitnessNeverAhead'
  <2> SUFFICES ASSUME NEW j \in Ids, drains'[j] # None
               PROVE  waited'[j] # None /\ drains'[j].elapsed <= waited'[j]
    BY DEF WitnessNeverAhead
  <2>1. waited' = waited /\ waited[k] # None
    BY DEF require_drain
  <2>2. waited[j] # None
    BY <1>2, <2>1 DEF WitnessNeverAhead
  <2>3. waited[j] \in 0 .. Horizon
    BY <2>2 DEF LedgerTypeOK
  <2> QED
    BY <1>2, <2>1, <2>2, <2>3, DrainNatural DEF WitnessNeverAhead
<1>5. ReleasedAfterFullDrain'
  <2> SUFFICES ASSUME NEW j \in released' PROVE waited'[j] # None /\ waited'[j] >= drain_ms
    BY DEF ReleasedAfterFullDrain
  <2>1. waited' = waited
    BY DEF require_drain
  <2>2. CASE j \in released
    BY <2>1, <2>2 DEF ReleasedAfterFullDrain
  <2>3. CASE j \notin released
    <3>1. j = k /\ Complete(drains', k)
      BY <2>3 DEF require_drain
    <3>2. drains'[k] # None /\ drains'[k].elapsed >= drain_ms
      BY <3>1 DEF Complete
    <3>3. waited'[k] # None /\ drains'[k].elapsed <= waited'[k]
      BY <1>4, <3>2 DEF WitnessNeverAhead
    <3>4. waited'[k] \in 0 .. Horizon /\ drains'[k] \in Witness
      BY <1>3, <3>2, <3>3 DEF LedgerTypeOK
    <3> QED
      BY <3>1, <3>2, <3>3, <3>4, DrainNatural DEF Witness
  <2> QED
    BY <2>2, <2>3
<1> QED
  BY <1>3, <1>4, <1>5

\* Time keeps it: a witness and the real wait advance together, to the horizon.
LEMMA LedgerTick ==
    ASSUME LedgerInv, NEW b \in Advance, Tick(b) PROVE LedgerInv'
<1> USE DEF LedgerInv
<1>1. b \in Nat
  BY RatePositive DEF Advance
<1>2. /\ drains' \in [Ids -> Witness \cup {None}]
      /\ \A k \in Ids : drains'[k] # None <=> drains[k] # None
      /\ \A k \in Ids : drains[k] # None =>
            drains'[k].elapsed = AtMost(drains[k].elapsed + b, Horizon)
  BY <1>1, AgedIs DEF Tick, LedgerTypeOK
<1>3. ASSUME NEW k \in Ids, waited[k] # None
      PROVE  /\ waited[k] \in 0 .. Horizon /\ waited'[k] \in 0 .. Horizon
             /\ waited'[k] = AtMost(waited[k] + b, Horizon) /\ waited'[k] # None
  BY <1>1, <1>3, DrainNatural, NoneAssumption DEF Tick, LedgerTypeOK, AtMost
<1>4. ASSUME NEW k \in Ids, waited[k] = None PROVE waited'[k] = None
  BY <1>4 DEF Tick
<1>5. LedgerTypeOK'
  <2>1. waited' \in [Ids -> (0 .. Horizon) \cup {None}]
    BY <1>3, <1>4 DEF Tick
  <2> QED
    BY <1>2, <2>1 DEF Tick, LedgerTypeOK
<1>6. WitnessNeverAhead'
  <2> SUFFICES ASSUME NEW k \in Ids, drains'[k] # None
               PROVE  waited'[k] # None /\ drains'[k].elapsed <= waited'[k]
    BY DEF WitnessNeverAhead
  <2>1. drains[k] # None /\ drains[k] \in Witness
    BY <1>2 DEF LedgerTypeOK
  <2>2. waited[k] # None /\ drains[k].elapsed <= waited[k]
    BY <2>1 DEF WitnessNeverAhead
  <2>3. drains'[k].elapsed = AtMost(drains[k].elapsed + b, Horizon)
    BY <1>2, <2>1
  <2> QED
    BY <1>1, <1>3, <2>1, <2>2, <2>3, DrainNatural DEF AtMost, Witness
<1>7. ReleasedAfterFullDrain'
  <2> SUFFICES ASSUME NEW k \in released PROVE waited'[k] # None /\ waited'[k] >= drain_ms
    BY DEF ReleasedAfterFullDrain, Tick
  <2>1. k \in Ids /\ waited[k] # None /\ waited[k] >= drain_ms
    BY DEF ReleasedAfterFullDrain, LedgerTypeOK
  <2> QED
    BY <1>1, <1>3, <2>1, DrainNatural DEF AtMost
<1> QED
  BY <1>5, <1>6, <1>7

\* A backward jump keeps it: witnesses lose what the clock lost.
LEMMA LedgerRegress ==
    ASSUME LedgerInv, NEW j \in 1 .. MaxRegression, ClockRegresses(j) PROVE LedgerInv'
<1> USE DEF LedgerInv
<1>1. /\ drains' \in [Ids -> Witness \cup {None}]
      /\ \A k \in Ids : drains'[k] # None <=> drains[k] # None
      /\ \A k \in Ids : drains[k] # None =>
            drains'[k].elapsed = AtMost(drains[k].elapsed + (-j), Horizon)
  BY AgedIs DEF ClockRegresses, LedgerTypeOK
<1>2. LedgerTypeOK'
  BY <1>1, DrainAssumption DEF ClockRegresses, LedgerTypeOK
<1>3. WitnessNeverAhead'
  <2> SUFFICES ASSUME NEW k \in Ids, drains'[k] # None
               PROVE  waited[k] # None /\ drains'[k].elapsed <= waited[k]
    BY DEF WitnessNeverAhead, ClockRegresses
  <2>1. drains[k] # None /\ drains[k] \in Witness
    BY <1>1 DEF LedgerTypeOK
  <2>2. waited[k] # None /\ drains[k].elapsed <= waited[k] /\ waited[k] \in 0 .. Horizon
    BY <2>1 DEF WitnessNeverAhead, LedgerTypeOK
  <2>3. drains'[k].elapsed = AtMost(drains[k].elapsed + (-j), Horizon)
    BY <1>1, <2>1
  <2> QED
    BY <2>1, <2>2, <2>3, DrainNatural DEF AtMost, Witness
<1>4. ReleasedAfterFullDrain'
  BY DEF ClockRegresses, ReleasedAfterFullDrain
<1> QED
  BY <1>2, <1>3, <1>4

\* Every step keeps the strengthened invariant.
LEMMA LedgerStepKeeps == LedgerInv /\ [LedgerStep]_ledgerVars => LedgerInv'
<1> SUFFICES ASSUME LedgerInv, [LedgerStep]_ledgerVars PROVE LedgerInv'
  OBVIOUS
<1> USE DEF LedgerInv
<1>1. ASSUME NEW k \in Ids, CommitStop(k) PROVE LedgerInv'
  <2>1. LedgerTypeOK'
    BY <1>1, DrainNatural DEF CommitStop, LedgerTypeOK
  <2>2. drains[k] = None /\ k \notin released
    BY <1>1 DEF CommitStop, WitnessNeverAhead, ReleasedAfterFullDrain
  <2> QED
    BY <1>1, <2>1, <2>2 DEF CommitStop, LedgerTypeOK, WitnessNeverAhead,
                            ReleasedAfterFullDrain
<1>2. ASSUME ChangeTerm PROVE LedgerInv'
  BY <1>2, LedgerAssumption
     DEF ChangeTerm, LedgerTypeOK, WitnessNeverAhead, ReleasedAfterFullDrain
<1>3. ASSUME Restart PROVE LedgerInv'
  BY <1>3 DEF Restart, LedgerTypeOK, WitnessNeverAhead, ReleasedAfterFullDrain
<1>4. ASSUME UNCHANGED ledgerVars PROVE LedgerInv'
  BY <1>4 DEF ledgerVars, LedgerTypeOK, WitnessNeverAhead, ReleasedAfterFullDrain
<1> QED
  BY <1>1, <1>2, <1>3, <1>4, LedgerRequire, LedgerTick, LedgerRegress DEF LedgerStep

\* Every reachable state of the ledger is well typed.
THEOREM LedgerTypeSafe == LedgerSpec => []LedgerTypeOK
<1>1. LedgerInv => LedgerTypeOK
  BY DEF LedgerInv
<1> QED
  BY <1>1, LedgerInitially, LedgerStepKeeps, PTL DEF LedgerSpec

\* require_drain reports a permanent stop as drained only after the issuer's
\* clock really advanced by drain_ms since the stop was committed, whatever
\* evictions, leader changes, restarts and backward jumps lie between.
THEOREM NeverReleasedEarly == LedgerSpec => []ReleasedAfterFullDrain
<1>1. LedgerInv => ReleasedAfterFullDrain
  BY DEF LedgerInv
<1> QED
  BY <1>1, LedgerInitially, LedgerStepKeeps, PTL DEF LedgerSpec

----------------------------------------------------------------------------
\* Ageing does not change which witnesses are held.
LEMMA AgedHeld ==
    ASSUME NEW d \in [Ids -> Witness \cup {None}], NEW b \in Int
    PROVE  Held(Aged(d, b)) = Held(d)
BY AgedIs DEF Held

\* The process's witness map never outgrows the installed capacity.
THEOREM LedgerBounded == LedgerSpec => []WithinCapacity
<1>1. LedgerInit => IsFiniteSet(Held(drains)) /\ WithinCapacity
  <2> SUFFICES ASSUME LedgerInit PROVE IsFiniteSet(Held(drains)) /\ WithinCapacity
    OBVIOUS
  <2>1. Held(drains) = {}
    BY DEF LedgerInit, Held
  <2> QED
    BY <2>1, FS_EmptySet, DrainAssumption DEF WithinCapacity
<1>2. LedgerTypeOK /\ IsFiniteSet(Held(drains)) /\ WithinCapacity /\ [LedgerStep]_ledgerVars
        => IsFiniteSet(Held(drains))' /\ WithinCapacity'
  <2> SUFFICES ASSUME LedgerTypeOK, IsFiniteSet(Held(drains)), WithinCapacity, [LedgerStep]_ledgerVars
               PROVE  IsFiniteSet(Held(drains))' /\ WithinCapacity'
    OBVIOUS
  <2>1. ASSUME NEW k \in Ids, require_drain(k)
        PROVE  IsFiniteSet(Held(drains))' /\ WithinCapacity'
    <3>1. term \in Nat /\ drains \in [Ids -> Witness \cup {None}]
      BY DEF LedgerTypeOK
    <3> QED
      BY <2>1, <3>1, RequireWithinCapacity DEF require_drain, WithinCapacity
  <2>2. ASSUME Restart PROVE IsFiniteSet(Held(drains))' /\ WithinCapacity'
    <3>1. Held(drains') = {}
      BY <2>2 DEF Restart, Held
    <3> QED
      BY <3>1, FS_EmptySet, DrainAssumption DEF WithinCapacity
  <2>3. ASSUME Held(drains') = Held(drains)
        PROVE  IsFiniteSet(Held(drains))' /\ WithinCapacity'
    BY <2>3 DEF WithinCapacity
  <2>4. ASSUME NEW b \in Advance, Tick(b) PROVE Held(drains') = Held(drains)
    <3>1. b \in Int
      BY RatePositive DEF Advance
    <3> QED
      BY <2>4, <3>1, AgedHeld DEF Tick, LedgerTypeOK
  <2>5. ASSUME NEW j \in 1 .. MaxRegression, ClockRegresses(j)
        PROVE  Held(drains') = Held(drains)
    BY <2>5, AgedHeld DEF ClockRegresses, LedgerTypeOK
  <2>6. ASSUME UNCHANGED drains PROVE Held(drains') = Held(drains)
    BY <2>6
  <2> QED
    BY <2>1, <2>2, <2>3, <2>4, <2>5, <2>6 DEF LedgerStep, CommitStop, ChangeTerm, ledgerVars
<1> QED
  BY <1>1, <1>2, LedgerTypeSafe, PTL DEF LedgerSpec

----------------------------------------------------------------------------
(* The accepted requests *)

\* A child exists exactly from its submission, and has ended before its caller
\* takes the answer.
CallersMatch ==
    \A j \in Jobs :
        /\ caller[j] \in {"none", "capacity", "owner", "admitted", "submitting"} =>
              child[j] = "none"
        /\ caller[j] \in {"waiting", "joining", "claimed", "returned", "answered"} =>
              child[j] # "none"
        /\ caller[j] \in {"joining", "answered"} => child[j] \in Ended
        /\ caller[j] = "claimed" => child[j] \in {"ok", "rejected"}
        /\ caller[j] = "returned" => child[j] = "ok"

\* A child is in the registry, in one slot, until its handle was joined.
ChildrenHeld ==
    /\ \A j \in Jobs : child[j] # "none" /\ j \notin joined => Registered(j)
    /\ \A j \in joined : child[j] \in Ended
    /\ \A s \in Slots : registry[s] # NoJob => child[registry[s]] # "none"
    /\ \A r, s \in Slots : registry[r] # NoJob /\ registry[r] = registry[s] => r = s

\* Whatever left the registry is accounted for: a panic in the report, and a
\* rejection there unless its own caller took it.
OutcomesKept ==
    /\ \A j \in Jobs : child[j] = "panicked" => Registered(j) \/ j \in failures
    /\ \A j \in Jobs : child[j] = "rejected" =>
          \/ Registered(j)
          \/ caller[j] \in {"claimed", "answered"}
          \/ \E s \in Slots : rejections[s] # NoJob
    /\ claimed \subseteq joined
    /\ \A j \in claimed : child[j] = "rejected" => caller[j] \in {"claimed", "answered"}

\* Behind the census of a closed registry there is nothing, and at its position
\* only the child it waits for.
CensusSweeps ==
    /\ shutdown # "idle" \/ group = "down" => closed
    /\ shutdown = "census" => \A s \in Slots : s < slot => registry[s] = NoJob
    /\ target # NoJob => /\ shutdown = "census" /\ slot \in Slots
                        /\ registry[slot] \in {target, NoJob}
    /\ shutdown \in {"owners", "proposal"} \/ group = "down" =>
          \A s \in Slots : registry[s] = NoJob

\* Nobody holds request_owners while shutdown does, and afterwards only who was
\* between its guard and the check that refuses it.
OwnersGone ==
    /\ shutdown = "proposal" => \A j \in Jobs : ~HoldsOwner(j)
    /\ GroupOutlivesRequests

JobInv == TypeOK /\ CallersMatch /\ ChildrenHeld /\ OutcomesKept /\ CensusSweeps /\ OwnersGone

----------------------------------------------------------------------------
(* What the operators do *)

\* A child that ended is not one that runs or was never started.
LEMMA EndedIs ==
    /\ "none" \notin Ended /\ "queued" \notin Ended /\ "proposing" \notin Ended
    /\ "ok" \in Ended /\ "rejected" \in Ended /\ "panicked" \in Ended
BY DEF Ended

\* An admission check only ever joins children that have ended, and frees the
\* slot of a success, or of a rejection that was claimed or goes into the report.
LEMMA ObserveView ==
    ASSUME TypeOK, observe
    PROVE  /\ closed' \in BOOLEAN /\ (closed => closed')
           /\ joined' \subseteq Jobs /\ joined \subseteq joined' /\ reported' = reported
           /\ \A j \in joined' : j \in joined \/ child[j] \in Ended
           /\ failures' \subseteq Jobs /\ failures \subseteq failures'
           /\ registry' \in [Slots -> Jobs \cup {NoJob}]
           /\ rejections' \in [Slots -> Jobs \cup {NoJob}]
           /\ \A s \in Slots :
                 \/ registry'[s] = registry[s]
                 \/ /\ registry'[s] = NoJob /\ registry[s] # NoJob /\ registry[s] \in joined'
                    /\ \/ child[registry[s]] = "ok"
                       \/ /\ child[registry[s]] = "rejected"
                          /\ registry[s] \in claimed \/ rejections'[s] # NoJob
           /\ \A s \in Slots : rejections[s] # NoJob => rejections'[s] # NoJob
<1>1. /\ NowJoined \subseteq Jobs /\ joined \subseteq NowJoined /\ joined' = NowJoined
      /\ \A j \in NowJoined : j \in joined \/ child[j] \in Ended
  BY DEF TypeOK, NowJoined, observe
<1>2. /\ closed' \in BOOLEAN /\ (closed => closed') /\ reported' = reported
      /\ failures' \subseteq Jobs /\ failures \subseteq failures'
  BY <1>1 DEF TypeOK, observe
<1>3. /\ registry' = [s \in Slots |->
              IF registry[s] # NoJob /\ Reclaimable(registry[s]) THEN NoJob ELSE registry[s]]
      /\ rejections' = [s \in Slots |->
              IF /\ rejections[s] = NoJob /\ registry[s] # NoJob
                 /\ Reclaimable(registry[s])
                 /\ child[registry[s]] = "rejected" /\ registry[s] \notin claimed
              THEN registry[s] ELSE rejections[s]]
  BY DEF observe
<1>4. /\ registry' \in [Slots -> Jobs \cup {NoJob}]
      /\ rejections' \in [Slots -> Jobs \cup {NoJob}]
      /\ \A s \in Slots : rejections[s] # NoJob => rejections'[s] # NoJob
  BY <1>3 DEF TypeOK
<1>5. ASSUME NEW s \in Slots, registry'[s] # registry[s]
      PROVE  /\ registry'[s] = NoJob /\ registry[s] # NoJob /\ registry[s] \in joined'
             /\ \/ child[registry[s]] = "ok"
                \/ /\ child[registry[s]] = "rejected"
                   /\ registry[s] \in claimed \/ rejections'[s] # NoJob
  <2>1. registry'[s] = NoJob /\ registry[s] # NoJob /\ Reclaimable(registry[s])
    BY <1>3, <1>5
  <2>2. registry[s] \in joined' /\ child[registry[s]] \in {"ok", "rejected"}
    BY <1>1, <2>1 DEF Reclaimable
  <2>3. CASE child[registry[s]] = "rejected" /\ registry[s] \notin claimed
    BY <1>3, <2>1, <2>2, <2>3
  <2> QED
    BY <2>1, <2>2, <2>3
<1> QED
  BY <1>1, <1>2, <1>4, <1>5

\* What an admission check keeps, on behalf of whoever makes it.
LEMMA ObserveKeeps ==
    ASSUME JobInv, observe, UNCHANGED <<child, claimed, stopping>>,
           \A j \in Jobs : child[j] = "rejected" /\ caller[j] \in {"claimed", "answered"} =>
                              caller'[j] \in {"claimed", "answered"}
    PROVE  ChildrenHeld' /\ OutcomesKept' /\ CensusSweeps'
<1> USE DEF JobInv
<1> DEFINE Freed(s) ==
              /\ registry'[s] = NoJob /\ registry[s] # NoJob /\ registry[s] \in joined'
              /\ \/ child[registry[s]] = "ok"
                 \/ /\ child[registry[s]] = "rejected"
                    /\ registry[s] \in claimed \/ rejections'[s] # NoJob
<1>1. /\ closed => closed'
      /\ joined \subseteq joined' /\ failures \subseteq failures' /\ joined' \subseteq Jobs
      /\ \A j \in joined' : j \in joined \/ child[j] \in Ended
      /\ \A s \in Slots : registry'[s] = registry[s] \/ Freed(s)
      /\ \A s \in Slots : rejections[s] # NoJob => rejections'[s] # NoJob
  BY ObserveView
<1>2. UNCHANGED <<child, claimed, shutdown, slot, target, group>>
  BY DEF stopping
<1> HIDE DEF Freed
<1>3. ASSUME NEW j \in Jobs, Registered(j)
      PROVE  \/ Registered(j)'
             \/ /\ j \in joined'
                /\ \/ child[j] = "ok"
                   \/ /\ child[j] = "rejected"
                      /\ j \in claimed \/ \E s \in Slots : rejections'[s] # NoJob
  <2>1. PICK s \in Slots : registry[s] = j
    BY <1>3 DEF Registered
  <2>2. CASE registry'[s] = registry[s]
    BY <2>1, <2>2 DEF Registered
  <2>3. CASE Freed(s)
    BY <2>1, <2>3 DEF Freed
  <2> QED
    BY <1>1, <2>2, <2>3
<1>4. ChildrenHeld'
  <2>1. \A j \in Jobs : child[j] # "none" /\ j \notin joined' => Registered(j)'
    BY <1>1, <1>3 DEF ChildrenHeld
  <2>2. \A j \in joined' : child[j] \in Ended
    BY <1>1 DEF ChildrenHeld
  <2>3. \A s \in Slots : registry'[s] # NoJob => registry'[s] = registry[s]
    BY <1>1 DEF Freed
  <2>4. \A s \in Slots : registry'[s] # NoJob => child[registry'[s]] # "none"
    BY <2>3 DEF ChildrenHeld
  <2>5. \A r, s \in Slots : registry'[r] # NoJob /\ registry'[r] = registry'[s] => r = s
    BY <2>3 DEF ChildrenHeld
  <2> QED
    BY <1>2, <2>1, <2>2, <2>4, <2>5 DEF ChildrenHeld
<1>5. OutcomesKept'
  <2>1. ASSUME NEW j \in Jobs, child[j] = "panicked" PROVE Registered(j)' \/ j \in failures'
    BY <1>1, <1>3, <2>1 DEF OutcomesKept
  <2>2. ASSUME NEW j \in Jobs, child[j] = "rejected"
        PROVE  \/ Registered(j)'
               \/ caller'[j] \in {"claimed", "answered"}
               \/ \E s \in Slots : rejections'[s] # NoJob
    <3>1. CASE Registered(j)
      BY <1>3, <2>2, <3>1 DEF OutcomesKept
    <3>2. CASE ~Registered(j)
      BY <1>1, <2>2, <3>2 DEF OutcomesKept
    <3> QED
      BY <3>1, <3>2
  <2>3. claimed \subseteq joined' /\ claimed \subseteq Jobs
    BY <1>1 DEF OutcomesKept, TypeOK
  <2>4. \A j \in claimed : child[j] = "rejected" => caller'[j] \in {"claimed", "answered"}
    BY <2>3 DEF OutcomesKept
  <2> QED
    BY <1>2, <2>1, <2>2, <2>3, <2>4 DEF OutcomesKept
<1>6. CensusSweeps'
  <2>1. \A s \in Slots : registry'[s] \in {registry[s], NoJob}
    BY <1>1 DEF Freed
  <2> QED
    BY <1>1, <1>2, <2>1 DEF CensusSweeps
<1> QED
  BY <1>4, <1>5, <1>6

\* What every step keeps that leaves the registry and its report alone and
\* forgets no caller's claim.
LEMMA CustodyKeeps ==
    ASSUME JobInv, UNCHANGED <<child, claimed, registry, rejections, failures, joined>>,
           \A j \in Jobs : child[j] = "rejected" /\ caller[j] \in {"claimed", "answered"} =>
                              caller'[j] \in {"claimed", "answered"}
    PROVE  ChildrenHeld' /\ OutcomesKept'
<1>1. \A j : Registered(j)' <=> Registered(j)
  BY DEF Registered
<1>2. ChildrenHeld'
  BY <1>1 DEF JobInv, ChildrenHeld
<1>3. OutcomesKept'
  BY <1>1 DEF JobInv, OutcomesKept, TypeOK
<1> QED
  BY <1>2, <1>3

\* Nobody gains request_owners on a step whose callers and children keep it.
LEMMA OwnersKeep ==
    ASSUME JobInv, shutdown' = shutdown, group' = group,
           \A j \in Jobs : HoldsOwner(j)' =>
              \/ HoldsOwner(j) /\ (caller[j] = "owner" => caller'[j] = "owner")
              \/ shutdown # "proposal" /\ caller'[j] = "owner"
              \/ ~closed
    PROVE  OwnersGone'
BY DEF JobInv, OwnersGone, GroupOutlivesRequests, CensusSweeps

----------------------------------------------------------------------------
(* One lemma per step *)

\* A check of admission for a peer.
LEMMA CheckOpenKeeps == ASSUME JobInv, CheckOpen PROVE JobInv'
<1>1. observe /\ UNCHANGED <<caller, child, claimed, abandoned, proposal>> /\ UNCHANGED stopping
  BY DEF CheckOpen, callers
<1>2. ChildrenHeld' /\ OutcomesKept' /\ CensusSweeps'
  BY <1>1, ObserveKeeps
<1>3. UNCHANGED <<shutdown, slot, target, group>>
  BY <1>1 DEF stopping
<1>4. TypeOK'
  BY <1>1, <1>3, ObserveView DEF JobInv, TypeOK
<1>5. CallersMatch'
  BY <1>1 DEF JobInv, CallersMatch
<1>6. OwnersGone'
  BY <1>1, <1>3, OwnersKeep DEF HoldsOwner, HoldsPermit
<1> QED
  BY <1>2, <1>4, <1>5, <1>6 DEF JobInv

\* Admission: a caller moves on only through a check that finds it open.
LEMMA AdmissionKeeps ==
    ASSUME JobInv, NEW j \in Jobs, TakeCapacity(j) \/ Enter(j) \/ BeginSubmit(j)
    PROVE  JobInv'
<1>1. /\ observe /\ UNCHANGED <<child, claimed, abandoned, proposal>> /\ UNCHANGED stopping
      /\ \/ caller[j] = "none" /\ caller' = [caller EXCEPT ![j] = "capacity"]
         \/ caller[j] = "owner" /\ caller' = [caller EXCEPT ![j] = "gone"]
         \/ /\ caller[j] \in {"owner", "admitted"} /\ ~closed'
            /\ caller' = [caller EXCEPT ![j] = IF caller[j] = "owner" THEN "admitted"
                                               ELSE "submitting"]
  BY DEF TakeCapacity, Enter, BeginSubmit, Become
<1>2. ChildrenHeld' /\ OutcomesKept' /\ CensusSweeps'
  BY <1>1, ObserveKeeps DEF JobInv, TypeOK
<1>3. UNCHANGED <<shutdown, slot, target, group>>
  BY <1>1 DEF stopping
<1>4. TypeOK'
  BY <1>1, <1>3, ObserveView DEF JobInv, TypeOK
<1>5. CallersMatch'
  BY <1>1, EndedIs DEF JobInv, CallersMatch, TypeOK
<1>6. closed => closed'
  BY ObserveView, <1>1 DEF JobInv
<1>7. ASSUME NEW i \in Jobs, HoldsOwner(i)'
      PROVE  (HoldsOwner(i) /\ (caller[i] = "owner" => caller'[i] = "owner")) \/ ~closed
  BY <1>1, <1>6, <1>7, EndedIs DEF HoldsOwner, HoldsPermit, JobInv, TypeOK, CallersMatch
<1>8. OwnersGone'
  BY <1>3, <1>7, OwnersKeep
<1> QED
  BY <1>2, <1>4, <1>5, <1>8 DEF JobInv

\* Taking the owner guard, leaving, receiving, abandoning and dropping a response
\* move one caller and nothing else.
LEMMA CallerKeeps ==
    ASSUME JobInv, NEW j \in Jobs,
           TakeOwner(j) \/ Leave(j) \/ Receive(j) \/ Abandon(j) \/ DropResponse(j)
    PROVE  JobInv'
<1>1. /\ UNCHANGED <<closed, child, claimed, proposal>> /\ UNCHANGED <<custody, stopping>>
      /\ abandoned' \in {abandoned, abandoned \cup {j}}
      /\ \/ /\ caller[j] = "capacity" /\ shutdown # "proposal"
            /\ caller' = [caller EXCEPT ![j] = "owner"]
         \/ /\ caller[j] \in {"capacity", "owner", "admitted", "submitting", "waiting",
                              "joining", "returned"}
            /\ caller' = [caller EXCEPT ![j] = "gone"]
         \/ /\ caller[j] = "waiting" /\ child[j] \in Ended
            /\ caller' = [caller EXCEPT ![j] = "joining"]
  BY DEF TakeOwner, Leave, Receive, Abandon, DropResponse, Become
<1>2. UNCHANGED <<registry, rejections, failures, joined, reported, shutdown, slot, target, group>>
  BY <1>1 DEF custody, stopping
<1>3. ChildrenHeld' /\ OutcomesKept'
  BY <1>1, <1>2, CustodyKeeps DEF JobInv, TypeOK
<1>4. CensusSweeps'
  BY <1>1, <1>2 DEF JobInv, CensusSweeps
<1>5. TypeOK'
  BY <1>1, <1>2 DEF JobInv, TypeOK
<1>6. CallersMatch'
  BY <1>1, EndedIs DEF JobInv, CallersMatch, TypeOK
<1>7. ASSUME NEW i \in Jobs, HoldsOwner(i)'
      PROVE  \/ HoldsOwner(i) /\ (caller[i] = "owner" => caller'[i] = "owner")
             \/ shutdown # "proposal" /\ caller'[i] = "owner"
  BY <1>1, <1>7, EndedIs DEF HoldsOwner, HoldsPermit, JobInv, TypeOK, CallersMatch
<1>8. OwnersGone'
  BY <1>2, <1>7, OwnersKeep
<1> QED
  BY <1>3, <1>4, <1>5, <1>6, <1>8 DEF JobInv

\* A submitted child is in the registry from the moment it exists.
LEMMA InstallKeeps ==
    ASSUME JobInv, NEW j \in Jobs, NEW s \in Slots, Install(j, s)
    PROVE  JobInv'
<1> USE DEF JobInv
<1>1. /\ ~closed /\ registry[s] = NoJob /\ caller[j] = "submitting"
      /\ caller' = [caller EXCEPT ![j] = "waiting"] /\ child' = [child EXCEPT ![j] = "queued"]
      /\ registry' = [registry EXCEPT ![s] = j]
      /\ UNCHANGED <<closed, claimed, abandoned, rejections, failures, joined, reported, proposal>>
      /\ UNCHANGED stopping
  BY DEF Install, Become
<1>2. UNCHANGED <<shutdown, slot, target, group>>
  BY <1>1 DEF stopping
<1>3. child[j] = "none" /\ j # NoJob /\ j \notin joined
  BY <1>1, JobsAssumption, EndedIs DEF CallersMatch, ChildrenHeld
<1>4. TypeOK'
  BY <1>1, <1>2 DEF TypeOK
<1>5. CallersMatch'
  BY <1>1, EndedIs DEF CallersMatch, TypeOK
<1>6. Registered(j)' /\ \A i \in Jobs : Registered(i) => Registered(i)'
  BY <1>1, JobsAssumption DEF Registered, TypeOK
<1>7. ChildrenHeld'
  <2>1. \A i \in Jobs : child'[i] # "none" /\ i \notin joined' => Registered(i)'
    BY <1>1, <1>6 DEF ChildrenHeld, TypeOK
  <2>2. \A i \in joined' : child'[i] \in Ended
    BY <1>1, <1>3 DEF ChildrenHeld, TypeOK
  <2>3. \A r \in Slots : registry[r] # j
    BY <1>3 DEF ChildrenHeld
  <2>4. \A r \in Slots : registry'[r] # NoJob => child'[registry'[r]] # "none"
    BY <1>1, <2>3 DEF ChildrenHeld, TypeOK
  <2>5. \A q, r \in Slots : registry'[q] # NoJob /\ registry'[q] = registry'[r] => q = r
    BY <1>1, <2>3 DEF ChildrenHeld, TypeOK
  <2> QED
    BY <2>1, <2>2, <2>4, <2>5 DEF ChildrenHeld
<1>8. OutcomesKept'
  <2>1. \A i \in Jobs : i # j => child'[i] = child[i] /\ caller'[i] = caller[i]
    BY <1>1 DEF TypeOK
  <2>2. child'[j] = "queued" /\ j \notin claimed
    BY <1>1, <1>3 DEF TypeOK, OutcomesKept
  <2> QED
    BY <1>1, <1>6, <2>1, <2>2 DEF OutcomesKept, TypeOK
<1>9. CensusSweeps'
  BY <1>1, <1>2 DEF CensusSweeps
<1>10. OwnersGone'
  BY <1>1, <1>2, OwnersKeep
<1> QED
  BY <1>4, <1>5, <1>7, <1>8, <1>9, <1>10

\* A child runs and ends; it holds what it held.
LEMMA ChildKeeps ==
    ASSUME JobInv, NEW j \in Jobs, ChildStep(j) PROVE JobInv'
<1> USE DEF JobInv
<1>1. PICK r \in {"proposing"} \cup Ended :
         /\ child[j] \in {"queued", "proposing"} /\ child' = [child EXCEPT ![j] = r]
         /\ closed' \in BOOLEAN /\ (closed => closed') /\ proposal' \in BOOLEAN
         /\ UNCHANGED <<caller, claimed, abandoned>> /\ UNCHANGED <<custody, stopping>>
  <2>1. CASE LockProposal(j)
    BY <2>1 DEF LockProposal, TypeOK
  <2>2. CASE ChildEnds(j)
    <3>1. PICK r \in Ended : /\ child' = [child EXCEPT ![j] = r]
                             /\ closed' = (closed \/ r = "panicked")
      BY <2>2 DEF ChildEnds
    <3>2. closed' \in BOOLEAN /\ (closed => closed')
      BY <3>1 DEF TypeOK
    <3> QED
      BY <2>2, <3>1, <3>2 DEF ChildEnds
  <2> QED
    BY <2>1, <2>2 DEF ChildStep
<1>2. UNCHANGED <<registry, rejections, failures, joined, reported, shutdown, slot, target, group>>
  BY <1>1 DEF custody, stopping
<1>3. j \notin joined /\ j \notin claimed /\ Registered(j) /\ r # "none"
  BY <1>1, EndedIs DEF ChildrenHeld, OutcomesKept
<1>4. TypeOK'
  BY <1>1, <1>2 DEF TypeOK
<1>5. \A i \in Jobs : i # j => child'[i] = child[i]
  BY <1>1 DEF TypeOK
<1>6. child'[j] = r
  BY <1>1 DEF TypeOK
<1>7. caller[j] \in {"waiting", "gone"}
  BY <1>1, EndedIs DEF CallersMatch, TypeOK
<1>8. CallersMatch'
  BY <1>1, <1>3, <1>5, <1>6, <1>7 DEF CallersMatch
<1>9. \A i : Registered(i)' <=> Registered(i)
  BY <1>2 DEF Registered
<1>10. ChildrenHeld'
  <2>1. \A i \in Jobs : child'[i] # "none" /\ i \notin joined => Registered(i)
    BY <1>3, <1>5 DEF ChildrenHeld
  <2>2. \A i \in joined : child'[i] \in Ended
    BY <1>3, <1>5 DEF ChildrenHeld, TypeOK
  <2>3. \A s \in Slots : registry[s] # NoJob => child'[registry[s]] # "none"
    BY <1>3, <1>5, <1>6 DEF ChildrenHeld, TypeOK
  <2> QED
    BY <1>2, <1>9, <2>1, <2>2, <2>3 DEF ChildrenHeld
<1>11. OutcomesKept'
  BY <1>1, <1>2, <1>3, <1>5, <1>9 DEF OutcomesKept, TypeOK
<1>12. CensusSweeps'
  BY <1>1, <1>2 DEF CensusSweeps
<1>13. ASSUME NEW i \in Jobs, HoldsOwner(i)'
       PROVE  HoldsOwner(i) /\ (caller[i] = "owner" => caller'[i] = "owner")
  BY <1>1, <1>5, <1>7, <1>13 DEF HoldsOwner, HoldsPermit
<1>14. OwnersGone'
  BY <1>2, <1>13, OwnersKeep
<1> QED
  BY <1>4, <1>8, <1>10, <1>11, <1>12, <1>14

\* A caller joins its child; what it claims, it takes along.
LEMMA JoinKeeps ==
    ASSUME JobInv, NEW j \in Jobs, JoinChild(j) PROVE JobInv'
<1> USE DEF JobInv
<1>1. /\ caller[j] = "joining" /\ joined' = joined \cup {j} /\ reported' = reported \cup {j}
      /\ closed' \in BOOLEAN /\ (closed => closed')
      /\ abandoned' \in {abandoned, abandoned \cup {j}}
      /\ \/ /\ child[j] = "panicked" /\ caller' = [caller EXCEPT ![j] = "gone"]
            /\ claimed' = claimed
         \/ /\ child[j] # "panicked" /\ caller' = [caller EXCEPT ![j] = "claimed"]
            /\ claimed' \in {claimed, claimed \cup {j}}
      /\ UNCHANGED <<child, registry, rejections, failures, proposal>> /\ UNCHANGED stopping
  <2>1. CASE child[j] = "panicked"
    BY <2>1 DEF JoinChild, Become
  <2>2. CASE child[j] # "panicked"
    <3>1. closed' = closed /\ closed \in BOOLEAN
      BY <2>2 DEF JoinChild, TypeOK
    <3>2. claimed' \in {claimed, claimed \cup {j}}
      BY <2>2 DEF JoinChild
    <3> QED
      BY <2>2, <3>1, <3>2 DEF JoinChild, Become
  <2> QED
    BY <2>1, <2>2
<1>2. UNCHANGED <<shutdown, slot, target, group>>
  BY <1>1 DEF stopping
<1>3. child[j] \in Ended
  BY <1>1 DEF CallersMatch
<1>4. TypeOK'
  BY <1>1, <1>2 DEF TypeOK
<1>5. CallersMatch'
  BY <1>1, <1>3 DEF CallersMatch, TypeOK, Ended
<1>6. \A i : Registered(i)' <=> Registered(i)
  BY <1>1 DEF Registered
<1>7. ChildrenHeld'
  BY <1>1, <1>3, <1>6 DEF ChildrenHeld
<1>8. OutcomesKept'
  <2>1. \A i \in Jobs : i # j => caller'[i] = caller[i]
    BY <1>1 DEF TypeOK
  <2>2. child[j] = "rejected" => caller'[j] = "claimed"
    BY <1>1 DEF TypeOK
  <2>3. claimed' \subseteq joined'
    BY <1>1 DEF OutcomesKept
  <2>4. \A i \in claimed' : child[i] = "rejected" => caller'[i] \in {"claimed", "answered"}
    BY <1>1, <2>1, <2>2 DEF OutcomesKept, TypeOK
  <2> QED
    BY <1>1, <1>6, <2>1, <2>2, <2>3, <2>4 DEF OutcomesKept
<1>9. CensusSweeps'
  BY <1>1, <1>2 DEF CensusSweeps
<1>10. ASSUME NEW i \in Jobs, HoldsOwner(i)'
       PROVE  HoldsOwner(i) /\ (caller[i] = "owner" => caller'[i] = "owner")
  BY <1>1, <1>3, <1>10, EndedIs DEF HoldsOwner, HoldsPermit, TypeOK
<1>11. OwnersGone'
  BY <1>2, <1>10, OwnersKeep
<1> QED
  BY <1>4, <1>5, <1>7, <1>8, <1>9, <1>11

\* A claimed answer is delivered.
LEMMA DeliverKeeps ==
    ASSUME JobInv, NEW j \in Jobs, Deliver(j) PROVE JobInv'
<1> USE DEF JobInv
<1> DEFINE c == IF child[j] = "ok" THEN "returned" ELSE "answered"
<1>1. /\ observe /\ caller[j] = "claimed" /\ caller' = [caller EXCEPT ![j] = c]
      /\ abandoned' = abandoned \cup {j}
      /\ UNCHANGED <<child, claimed, proposal>> /\ UNCHANGED stopping
  BY DEF Deliver, Become
<1>2. UNCHANGED <<shutdown, slot, target, group>>
  BY <1>1 DEF stopping
<1>3. child[j] \in {"ok", "rejected"}
  BY <1>1 DEF CallersMatch
<1>4. ChildrenHeld' /\ OutcomesKept' /\ CensusSweeps'
  BY <1>1, ObserveKeeps DEF TypeOK
<1>5. TypeOK'
  BY <1>1, <1>2, ObserveView DEF TypeOK
<1>6. CallersMatch'
  BY <1>1, <1>3, EndedIs DEF CallersMatch, TypeOK
<1>7. ASSUME NEW i \in Jobs, HoldsOwner(i)'
      PROVE  HoldsOwner(i) /\ (caller[i] = "owner" => caller'[i] = "owner")
  BY <1>1, <1>3, <1>7 DEF HoldsOwner, HoldsPermit, TypeOK
<1>8. OwnersGone'
  BY <1>2, <1>7, OwnersKeep
<1> QED
  BY <1>4, <1>5, <1>6, <1>8

\* Shutdown closes admission before it looks at the first slot; a cancelled one
\* leaves it closed.
LEMMA ShutdownKeeps ==
    ASSUME JobInv, BeginShutdown \/ CancelShutdown \/ LockOwners \/ StopGroup
    PROVE  JobInv'
<1> USE DEF JobInv
<1>1. UNCHANGED <<caller, child, claimed, abandoned, proposal, registry, rejections, failures,
                  joined, reported>>
  BY DEF BeginShutdown, CancelShutdown, LockOwners, StopGroup, callers, custody
<1>2. ChildrenHeld' /\ OutcomesKept'
  BY <1>1, CustodyKeeps
<1>3. CallersMatch'
  BY <1>1 DEF CallersMatch
<1>4. \A j : HoldsOwner(j)' <=> HoldsOwner(j)
  BY <1>1 DEF HoldsOwner, HoldsPermit
<1>5. CASE BeginShutdown
  <2>1. closed' = TRUE /\ shutdown' = "census" /\ slot' = 1 /\ UNCHANGED <<target, group>>
    BY <1>5 DEF BeginShutdown
  <2>2. target = NoJob
    BY <1>5 DEF BeginShutdown, CensusSweeps
  <2>3. TypeOK'
    BY <1>1, <2>1, JobsAssumption DEF TypeOK
  <2>4. CensusSweeps'
    BY <1>1, <2>1, <2>2 DEF CensusSweeps, Slots
  <2>5. OwnersGone'
    BY <1>1, <1>4, <2>1 DEF OwnersGone, GroupOutlivesRequests
  <2> QED
    BY <1>2, <1>3, <2>3, <2>4, <2>5
<1>6. CASE CancelShutdown
  <2>1. shutdown # "idle" /\ shutdown' = "idle" /\ target' = NoJob /\ UNCHANGED <<closed, slot, group>>
    BY <1>6 DEF CancelShutdown
  <2>2. TypeOK'
    BY <1>1, <2>1 DEF TypeOK
  <2>3. CensusSweeps'
    BY <1>1, <2>1 DEF CensusSweeps
  <2>4. OwnersGone'
    BY <1>1, <1>4, <2>1 DEF OwnersGone, GroupOutlivesRequests
  <2> QED
    BY <1>2, <1>3, <2>2, <2>3, <2>4
<1>7. CASE LockOwners
  <2>1. /\ shutdown = "owners" /\ shutdown' = "proposal" /\ UNCHANGED <<closed, slot, target, group>>
        /\ \A j \in Jobs : ~HoldsOwner(j)
    BY <1>7 DEF LockOwners
  <2>2. TypeOK'
    BY <1>1, <2>1 DEF TypeOK
  <2>3. CensusSweeps'
    BY <1>1, <2>1 DEF CensusSweeps
  <2>4. OwnersGone'
    BY <1>1, <1>4, <2>1 DEF OwnersGone, GroupOutlivesRequests
  <2> QED
    BY <1>2, <1>3, <2>2, <2>3, <2>4
<1>8. CASE StopGroup
  <2>1. /\ shutdown = "proposal" /\ shutdown' = "idle" /\ group' = "down"
        /\ UNCHANGED <<closed, slot, target>>
    BY <1>8 DEF StopGroup
  <2>2. TypeOK'
    BY <1>1, <2>1 DEF TypeOK
  <2>3. CensusSweeps'
    BY <1>1, <2>1 DEF CensusSweeps
  <2>4. OwnersGone'
    BY <1>1, <1>4, <2>1 DEF OwnersGone, GroupOutlivesRequests
  <2> QED
    BY <1>2, <1>3, <2>2, <2>3, <2>4
<1> QED
  BY <1>5, <1>6, <1>7, <1>8

\* The census goes past a slot only when it is empty.
LEMMA CensusPickKeeps ==
    ASSUME JobInv, CensusPick PROVE JobInv'
<1> USE DEF JobInv
<1>1. /\ shutdown = "census" /\ target = NoJob
      /\ UNCHANGED <<closed, caller, child, claimed, abandoned, proposal, registry, rejections,
                     failures, joined, reported, group>>
  BY DEF CensusPick, callers, custody
<1>2. ChildrenHeld' /\ OutcomesKept'
  BY <1>1, CustodyKeeps
<1>3. CallersMatch'
  BY <1>1 DEF CallersMatch
<1>4. \/ /\ slot \in Slots /\ registry[slot] # NoJob /\ target' = registry[slot]
         /\ UNCHANGED <<shutdown, slot>>
      \/ /\ slot \in Slots /\ registry[slot] = NoJob /\ slot' = slot + 1
         /\ UNCHANGED <<shutdown, target>>
      \/ slot \notin Slots /\ shutdown' = "owners" /\ UNCHANGED <<slot, target>>
  BY DEF CensusPick
<1>5. Capacity \in Nat /\ slot \in 1 .. Capacity + 1
  BY JobsAssumption DEF TypeOK
<1>6. slot' \in 1 .. Capacity + 1
  BY <1>4, <1>5 DEF Slots
<1>7. TypeOK'
  BY <1>1, <1>4, <1>6 DEF TypeOK
<1>8. CensusSweeps'
  <2>1. \A s \in Slots : s < slot' => registry[s] = NoJob
    BY <1>1, <1>4, <1>5 DEF CensusSweeps, Slots
  <2>2. shutdown' = "owners" => \A s \in Slots : registry[s] = NoJob
    <3>1. slot \notin Slots => \A s \in Slots : s < slot
      BY <1>5 DEF Slots
    <3> QED
      BY <1>1, <1>4, <3>1 DEF CensusSweeps
  <2> QED
    BY <1>1, <1>4, <2>1, <2>2 DEF CensusSweeps
<1>9. \A j : HoldsOwner(j)' <=> HoldsOwner(j)
  BY <1>1 DEF HoldsOwner, HoldsPermit
<1>10. OwnersGone'
  BY <1>1, <1>4, <1>9 DEF OwnersGone, GroupOutlivesRequests
<1> QED
  BY <1>2, <1>3, <1>7, <1>8, <1>10

\* What the census joins it merges into the report before the slot is freed.
LEMMA CensusJoinKeeps ==
    ASSUME JobInv, CensusJoin PROVE JobInv'
<1> USE DEF JobInv
<1>1. /\ target # NoJob /\ child[target] \in Ended
      /\ joined' = joined \cup {target} /\ reported' = reported \cup {target}
      /\ failures' = IF child[target] = "panicked" THEN failures \cup {target} ELSE failures
      /\ rejections' =
            IF child[target] = "rejected" /\ target \notin claimed /\ rejections[slot] = NoJob
            THEN [rejections EXCEPT ![slot] = target] ELSE rejections
      /\ registry' = [registry EXCEPT ![slot] = NoJob]
      /\ slot' = slot + 1 /\ target' = NoJob
      /\ UNCHANGED <<closed, caller, child, claimed, abandoned, shutdown, group, proposal>>
  BY DEF CensusJoin, callers
<1>2. /\ shutdown = "census" /\ slot \in Slots /\ registry[slot] \in {target, NoJob}
      /\ target \in Jobs /\ Capacity \in Nat
  BY <1>1, JobsAssumption DEF CensusSweeps, TypeOK
<1>3. slot' \in 1 .. Capacity + 1 /\ slot' \in Nat
  BY <1>1, <1>2 DEF Slots
<1>4. TypeOK'
  BY <1>1, <1>2, <1>3 DEF TypeOK
<1>5. CallersMatch'
  BY <1>1 DEF CallersMatch
<1>6. ASSUME NEW j \in Jobs, j # target, Registered(j) PROVE Registered(j)'
  BY <1>1, <1>2, <1>6, JobsAssumption DEF Registered, TypeOK
<1>7. ChildrenHeld'
  <2>1. \A j \in Jobs : child[j] # "none" /\ j \notin joined' => Registered(j)'
    BY <1>1, <1>6 DEF ChildrenHeld
  <2>2. \A s \in Slots : registry'[s] # NoJob => registry'[s] = registry[s]
    BY <1>1, <1>2 DEF TypeOK
  <2> QED
    BY <1>1, <2>1, <2>2 DEF ChildrenHeld
<1>8. OutcomesKept'
  <2>1. \A s \in Slots : rejections[s] # NoJob => rejections'[s] # NoJob
    BY <1>1, <1>2, JobsAssumption DEF TypeOK
  <2>2. child[target] = "rejected" /\ target \notin claimed => rejections'[slot] # NoJob
    BY <1>1, <1>2 DEF TypeOK
  <2>3. ASSUME NEW j \in Jobs, child[j] = "panicked" PROVE Registered(j)' \/ j \in failures'
    BY <1>1, <1>6, <2>3 DEF OutcomesKept
  <2>4. ASSUME NEW j \in Jobs, child[j] = "rejected"
        PROVE  \/ Registered(j)'
               \/ caller[j] \in {"claimed", "answered"}
               \/ \E s \in Slots : rejections'[s] # NoJob
    <3>1. CASE j = target
      BY <1>2, <2>2, <2>4, <3>1 DEF OutcomesKept
    <3>2. CASE j # target
      BY <1>6, <2>1, <2>4, <3>2 DEF OutcomesKept
    <3> QED
      BY <3>1, <3>2
  <2> QED
    BY <1>1, <2>3, <2>4 DEF OutcomesKept
<1>9. CensusSweeps'
  <2>1. \A s \in Slots : registry'[s] \in {registry[s], NoJob}
    BY <1>1, <1>2 DEF TypeOK
  <2>2. \A s \in Slots : s < slot' => s < slot \/ s = slot
    BY <1>1, <1>2 DEF Slots
  <2>3. \A s \in Slots : s < slot' => registry'[s] = NoJob
    BY <1>1, <1>2, <2>1, <2>2 DEF CensusSweeps, TypeOK
  <2> QED
    BY <1>1, <1>2, <2>1, <2>3 DEF CensusSweeps
<1>10. \A j : HoldsOwner(j)' <=> HoldsOwner(j)
  BY <1>1 DEF HoldsOwner, HoldsPermit
<1>11. OwnersGone'
  BY <1>1, <1>10 DEF OwnersGone, GroupOutlivesRequests
<1> QED
  BY <1>4, <1>5, <1>7, <1>8, <1>9, <1>11

----------------------------------------------------------------------------
\* The invariant of request custody holds in a new service ...
LEMMA JobInit == Init => JobInv
<1> SUFFICES ASSUME Init PROVE JobInv
  OBVIOUS
<1>1. TypeOK
  <2>1. {closed, proposal} \subseteq BOOLEAN
    BY DEF Init
  <2>2. slot \in 1 .. Capacity + 1
    BY JobsAssumption DEF Init
  <2> QED
    BY <2>1, <2>2 DEF Init, TypeOK
<1>2. CallersMatch /\ ChildrenHeld /\ OutcomesKept /\ CensusSweeps
  BY DEF Init, CallersMatch, ChildrenHeld, OutcomesKept, CensusSweeps
<1>3. OwnersGone
  BY DEF Init, OwnersGone, GroupOutlivesRequests
<1> QED
  BY <1>1, <1>2, <1>3 DEF JobInv

\* ... and every step keeps it.
LEMMA JobNext == JobInv /\ [Next]_vars => JobInv'
<1> SUFFICES ASSUME JobInv, [Next]_vars PROVE JobInv'
  OBVIOUS
<1>1. CASE UNCHANGED vars
  <2>1. UNCHANGED <<closed, caller, child, claimed, abandoned, registry, rejections, failures,
                    joined, reported, shutdown, slot, target, group, proposal>>
    BY <1>1 DEF vars, callers, custody, stopping
  <2> QED
    BY <2>1 DEF JobInv, TypeOK, CallersMatch, ChildrenHeld, OutcomesKept, CensusSweeps,
                OwnersGone, GroupOutlivesRequests, HoldsOwner, HoldsPermit, Registered
<1> QED
  BY <1>1, CheckOpenKeeps, AdmissionKeeps, CallerKeeps, InstallKeeps, ChildKeeps, JoinKeeps,
     DeliverKeeps, ShutdownKeeps, CensusPickKeeps, CensusJoinKeeps
     DEF Next, CallerStep, ShutdownStep

\* A shutdown misses nobody: when its census has passed, every child that was
\* ever accepted has been joined, and the Raft group is stopped under no admitted
\* request, running child or returned response; for any number of requests, slots
\* and cancelled shutdowns.
THEOREM NobodyIsMissed == Spec => []ShutdownMissesNobody
<1>1. JobInv => ShutdownMissesNobody
  <2> SUFFICES ASSUME JobInv PROVE CensusMissesNobody
    BY DEF JobInv, OwnersGone, ShutdownMissesNobody
  <2> SUFFICES ASSUME shutdown \in {"owners", "proposal"} \/ group = "down",
                      NEW j \in Jobs, child[j] # "none"
               PROVE  j \in joined /\ ~Registered(j)
    BY DEF CensusMissesNobody
  <2>1. ~Registered(j)
    BY JobsAssumption DEF JobInv, CensusSweeps, Registered
  <2> QED
    BY <2>1 DEF JobInv, ChildrenHeld
<1> QED
  BY <1>1, JobInit, JobNext, PTL DEF Spec

\* A shutdown report without an issue is the truth: no child panicked, and every
\* rejection reached its own caller, whichever admission check, caller or census
\* took it out of the registry.
THEOREM CleanReportsAreTrue == Spec => []CleanReportIsTrue
<1>1. JobInv => CleanReportIsTrue
  <2> SUFFICES ASSUME JobInv, group = "down", failures = {},
                      \A s \in Slots : rejections[s] = NoJob, NEW j \in Jobs
               PROVE  /\ child[j] # "panicked"
                      /\ child[j] = "rejected" => caller[j] \in {"claimed", "answered"}
    BY DEF CleanReportIsTrue
  <2>1. ~Registered(j)
    BY JobsAssumption DEF JobInv, CensusSweeps, Registered
  <2> QED
    BY <2>1 DEF JobInv, OutcomesKept
<1> QED
  BY <1>1, JobInit, JobNext, PTL DEF Spec
=============================================================================
