---------------------------- MODULE DrainWitness ----------------------------
(***************************************************************************)
(* The elapsed-time witnesses an authority process keeps for permanent     *)
(* stops (kasumi-authority/src/service.rs, `Drain`, `require_drain_        *)
(* witness`) and the drain interval of the installed manifest              *)
(* (kasumi-serving/src/protocol.rs, `drain_ms`).                           *)
(*                                                                         *)
(* The code compares clock readings only through their differences, so a   *)
(* witness holds two ages instead of two instants: `elapsed` is now minus  *)
(* `started`, `since` is now minus `last`.  A backward jump of the issuer  *)
(* clock makes ages smaller, possibly negative.  Ages saturate at Horizon. *)
(***************************************************************************)
EXTENDS Integers, FiniteSets

CONSTANTS
    Ids,            \* permanent command identities; a stop is named by its own
    None,           \* an absent record
    MaxLease,       \* manifest.max_lease_ms, in ticks of a local clock
    RateScale,      \* one million in the code
    RateError,      \* manifest.clock_rate_error_ppm
    DrainCapacity,  \* 10_000 in the code
    MaxRegression   \* bound: total backward movement of the issuer clock

ASSUME DrainAssumption ==
    /\ MaxLease \in Nat \ {0}
    /\ RateScale \in Nat /\ RateError \in Nat /\ RateError < RateScale
    /\ DrainCapacity \in Nat \ {0}
    /\ MaxRegression \in Nat

\* What a clock within the installed rate bound may show for one unit of time.
RateLo == RateScale - RateError
RateHi == RateScale + RateError
Advance == RateLo .. RateHi

\* Slowest allowed client against fastest allowed issuer, rounded upward.
drain_ms == (MaxLease * RateHi + RateLo - 1) \div RateLo

\* Past this age a witness stays complete whatever regression is still allowed.
Horizon == drain_ms + MaxRegression

Witness == [term : Nat, elapsed : Int, since : Int]
ASSUME NoneAssumption == None \notin Ids /\ None \notin Int /\ None \notin Witness

Fresh(t) == [term |-> t, elapsed |-> 0, since |-> 0]

AtMost(n, m) == IF n <= m THEN n ELSE m
AtLeast(n, m) == IF n >= m THEN n ELSE m

\* Every witness seen b later, or |b| earlier, on the issuer's clock.
Aged(drains, b) ==
    [k \in Ids |-> IF drains[k] = None THEN None
                   ELSE [drains[k] EXCEPT !.elapsed = AtMost(@ + b, Horizon),
                                          !.since   = AtMost(@ + b, Horizon)]]

\* Other terms are dropped; a regression restarts every remaining witness.
Observed(drains, t) ==
    [k \in Ids |->
        IF drains[k] = None THEN None
        ELSE IF drains[k].term # t THEN None
        ELSE [term    |-> t,
              elapsed |-> IF drains[k].since < 0 THEN 0 ELSE drains[k].elapsed,
              since   |-> 0]]

Held(drains) == {k \in Ids : drains[k] # None}

\* Mutant: a started witness counts as a finished one.
Complete_OnceStarted(drains, k) == drains[k] # None

Complete(drains, k) == drains[k] # None /\ drains[k].elapsed >= drain_ms

\* Mutant: every call starts the wait afresh.
Started_Always(drains, k, t) == [drains EXCEPT ![k] = Fresh(t)]

Started(drains, k, t) ==
    IF drains[k] = None THEN [drains EXCEPT ![k] = Fresh(t)] ELSE drains

\* Mutant: a full map still takes the new witness.
RequireDrainWitness_NoLimit(drains, k, t) == {Started(Observed(drains, t), k, t)}

\* The maps require_drain_witness may leave: a full map gives up one completed
\* witness (any: the map is ordered by digest), or else refuses the new one.
RequireDrainWitness(drains, k, t) ==
    LET seen == Observed(drains, t)
        done == {e \in Ids : Complete(seen, e)}
    IN  IF seen[k] # None \/ Cardinality(Held(seen)) < DrainCapacity
        THEN {Started(seen, k, t)}
        ELSE IF done = {} THEN {seen}
        ELSE {Started([seen EXCEPT ![e] = None], k, t) : e \in done}
=============================================================================
