---------------------------- MODULE DrainLedger ----------------------------
(***************************************************************************)
(* One authority process using its witness map for many permanent stops,   *)
(* with everything that can disturb it: a full map, leader changes,        *)
(* restarts and a clock that jumps backwards.  `waited` is what the map is *)
(* meant to measure: how far the issuer's clock has really advanced since  *)
(* a stop was committed.                                                   *)
(***************************************************************************)
EXTENDS DrainWitness

CONSTANT MaxTerm   \* bound: leader changes

ASSUME LedgerAssumption == MaxTerm \in Nat \ {0}

VARIABLES
    drains,     \* the witness map
    term,       \* the process's current term
    waited,     \* per stop: time since it was committed, None before
    regressed,  \* total backward movement so far
    released    \* stops some call has reported as drained

ledgerVars == <<drains, term, waited, regressed, released>>

LedgerInit ==
    /\ drains = [k \in Ids |-> None]
    /\ waited = [k \in Ids |-> None]
    /\ term = 1 /\ regressed = 0 /\ released = {}

CommitStop(k) ==
    /\ waited[k] = None
    /\ waited' = [waited EXCEPT ![k] = 0]
    /\ UNCHANGED <<drains, term, regressed, released>>

\* require_drain for a stop that is visible in the replicated state.
require_drain(k) ==
    /\ waited[k] # None
    /\ drains' \in RequireDrainWitness(drains, k, term)
    /\ released' = IF Complete(drains', k) THEN released \cup {k} ELSE released
    /\ UNCHANGED <<term, waited, regressed>>

ChangeTerm ==
    /\ term < MaxTerm
    /\ term' = term + 1
    /\ UNCHANGED <<drains, waited, regressed, released>>

Restart ==
    /\ Held(drains) # {}
    /\ drains' = [k \in Ids |-> None]
    /\ UNCHANGED <<term, waited, regressed, released>>

ClockRegresses(j) ==
    /\ regressed + j <= MaxRegression
    /\ regressed' = regressed + j
    /\ drains' = Aged(drains, -j)
    /\ UNCHANGED <<term, waited, released>>

Tick(b) ==
    /\ drains' = Aged(drains, b)
    /\ waited' = [k \in Ids |-> IF waited[k] = None THEN None
                                ELSE AtMost(waited[k] + b, Horizon)]
    /\ UNCHANGED <<term, regressed, released>>

LedgerStep ==
    \/ \E k \in Ids : CommitStop(k) \/ require_drain(k)
    \/ ChangeTerm \/ Restart
    \/ \E j \in 1 .. MaxRegression : ClockRegresses(j)
    \/ \E b \in Advance : Tick(b)

LedgerSpec == LedgerInit /\ [][LedgerStep]_ledgerVars

----------------------------------------------------------------------------
\* Every variable has its type.
LedgerTypeOK ==
    /\ drains \in [Ids -> Witness \cup {None}]
    /\ waited \in [Ids -> (0 .. Horizon) \cup {None}]
    /\ term \in 1 .. MaxTerm
    /\ regressed \in 0 .. MaxRegression
    /\ released \subseteq Ids

\* A stop is reported drained only after the issuer's clock has really advanced
\* by the whole drain interval since it was committed: eviction, a leader
\* change, a restart or a backward jump can prolong the wait, never shorten it.
ReleasedAfterFullDrain ==
    \A k \in released : waited[k] # None /\ waited[k] >= drain_ms

\* No witness claims more than was really waited.
WitnessNeverAhead ==
    \A k \in Ids : drains[k] # None =>
        /\ waited[k] # None
        /\ drains[k].elapsed <= waited[k]

\* The map never outgrows its installed capacity.
WithinCapacity == Cardinality(Held(drains)) <= DrainCapacity
=============================================================================
