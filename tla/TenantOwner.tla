---------------------------- MODULE TenantOwner ----------------------------
(***************************************************************************)
(* What the independent serving authority promises of a tenant's           *)
(* incarnations, without leases, clocks, receipts or leaders: each tenant  *)
(* has one owner, only the owner serves, an owner is replaced only once    *)
(* nobody serves, and a replaced owner never returns.                      *)
(***************************************************************************)
CONSTANTS Tenants, Incarnations, None

VARIABLES owner, retired, serving

vars == <<owner, retired, serving>>

Init ==
    /\ owner = [t \in Tenants |-> None]
    /\ retired = [t \in Tenants |-> {}]
    /\ serving = [t \in Tenants |-> {}]

Serve(t) ==
    /\ owner[t] # None
    /\ serving' = [serving EXCEPT ![t] = {owner[t]}]
    /\ UNCHANGED <<owner, retired>>

\* Expiry, closure or crash ends service, for several tenants at once.
Cease ==
    /\ serving' \in [Tenants -> SUBSET Incarnations]
    /\ \A t \in Tenants : serving'[t] \subseteq serving[t]
    /\ UNCHANGED <<owner, retired>>

Replace(t, i) ==
    /\ serving[t] = {}
    /\ i # owner[t] /\ i \notin retired[t]
    /\ owner' = [owner EXCEPT ![t] = i]
    /\ retired' = [retired EXCEPT ![t] = @ \cup ({owner[t]} \ {None})]
    /\ UNCHANGED serving

Next ==
    \/ \E t \in Tenants : Serve(t)
    \/ Cease
    \/ \E t \in Tenants, i \in Incarnations : Replace(t, i)

Spec == Init /\ [][Next]_vars
=============================================================================
