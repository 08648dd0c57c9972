----------------------------- MODULE DurableRoot -----------------------------
(***************************************************************************)
(* What the two root slots of a key-value group promise to the rest of the *)
(* store: one durable register.  `possible` is the set of roots a power    *)
(* loss at this moment could leave selected.  It has one member while no   *)
(* publication is under way, and two, the old root and its successor,      *)
(* while one is.  A value is settled before anybody is told about it.      *)
(* Damage of one copy at rest loses at most a root that nobody was told    *)
(* of; damage of the only copy ends the promise.                           *)
(***************************************************************************)
EXTENDS Naturals

CONSTANTS Empty,         \* the selection of a group without a root
          Follows(_, _)  \* Follows(p, n): n may be published after p

VARIABLES possible,  \* the selections a power loss could leave
          told,      \* the newest root a caller was told is durable
          damage,    \* how many copies were damaged
          exposed    \* one of them was the only one

vars == <<possible, told, damage, exposed>>

Init == possible = {Empty} /\ told = Empty /\ damage = 0 /\ ~exposed

\* A publication starts: from now on either root may be found.
Begin ==
    /\ \E p \in possible, n \in possible' :
          possible = {p} /\ Follows(p, n) /\ possible' = {p, n}
    /\ UNCHANGED <<told, damage, exposed>>

\* Synchronization or a power loss decides which of them is found.
Settle ==
    /\ possible' \subseteq possible /\ possible' # {}
    /\ UNCHANGED <<told, damage, exposed>>

\* A caller learns of a root: only of the settled one.
Tell ==
    /\ possible' = {told'} /\ told' \in possible
    /\ UNCHANGED <<damage, exposed>>

\* A copy is damaged: what was told is still found.
Damaged ==
    /\ damage' = damage + 1
    /\ \/ possible' = possible \/ possible' = {told} \/ exposed'
    /\ UNCHANGED told

Next == Damaged \/ (~exposed /\ (Begin \/ Settle \/ Tell)) \/ (exposed /\ exposed')

Spec == Init /\ [][Next]_vars
=============================================================================
