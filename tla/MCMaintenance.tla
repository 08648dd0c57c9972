---------------------------- MODULE MCMaintenance ----------------------------
(***************************************************************************)
(* Instances of Maintenance: the operations that operators ask for.        *)
(***************************************************************************)
EXTENDS Maintenance

CONSTANTS n1, n2, n3, n4

Voters == {n1, n2, n3}

EnrollFourth == [id |-> 1, kind |-> "EnrollLearner", node |-> n4]
ReplaceThird == [id |-> 2, kind |-> "ReplaceVoters", voters |-> {n1, n2, n4}]
RevokeThird == [id |-> 3, kind |-> "RevokeMember", node |-> n3]
Grow == [id |-> 4, kind |-> "SetCapacity", size |-> 2]
ReturnThird == [id |-> 5, kind |-> "ReplaceVoters", voters |-> {n1, n2, n3}]
RevokeFourth == [id |-> 6, kind |-> "RevokeMember", node |-> n4]

Replacement == {EnrollFourth, ReplaceThird, RevokeThird}
Growth == {EnrollFourth, Grow, RevokeFourth}
\* Of the run that shows that a replaced voter cannot be made one again.
Return == {EnrollFourth, ReplaceThird, ReturnThird}

Both == Replacement \cup Growth

\* The run keeps the states in which operators asked for one of the two, the
\* second with one election or one fault.
Asked == {op \in Ops : meta.drawn[op] # "no"}
Stories ==
    \/ Asked \subseteq Replacement
    \/ Asked \subseteq Growth /\ term + faults <= 2
=============================================================================
