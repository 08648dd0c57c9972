------------------------ MODULE BackgroundWorkProofs ------------------------
(***************************************************************************)
(* Custody of a background child, for any number of racing callers.        *)
(***************************************************************************)
EXTENDS BackgroundWork, TLAPS

\* What each phase says of the child, its handle and its map entry.
PhaseInv ==
    /\ phase # "CustodyLost"
    /\ phase = "New" => child = "none" /\ ~custody /\ ~report /\ ~handle
    /\ phase = "Running" => child # "none" /\ entry /\ handle /\ custody
    /\ phase \in {"New", "Running"} => ~reported
    /\ phase = "Joined" => ~handle /\ child # "running"
    /\ child = "running" => phase = "Running"
    /\ phase = "Joined" /\ child = "failed" => report
    /\ phase = "Joined" /\ custody => entry /\ report /\ ~reported
    /\ phase = "Joined" /\ report /\ ~reported => entry /\ custody

\* What a caller in the middle of a call knows.
CallerInv(c) ==
    /\ pc[c] \in {"read_phase", "report_terminal"} => closed
    /\ pc[c] = "report_terminal" => phase \in {"New", "Joined"}
    /\ pc[c] \in {"find_observed", "try_join", "find_drained", "lock_task", "await_child"} =>
          phase \in {"Running", "Joined"}
    /\ pc[c] = "await_child" => handle /\ task_lock = c /\ closed
    /\ pc[c] \in {"lock_task", "find_drained"} => closed
    /\ pc[c] \in {"remove_observed", "remove_drained"} =>
          phase = "Joined" /\ ~report /\ task_lock = c
    /\ pc[c] = "remove_drained" => closed
    /\ pc[c] = "remove_reported" => phase = "Joined" /\ reported
    /\ task_lock = c => pc[c] \in {"await_child", "remove_observed", "remove_drained"}
    /\ answer[c] # "retained"
    /\ answer[c] = "ok" => phase = "Joined" /\ child # "failed"

CustodyInv == TypeOK /\ PhaseInv /\ \A c \in Callers : CallerInv(c)

\* A new cell satisfies the custody invariant.
LEMMA InitCustody == Init => CustodyInv
  BY CallersAssumption DEF Init, CustodyInv, TypeOK, PhaseInv, CallerInv, Phases

\* Types survive every step.
LEMMA TypeStep == CustodyInv /\ [Next]_vars => TypeOK'
<1> SUFFICES ASSUME CustodyInv, [Next]_vars PROVE TypeOK'
  OBVIOUS
<1> USE CallersAssumption DEF CustodyInv, TypeOK, Phases, Goto, Return, Verdict, cell, owner
<1>1. CASE start_child BY <1>1 DEF start_child
<1>2. CASE ChildEnds BY <1>2 DEF ChildEnds
<1>3. CASE close BY <1>3 DEF close
<1>4. ASSUME NEW c \in Callers, BeginObserve(c) PROVE TypeOK' BY <1>4 DEF BeginObserve
<1>5. ASSUME NEW c \in Callers, FindObserved(c) PROVE TypeOK'
  BY <1>5 DEF FindObserved, missing_custody
<1>6. ASSUME NEW c \in Callers, try_join(c) PROVE TypeOK' BY <1>6 DEF try_join, publish
<1>7. ASSUME NEW c \in Callers, snapshot(c) PROVE TypeOK' BY <1>7 DEF snapshot
<1>8. ASSUME NEW c \in Callers, BeginDrain(c) PROVE TypeOK' BY <1>8 DEF BeginDrain
<1>9. ASSUME NEW c \in Callers, ReadPhase(c) PROVE TypeOK' BY <1>9 DEF ReadPhase
<1>10. ASSUME NEW c \in Callers, FindDrained(c) PROVE TypeOK'
  BY <1>10 DEF FindDrained, missing_custody
<1>11. ASSUME NEW c \in Callers, LockTask(c) PROVE TypeOK'
  BY <1>11 DEF LockTask, missing_custody
<1>12. ASSUME NEW c \in Callers, AwaitChild(c) PROVE TypeOK' BY <1>12 DEF AwaitChild, publish
<1>13. ASSUME NEW c \in Callers, report_terminal(c) PROVE TypeOK' BY <1>13 DEF report_terminal
<1>14. ASSUME NEW c \in Callers, RemoveJoined(c) PROVE TypeOK' BY <1>14 DEF RemoveJoined
<1>15. ASSUME NEW c \in Callers, RemoveReported(c) PROVE TypeOK' BY <1>15 DEF RemoveReported
<1>16. ASSUME NEW c \in Callers, CancelDrain(c) PROVE TypeOK' BY <1>16 DEF CancelDrain
<1>17. CASE UNCHANGED vars BY <1>17 DEF vars
<1> QED
  BY <1>1, <1>2, <1>3, <1>4, <1>5, <1>6, <1>7, <1>8, <1>9, <1>10, <1>11, <1>12, <1>13,
     <1>14, <1>15, <1>16, <1>17 DEF Next, DrainStep

\* The phase keeps telling the truth about the child, its handle and its entry.
LEMMA PhaseStep == CustodyInv /\ [Next]_vars => PhaseInv'
<1> SUFFICES ASSUME CustodyInv, [Next]_vars PROVE PhaseInv'
  OBVIOUS
<1> USE CallersAssumption DEF CustodyInv, TypeOK, Phases, PhaseInv, CallerInv, Goto, Return,
       Verdict, cell, owner
<1>1. CASE start_child BY <1>1 DEF start_child
<1>2. CASE ChildEnds BY <1>2 DEF ChildEnds
<1>3. CASE close BY <1>3 DEF close
<1>4. ASSUME NEW c \in Callers, BeginObserve(c) PROVE PhaseInv'
  BY <1>4 DEF BeginObserve
<1>5. ASSUME NEW c \in Callers, FindObserved(c) PROVE PhaseInv'
  BY <1>5 DEF FindObserved, missing_custody
<1>6. ASSUME NEW c \in Callers, try_join(c) PROVE PhaseInv'
  BY <1>6 DEF try_join, publish
<1>7. ASSUME NEW c \in Callers, snapshot(c) PROVE PhaseInv'
  BY <1>7 DEF snapshot
<1>8. ASSUME NEW c \in Callers, BeginDrain(c) PROVE PhaseInv'
  BY <1>8 DEF BeginDrain
<1>9. ASSUME NEW c \in Callers, ReadPhase(c) PROVE PhaseInv'
  BY <1>9 DEF ReadPhase
<1>10. ASSUME NEW c \in Callers, FindDrained(c) PROVE PhaseInv'
  BY <1>10 DEF FindDrained, missing_custody
<1>11. ASSUME NEW c \in Callers, LockTask(c) PROVE PhaseInv'
  BY <1>11 DEF LockTask, missing_custody
<1>12. ASSUME NEW c \in Callers, AwaitChild(c) PROVE PhaseInv'
  BY <1>12 DEF AwaitChild, publish
<1>13. ASSUME NEW c \in Callers, report_terminal(c) PROVE PhaseInv'
  BY <1>13 DEF report_terminal
<1>14. ASSUME NEW c \in Callers, RemoveJoined(c) PROVE PhaseInv'
  BY <1>14 DEF RemoveJoined
<1>15. ASSUME NEW c \in Callers, RemoveReported(c) PROVE PhaseInv'
  BY <1>15 DEF RemoveReported
<1>16. ASSUME NEW c \in Callers, CancelDrain(c) PROVE PhaseInv'
  BY <1>16 DEF CancelDrain
<1>17. CASE UNCHANGED vars BY <1>17 DEF vars
<1> QED
  BY <1>1, <1>2, <1>3, <1>4, <1>5, <1>6, <1>7, <1>8, <1>9, <1>10,
     <1>11, <1>12, <1>13, <1>14, <1>15, <1>16, <1>17 DEF Next, DrainStep

\* What every caller knows survives a step of any other.
LEMMA CallerStep == CustodyInv /\ [Next]_vars => (\A d \in Callers : CallerInv(d)')
<1> SUFFICES ASSUME CustodyInv, [Next]_vars PROVE (\A d \in Callers : CallerInv(d)')
  OBVIOUS
<1> USE CallersAssumption DEF CustodyInv, TypeOK, Phases, PhaseInv, CallerInv, Goto, Return,
       Verdict, cell, owner
<1>1. CASE start_child BY <1>1 DEF start_child
<1>2. CASE ChildEnds BY <1>2 DEF ChildEnds
<1>3. CASE close BY <1>3 DEF close
<1>4. ASSUME NEW c \in Callers, BeginObserve(c) PROVE (\A d \in Callers : CallerInv(d)')
  BY <1>4 DEF BeginObserve
<1>5. ASSUME NEW c \in Callers, FindObserved(c) PROVE (\A d \in Callers : CallerInv(d)')
  BY <1>5 DEF FindObserved, missing_custody
<1>6. ASSUME NEW c \in Callers, try_join(c) PROVE (\A d \in Callers : CallerInv(d)')
  BY <1>6 DEF try_join, publish
<1>7. ASSUME NEW c \in Callers, snapshot(c) PROVE (\A d \in Callers : CallerInv(d)')
  BY <1>7 DEF snapshot
<1>8. ASSUME NEW c \in Callers, BeginDrain(c) PROVE (\A d \in Callers : CallerInv(d)')
  BY <1>8 DEF BeginDrain
<1>9. ASSUME NEW c \in Callers, ReadPhase(c) PROVE (\A d \in Callers : CallerInv(d)')
  BY <1>9 DEF ReadPhase
<1>10. ASSUME NEW c \in Callers, FindDrained(c) PROVE (\A d \in Callers : CallerInv(d)')
  BY <1>10 DEF FindDrained, missing_custody
<1>11. ASSUME NEW c \in Callers, LockTask(c) PROVE (\A d \in Callers : CallerInv(d)')
  BY <1>11 DEF LockTask, missing_custody
<1>12. ASSUME NEW c \in Callers, AwaitChild(c) PROVE (\A d \in Callers : CallerInv(d)')
  BY <1>12 DEF AwaitChild, publish
<1>13. ASSUME NEW c \in Callers, report_terminal(c) PROVE (\A d \in Callers : CallerInv(d)')
  BY <1>13 DEF report_terminal
<1>14. ASSUME NEW c \in Callers, RemoveJoined(c) PROVE (\A d \in Callers : CallerInv(d)')
  BY <1>14 DEF RemoveJoined
<1>15. ASSUME NEW c \in Callers, RemoveReported(c) PROVE (\A d \in Callers : CallerInv(d)')
  BY <1>15 DEF RemoveReported
<1>16. ASSUME NEW c \in Callers, CancelDrain(c) PROVE (\A d \in Callers : CallerInv(d)')
  BY <1>16 DEF CancelDrain
<1>17. CASE UNCHANGED vars BY <1>17 DEF vars
<1> QED
  BY <1>1, <1>2, <1>3, <1>4, <1>5, <1>6, <1>7, <1>8, <1>9, <1>10,
     <1>11, <1>12, <1>13, <1>14, <1>15, <1>16, <1>17 DEF Next, DrainStep

\* The custody invariant holds in every reachable state.
LEMMA CustodyInvariant == Spec => []CustodyInv
<1>1. CustodyInv /\ [Next]_vars => CustodyInv'
  BY TypeStep, PhaseStep, CallerStep DEF CustodyInv
<1> QED BY InitCustody, <1>1, PTL DEF Spec

\* However observers, drains and cancellations race, a caller that finds the
\* entry or the handle gone finds the joined outcome: the `Lost` arm of
\* missing_custody is never taken and no call reports a retained child.
THEOREM CustodyIsNeverLost == Spec => []CustodyNeverLost
<1>1. CustodyInv => CustodyNeverLost
  BY DEF CustodyInv, PhaseInv, CallerInv, CustodyNeverLost
<1> QED BY CustodyInvariant, <1>1, PTL

\* A running child always has its map entry, its join handle and its custody
\* id: no cancelled drain detaches it.
THEOREM RunningChildIsOwned == Spec => []RunningChildOwned
<1>1. CustodyInv => RunningChildOwned
  BY DEF CustodyInv, PhaseInv, RunningChildOwned
<1> QED BY CustodyInvariant, <1>1, PTL

\* A joined failure stays in the cell, and in the recovery inventory until a
\* drain has returned it.
THEOREM FailureIsHeldUntilReported == Spec => []FailureHeldUntilReported
<1>1. CustodyInv => FailureHeldUntilReported
  BY DEF CustodyInv, TypeOK, PhaseInv, FailureHeldUntilReported
<1> QED BY CustodyInvariant, <1>1, PTL

\* Nobody is told that a failed child succeeded, or that a running one ended.
THEOREM AnswersAreTrue == Spec => []AnswersTrue
<1>1. CustodyInv => AnswersTrue
  BY DEF CustodyInv, PhaseInv, CallerInv, AnswersTrue
<1> QED BY CustodyInvariant, <1>1, PTL

\* Custody of a child is kept, for any number of callers: the child's entry and
\* handle are there while it runs, and its joined outcome afterwards.
THEOREM CustodyIsKept == Spec => []CustodyKept
<1>1. CustodyNeverLost /\ RunningChildOwned => CustodyKept
  BY DEF CustodyKept
<1> QED BY CustodyIsNeverLost, RunningChildIsOwned, <1>1, PTL

\* What happened to the child is what its callers are told, and a failure waits
\* for a drain that takes it.
THEOREM OutcomesAreReported == Spec => []OutcomesReported
<1>1. FailureHeldUntilReported /\ AnswersTrue => OutcomesReported
  BY DEF OutcomesReported
<1> QED BY FailureIsHeldUntilReported, AnswersAreTrue, <1>1, PTL
=============================================================================
