--------------------------- MODULE BackgroundWork ---------------------------
(***************************************************************************)
(* The custody of one background child (kasumi-serving/src/background_     *)
(* work.rs): a shared completion cell, the process-wide map that owns the  *)
(* child's exact join handle, and any number of callers that observe or    *)
(* drain the cell at the same time.  One step is what the code does under  *)
(* one acquisition of a lock; a caller may be preempted between any two,   *)
(* and a drain may be cancelled wherever it awaits.                        *)
(***************************************************************************)
CONSTANTS Callers, None

ASSUME CallersAssumption == None \notin Callers /\ None \notin {"ok", "failed", "retained"}

Phases == {"New", "Running", "CustodyLost", "Joined"}

VARIABLES
    phase, custody, report, reported,  \* State: custody is the id, report whether an issue is kept
    closed,
    entry,       \* the custody map holds this child's owner
    handle,      \* the owner still holds the join handle
    task_lock,   \* who holds the handle's lock
    child,       \* the task itself
    pc, answer   \* per caller: where it is, what its last call returned

cell  == <<phase, custody, report, reported, closed>>
owner == <<entry, handle, task_lock>>
vars  == <<cell, owner, child, pc, answer>>

Goto(c, from, to) == pc[c] = from /\ pc' = [pc EXCEPT ![c] = to]
Return(c, result) == answer' = [answer EXCEPT ![c] = result]

\* State::report.complete() and outcome(Some(retained)).
Verdict == IF report THEN "failed" ELSE "ok"

----------------------------------------------------------------------------
(* The child *)

start_child ==
    /\ phase = "New" /\ ~closed
    /\ phase' = "Running" /\ custody' = TRUE
    /\ entry' = TRUE /\ handle' = TRUE /\ child' = "running"
    /\ UNCHANGED <<report, reported, closed, task_lock, pc, answer>>

\* It returns, panics or is cancelled; `start_result` records its own error.
ChildEnds ==
    /\ child = "running"
    /\ \/ child' \in {"ok", "failed"} /\ UNCHANGED <<report, closed>>
       \/ child' = "ok" /\ report' = TRUE /\ closed' = TRUE
    /\ UNCHANGED <<phase, custody, reported, owner, pc, answer>>

close ==
    /\ ~closed /\ closed' = TRUE
    /\ UNCHANGED <<phase, custody, report, reported, owner, child, pc, answer>>

----------------------------------------------------------------------------
(* Joining *)

\* The handle returned Ready: one step under the cell's lock.
publish ==
    /\ child # "running" /\ handle
    /\ report' = (report \/ child = "failed")
    /\ closed' = (closed \/ child = "failed")
    /\ handle' = FALSE /\ phase' = "Joined"
    /\ custody' = report'
    /\ UNCHANGED <<reported, child>>

\* A joiner may have published before it removed the entry.
missing_custody(c, next) ==
    \/ /\ phase = "Joined"
       /\ Return(c, Verdict) /\ Goto(c, pc[c], next)
       /\ UNCHANGED cell
    \/ /\ phase # "Joined"
       /\ phase' = "CustodyLost" /\ report' = TRUE
       /\ Return(c, "retained") /\ Goto(c, pc[c], "idle")
       /\ UNCHANGED <<custody, reported, closed>>

\* The published child leaves the map when it has nothing to report.
RemoveJoined(c) ==
    /\ \/ Goto(c, "remove_observed", "snapshot")
       \/ Goto(c, "remove_drained", "report_terminal")
    /\ entry' = FALSE /\ task_lock' = None
    /\ UNCHANGED <<cell, handle, child, answer>>

----------------------------------------------------------------------------
(* observed *)

BeginObserve(c) ==
    /\ Goto(c, "idle", IF custody THEN "find_observed" ELSE "snapshot")
    /\ UNCHANGED <<cell, owner, child, answer>>

FindObserved(c) ==
    /\ pc[c] = "find_observed"
    /\ \/ entry /\ Goto(c, "find_observed", "try_join") /\ UNCHANGED <<cell, answer>>
       \/ ~entry /\ missing_custody(c, "idle")
    /\ UNCHANGED <<owner, child>>

try_join(c) ==
    /\ pc[c] = "try_join"
    /\ \/ /\ task_lock # None \/ ~handle \/ child = "running"
          /\ Goto(c, "try_join", "snapshot")
          /\ UNCHANGED <<cell, owner, child>>
       \/ /\ task_lock = None
          /\ publish
          /\ \/ report' /\ Goto(c, "try_join", "snapshot") /\ UNCHANGED task_lock
             \/ ~report' /\ Goto(c, "try_join", "remove_observed") /\ task_lock' = c
          /\ UNCHANGED entry
    /\ UNCHANGED answer

snapshot(c) ==
    /\ Goto(c, "snapshot", "idle")
    /\ \/ phase = "Joined" /\ Return(c, Verdict)
       \/ phase = "CustodyLost" /\ Return(c, "retained")
       \/ phase \in {"New", "Running"} /\ Return(c, None)
    /\ UNCHANGED <<cell, owner, child>>

----------------------------------------------------------------------------
(* drain *)

BeginDrain(c) ==
    /\ Goto(c, "idle", "read_phase") /\ closed' = TRUE
    /\ UNCHANGED <<phase, custody, report, reported, owner, child, answer>>

ReadPhase(c) ==
    /\ Goto(c, "read_phase",
            IF phase \in {"New", "Joined"} THEN "report_terminal" ELSE "find_drained")
    /\ UNCHANGED <<cell, owner, child, answer>>

FindDrained(c) ==
    /\ pc[c] = "find_drained"
    /\ \/ entry /\ Goto(c, "find_drained", "lock_task") /\ UNCHANGED <<cell, answer>>
       \/ ~entry /\ missing_custody(c, "report_terminal")
    /\ UNCHANGED <<owner, child>>

\* join: the handle if it is still there, or what its joiner published.
LockTask(c) ==
    /\ pc[c] = "lock_task" /\ task_lock = None
    /\ \/ /\ handle /\ task_lock' = c
          /\ Goto(c, "lock_task", "await_child")
          /\ UNCHANGED <<cell, answer>>
       \/ /\ ~handle /\ UNCHANGED task_lock
          /\ missing_custody(c, "report_terminal")
    /\ UNCHANGED <<entry, handle, child>>

\* Mutant: a joined child leaves the map whatever it has to report.
AwaitChild_Forgets(c) ==
    /\ pc[c] = "await_child"
    /\ publish
    /\ Goto(c, "await_child", "remove_drained")
    /\ UNCHANGED <<entry, task_lock, answer>>

AwaitChild(c) ==
    /\ pc[c] = "await_child"
    /\ publish
    /\ \/ report' /\ Goto(c, "await_child", "report_terminal") /\ task_lock' = None
       \/ ~report' /\ Goto(c, "await_child", "remove_drained") /\ UNCHANGED task_lock
    /\ UNCHANGED <<entry, answer>>

\* Mutants: the dropped future detaches the child, or keeps the lock.
CancelDrain_Detaches(c) ==
    /\ pc[c] \in {"lock_task", "await_child"}
    /\ Goto(c, pc[c], "idle")
    /\ task_lock' = (IF task_lock = c THEN None ELSE task_lock)
    /\ handle' = (handle /\ task_lock # c)
    /\ UNCHANGED <<cell, entry, child, answer>>
CancelDrain_KeepsLock(c) ==
    /\ pc[c] \in {"lock_task", "await_child"}
    /\ Goto(c, pc[c], "idle")
    /\ UNCHANGED <<cell, owner, child, answer>>

\* Dropping the future releases its guard and nothing else.
CancelDrain(c) ==
    /\ pc[c] \in {"lock_task", "await_child"}
    /\ Goto(c, pc[c], "idle")
    /\ task_lock' = IF task_lock = c THEN None ELSE task_lock
    /\ UNCHANGED <<cell, entry, handle, child, answer>>

report_terminal(c) ==
    /\ pc[c] = "report_terminal"
    /\ \/ /\ phase \in {"New", "Joined"}
          /\ phase' = "Joined" /\ reported' = TRUE /\ custody' = FALSE
          /\ Return(c, Verdict)
          /\ Goto(c, "report_terminal", IF custody THEN "remove_reported" ELSE "idle")
          /\ UNCHANGED report
       \/ /\ phase \notin {"New", "Joined"}
          /\ report' = TRUE /\ Return(c, "retained")
          /\ Goto(c, "report_terminal", "idle")
          /\ UNCHANGED <<phase, reported, custody>>
    /\ UNCHANGED <<closed, owner, child>>

RemoveReported(c) ==
    /\ Goto(c, "remove_reported", "idle")
    /\ entry' = FALSE
    /\ UNCHANGED <<cell, handle, task_lock, child, answer>>

----------------------------------------------------------------------------
Init ==
    /\ phase = "New" /\ custody = FALSE /\ report = FALSE /\ reported = FALSE /\ closed = FALSE
    /\ entry = FALSE /\ handle = FALSE /\ task_lock = None
    /\ child = "none"
    /\ pc = [c \in Callers |-> "idle"] /\ answer = [c \in Callers |-> None]

DrainStep(c) ==
    \/ ReadPhase(c) \/ FindDrained(c) \/ LockTask(c) \/ AwaitChild(c)
    \/ report_terminal(c) \/ RemoveJoined(c) \/ RemoveReported(c)

Next ==
    \/ start_child \/ ChildEnds \/ close
    \/ \E c \in Callers :
          \/ BeginObserve(c) \/ FindObserved(c) \/ try_join(c) \/ snapshot(c)
          \/ BeginDrain(c) \/ DrainStep(c) \/ CancelDrain(c)

Spec == Init /\ [][Next]_vars

\* The child ends, a runnable caller runs, and a contended lock is granted.
Fairness ==
    /\ WF_vars(ChildEnds)
    /\ \A c \in Callers :
          /\ WF_vars(DrainStep(c)) /\ SF_vars(LockTask(c))
          /\ WF_vars(FindObserved(c) \/ try_join(c) \/ snapshot(c))

LiveSpec == Spec /\ Fairness

----------------------------------------------------------------------------
\* Every variable has its type.
TypeOK ==
    /\ phase \in Phases
    /\ custody \in BOOLEAN /\ report \in BOOLEAN /\ reported \in BOOLEAN
    /\ closed \in BOOLEAN /\ entry \in BOOLEAN /\ handle \in BOOLEAN
    /\ task_lock \in Callers \cup {None}
    /\ child \in {"none", "running", "ok", "failed"}
    /\ pc \in [Callers -> {"idle", "find_observed", "try_join", "remove_observed", "snapshot",
                           "read_phase", "find_drained", "lock_task", "await_child",
                           "remove_drained", "report_terminal", "remove_reported"}]
    /\ answer \in [Callers -> {None, "ok", "failed", "retained"}]

\* Whatever observers and drains race, a caller that finds the entry or the
\* handle gone finds the joined outcome instead: custody is never lost, and no
\* call reports its child as retained.
CustodyNeverLost ==
    /\ phase # "CustodyLost"
    /\ \A c \in Callers : answer[c] # "retained"

\* A running child can always be found and joined: cancelling drains or
\* dropping observers never detaches it.
RunningChildOwned == child = "running" => entry /\ handle /\ custody

\* No race of observers, drains and cancellations separates a child from the
\* means to join it.
CustodyKept == CustodyNeverLost /\ RunningChildOwned

\* A child that failed, and was joined, stays in the recovery inventory until
\* some drain has returned its failure.
FailureHeldUntilReported ==
    phase = "Joined" /\ child = "failed" => report /\ (reported \/ entry)

\* Nobody is told that the child succeeded when it failed, nor that it has
\* ended while it runs.
AnswersTrue ==
    \A c \in Callers :
        /\ answer[c] = "ok" => child # "running"
        /\ child = "failed" => answer[c] # "ok"

\* The outcome of a child reaches whoever asks as it was, and a failure at least
\* one drain.
OutcomesReported == FailureHeldUntilReported /\ AnswersTrue

\* A drain that is not cancelled returns, although other drains hold the
\* handle's lock across their own waits and are themselves cancelled.
DrainReturns ==
    \A c \in Callers :
        pc[c] = "read_phase" ~> pc[c] = "idle"
=============================================================================
