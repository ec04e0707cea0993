------------------------------- MODULE MCCore -------------------------------
(* Small instances of Core: one service and one other schedule.            *)
EXTENDS Core

(***************************************************************************)
(* The types of the variables; and the tasks in _task_processes are never  *)
(* more than _max_running_tasks, though the limit is tested before and the *)
(* task is entered after the process was awaited.                          *)
(***************************************************************************)
TypeOK ==
    /\ rows \in [Schedules -> {"absent", "enabled", "disabled"}]
    /\ \A s \in DOMAIN executions : executions[s] \in ExecutionType
    /\ taskProcesses \subseteq TaskIds /\ Cardinality(taskProcesses) <= MaxRunning
    /\ cancelRequested \subseteq TaskIds
    /\ future \in [TaskIds -> Waits] /\ canceller \in [TaskIds -> Waits]
    /\ process \in [TaskIds -> {"running", "ended"}]
    /\ loop.pc \in {"starting", "inserting", "sleep", "sleepUntil", "yield", "dead", "ended"}
    /\ \A s \in DOMAIN registry : registry[s].status \in Statuses
    /\ restarted \subseteq Startup

\* In one behaviour services fail, or requests are made and the scheduler stops.
Calm == faults' = 0 \/ (stopPc' = "idle" /\ requests' = 0)
=============================================================================
