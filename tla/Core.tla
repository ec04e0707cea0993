-------------------------------- MODULE Core --------------------------------
(* The core service's view of the microservices: the service registry      *)
(* (service_registry.py), the monitor that pings the services and restarts *)
(* the failed ones (monitor.py), the scheduler whose STARTUP schedules     *)
(* they are, and the services themselves, which register, hang, recover,   *)
(* crash, leave and ask to be restarted.                                   *)
EXTENDS Scheduler, Sequences

CONSTANTS
    MaxAttempts,    \* max_attempts: failed pings before a service has failed
    MaxFaults       \* bound: the hangs and crashes of services

ASSUME CoreAssumption == MaxAttempts \in Nat \ {0} /\ MaxFaults \in Nat

VARIABLES
    service,        \* what the process of a task does, as a service
    token,          \* _startupTokens: the task a service's token was issued to
    registry,       \* _registry: the record of a service, and the task that made it
    checkCount,     \* check_count of _monitor_loop(); 0 before the first visit
    monitor,        \* where the monitor is, and the record it holds
    restarted,      \* restarted_services
    deferred,       \* the coroutines given to ensure_future(), in their order
    faults,         \* the hangs and crashes so far
    intent,         \* what a service was last told: to run, or not to
    replaced        \* tasks whose record was given up while their service ran

serviceVars == <<service, faults>>
registryVars == <<token, registry, deferred>>
monitorVars == <<checkCount, monitor, restarted>>
coreVars == <<serviceVars, registryVars, monitorVars, intent, replaced>>
allVars == <<vars, coreVars>>

Statuses == {"Running", "Unresponsive", "Failed", "Shutdown", "Restart"}
Registered(s) == s \in DOMAIN registry
AtRest == [pc |-> "idle", service |-> None, owner |-> NoTask]

CoreInit ==
    /\ Init
    /\ service = [t \in TaskIds |-> None]
    /\ token = [s \in Startup |-> NoTask]
    /\ registry = <<>>
    /\ checkCount = [s \in Startup |-> 0]
    /\ monitor = AtRest /\ restarted = {} /\ deferred = <<>>
    /\ faults = 0 /\ intent = [s \in Startup |-> "run"] /\ replaced = {}

----------------------------------------------------------------------------
(* The services                                                            *)

\* _start_task() issues a startup token, which replaces an unused one; while
\* the process is being created no other process has a valid token.
startTask(t) ==
    /\ createProcess(t)
    /\ IF loop.schedule \in Startup
       THEN /\ service' = [service EXCEPT ![t] = "starting"]
            /\ token' = [token EXCEPT ![loop.schedule] = t]
            /\ replaced' = replaced \ {t}
       ELSE UNCHANGED <<service, token, replaced>>
    /\ UNCHANGED <<faults, registry, deferred, monitorVars, intent>>

TokenValid(s, t) == token[s] = t /\ ~(loop.pc = "starting" /\ loop.schedule = s)

NameFree(s) == ~Registered(s) \/ registry[s].status \notin {"Running", "Unresponsive"}

\* Mutant: the old record stays, and is the first that a search by name finds.
NewRecord_Second(s, t) ==
    IF Registered(s) THEN registry ELSE Put(registry, s, [status |-> "Running", owner |-> t])

NewRecord(s, t) == Put(registry, s, [status |-> "Running", owner |-> t])

\* ServiceRegistry.register(): a record in use refuses the name, an other one
\* is replaced, under the same id.  A refused service ends.
register(t) ==
    LET s == scheduleOf[t]
    IN
    /\ service[t] = "starting"
    /\ IF TokenValid(s, t) /\ NameFree(s)
       THEN /\ registry' = NewRecord(s, t)
            /\ token' = [token EXCEPT ![s] = NoTask]
            /\ service' = [service EXCEPT ![t] = "up"]
       ELSE service' = [service EXCEPT ![t] = "left"] /\ UNCHANGED <<registry, token>>
    /\ UNCHANGED <<vars, faults, deferred, monitorVars, intent, replaced>>

\* _expunge(): the current record of the service's id gets the status, and its
\* entries in the scheduler are to be removed.
Expunge(s, status) ==
    /\ registry' = [registry EXCEPT ![s].status = status]
    /\ deferred' = Append(deferred, <<"remove", s>>)

\* A service is told to shut down or to restart, or it decides to.
tell(t) ==
    /\ service[t] = "up" /\ Asked
    /\ service' = [service EXCEPT ![t] = "leaving"]
    /\ UNCHANGED <<rows, executions, taskVars, loop, pending, stateVars, admin, faults,
                   registryVars, monitorVars, intent, replaced>>

\* It then unregisters, or asks for its restart, with the id it was given when
\* it registered.  intent: "raced" when the monitor is busy with the service.
leave(t, status) ==
    LET s == scheduleOf[t]
        raced == \/ monitor.service = s /\ monitor.pc \in {"ping", "answered"}
                 \/ s \in restarted \/ t \in replaced
    IN
    /\ service[t] = "leaving"
    /\ service' = [service EXCEPT ![t] = "left"]
    /\ Expunge(s, status)
    /\ intent' = [intent EXCEPT ![s] = IF status = "Restart" THEN "run"
                                       ELSE IF raced THEN "raced" ELSE "stop"]
    /\ replaced' = replaced \cup ({registry[s].owner} \ {t})
    /\ UNCHANGED <<vars, faults, token, monitorVars>>

\* A service stops answering, answers again, or its process ends: with a crash,
\* or after it left.
hang(t) ==
    /\ service[t] = "up" /\ faults < MaxFaults /\ faults' = faults + 1
    /\ service' = [service EXCEPT ![t] = "hung"]
    /\ UNCHANGED <<vars, registryVars, monitorVars, intent, replaced>>

recover(t) ==
    /\ service[t] = "hung"
    /\ service' = [service EXCEPT ![t] = "up"]
    /\ UNCHANGED <<vars, faults, registryVars, monitorVars, intent, replaced>>

crash(t) ==
    /\ service[t] \in {"starting", "up", "hung"} /\ faults < MaxFaults /\ faults' = faults + 1
    /\ processEnds(t)
    /\ service' = [service EXCEPT ![t] = None]
    /\ UNCHANGED <<registryVars, monitorVars, intent, replaced>>

exit(t) ==
    /\ service[t] \in {None, "left"} /\ processEnds(t)
    /\ service' = [service EXCEPT ![t] = None]
    /\ UNCHANGED <<faults, registryVars, monitorVars, intent, replaced>>

----------------------------------------------------------------------------
(* The monitor.  It sleeps for seconds between two rounds, so the          *)
(* coroutines that were deferred, and the scheduler's loop if it was       *)
(* awakened, have run before the next.  The order of the records in a      *)
(* round is left open.                                                     *)

NewRound == monitor.pc = "idle" /\ deferred = <<>> /\ loop.pc # "yield"

Counted(s) == [checkCount EXCEPT ![s] = IF @ = 0 THEN 1 ELSE @]

\* A failed service, or one that asked for it, is restarted once at a time.
visitRestart(s) ==
    /\ NewRound /\ Registered(s) /\ s \notin restarted
    /\ registry[s].status \in {"Failed", "Restart"}
    /\ checkCount' = Counted(s)
    /\ restarted' = restarted \cup {s}
    /\ deferred' = Append(deferred, <<"restart", s>>)
    /\ UNCHANGED <<vars, serviceVars, token, registry, monitor, intent, replaced>>

\* Mutant: a service that has shut down is pinged too.
visitPing_Shutdown(s) ==
    /\ NewRound /\ Registered(s)
    /\ registry[s].status \in {"Running", "Unresponsive", "Shutdown"}
    /\ checkCount' = Counted(s)
    /\ monitor' = [pc |-> "ping", service |-> s, owner |-> registry[s].owner]
    /\ UNCHANGED <<vars, serviceVars, registryVars, restarted, intent, replaced>>

visitPing(s) ==
    /\ NewRound /\ Registered(s)
    /\ registry[s].status \in {"Running", "Unresponsive"}
    /\ checkCount' = Counted(s)
    /\ monitor' = [pc |-> "ping", service |-> s, owner |-> registry[s].owner]
    /\ UNCHANGED <<vars, serviceVars, registryVars, restarted, intent, replaced>>

\* The service answers the ping.
answerPing ==
    /\ monitor.pc = "ping" /\ service[monitor.owner] \in {"up", "leaving"}
    /\ monitor' = [monitor EXCEPT !.pc = "answered"]
    /\ UNCHANGED <<vars, serviceVars, registryVars, checkCount, restarted, intent, replaced>>

\* The status of the record the monitor holds, if that is still in the registry.
MonitorSets(s, status) ==
    IF registry[s].owner = monitor.owner THEN [registry EXCEPT ![s].status = status] ELSE registry

\* The ping times out or is refused; after too many the service has failed.
pingFails ==
    LET s == monitor.service
        failed == checkCount[s] + 1 > MaxAttempts
        owner == registry[s].owner
    IN
    /\ monitor.pc = "ping" /\ service[monitor.owner] \notin {"up", "leaving"}
    /\ monitor' = AtRest
    /\ IF failed
       THEN /\ Expunge(s, "Failed")
            /\ replaced' = IF Running(owner) THEN replaced \cup {owner} ELSE replaced
            /\ checkCount' = [checkCount EXCEPT ![s] = 0]
       ELSE /\ registry' = MonitorSets(s, "Unresponsive")
            /\ checkCount' = [checkCount EXCEPT ![s] = @ + 1]
            /\ UNCHANGED <<deferred, replaced>>
    /\ UNCHANGED <<vars, serviceVars, token, restarted, intent>>

\* The answer arrives; the pending notifications of access control are awaited.
pingSucceeds ==
    /\ monitor.pc = "answered"
    /\ registry' = MonitorSets(monitor.service, "Running")
    /\ monitor' = [monitor EXCEPT !.pc = "acl"]
    /\ UNCHANGED <<vars, serviceVars, token, deferred, checkCount, restarted, intent, replaced>>

aclResolved ==
    /\ monitor.pc = "acl"
    /\ checkCount' = [checkCount EXCEPT ![monitor.service] = 1]
    /\ monitor' = AtRest
    /\ UNCHANGED <<vars, serviceVars, registryVars, restarted, intent, replaced>>

----------------------------------------------------------------------------
(* What ensure_future() runs, first in first out.                          *)

\* Mutant: the execution of the service is kept.
removeService_KeepExecution ==
    LET s == Head(deferred)[2]
        mine == {t \in taskProcesses : scheduleOf[t] = s}
    IN
    /\ deferred # <<>> /\ Head(deferred)[1] = "remove"
    /\ deferred' = Tail(deferred)
    /\ taskProcesses' = taskProcesses \ mine
    /\ UNCHANGED <<executions, loop, replaced, rows, scheduleOf, process, cancelRequested,
                   future, canceller, pending, stateVars, admin, requests, serviceVars, token,
                   registry, monitorVars, intent>>

\* remove_service_from_task_processes(): the first task of that name.
removeService ==
    LET s == Head(deferred)[2]
        mine == {t \in taskProcesses : scheduleOf[t] = s}
    IN
    /\ deferred # <<>> /\ Head(deferred)[1] = "remove"
    /\ deferred' = Tail(deferred)
    /\ IF ready /\ mine # {} /\ HasExecution(s)
       THEN /\ \E t \in mine : taskProcesses' = taskProcesses \ {t}
            /\ replaced' = replaced \cup {t \in mine : Running(t)}
            /\ executions' = Delete(executions, s)
            /\ loop' = [loop EXCEPT !.mine = @ /\ loop.schedule # s]
       ELSE UNCHANGED <<taskProcesses, executions, loop, replaced>>
    /\ UNCHANGED <<rows, scheduleOf, process, cancelRequested, future, canceller, pending,
                   stateVars, admin, requests, serviceVars, token, registry, monitorVars,
                   intent>>

\* restart_service(): an exception of the scheduler leaves the service in
\* restarted_services.
restartService ==
    LET s == Head(deferred)[2]
    IN
    /\ deferred # <<>> /\ Head(deferred)[1] = "restart"
    /\ deferred' = Tail(deferred)
    /\ \/ queueTask(s) /\ UNCHANGED requests /\ restarted' = restarted \ {s}
       \/ Accepts /\ rows[s] = "disabled" /\ restarted' = restarted \ {s} /\ UNCHANGED vars
       \/ (~Accepts \/ rows[s] = "absent") /\ UNCHANGED <<vars, restarted>>
    /\ UNCHANGED <<serviceVars, token, registry, checkCount, monitor, intent, replaced>>

----------------------------------------------------------------------------
\* disable_schedule() of a service: one that answers is told to shut down, one
\* the registry does not know is taken out of its execution.
disableService(s) ==
    LET mine == {t \in taskProcesses : scheduleOf[t] = s}
        owner == registry[s].owner
    IN
    /\ ready /\ <<"disable", s>> \in admin
    /\ admin' = admin \ {<<"disable", s>>}
    /\ IF mine # {} /\ ~Registered(s) /\ HasExecution(s)
       THEN \E t \in mine : /\ executions' = [executions EXCEPT ![s].tasks = @ \ {t}]
                            /\ replaced' = replaced \cup {t}
       ELSE UNCHANGED <<executions, replaced>>
    /\ IF mine # {} /\ Registered(s) /\ service[owner] = "up"
       THEN service' = [service EXCEPT ![owner] = "leaving"]
       ELSE UNCHANGED service
    /\ UNCHANGED <<rows, taskVars, loop, pending, stateVars, requests, faults, registryVars,
                   monitorVars, intent>>

\* The scheduler's loop runs after the coroutines that were there before it.
wake == loopWakes /\ deferred = <<>> /\ UNCHANGED coreVars

\* The steps of the scheduler that do not touch the services.
Rest == UNCHANGED <<serviceVars, registryVars, monitorVars, replaced>>
Told(s) == intent' = IF s \in Startup THEN [intent EXCEPT ![s] = "run"] ELSE intent

Next ==
    \/ wake
    \/ createFails /\ UNCHANGED coreVars
    \/ insertRow /\ UNCHANGED coreVars
    \/ stopBegins /\ UNCHANGED coreVars
    \/ stopTasks /\ UNCHANGED coreVars
    \/ stopEnds /\ UNCHANGED coreVars
    \/ \E s \in Schedules :
         \/ timePasses(s) /\ UNCHANGED coreVars
         \/ requestTask(s) /\ Told(s) /\ Rest
         \/ enableBegins(s) /\ Told(s) /\ Rest
         \/ enableEnds(s) /\ Told(s) /\ Rest
         \/ disableBegins(s) /\ UNCHANGED coreVars
         \/ disableEnds(s) /\ UNCHANGED coreVars
         \/ saveBegins(s) /\ UNCHANGED coreVars
         \/ saveEnds(s) /\ UNCHANGED coreVars
         \/ deleteSchedule(s) /\ UNCHANGED coreVars
    \/ \E r \in admin : requestFails(r) /\ UNCHANGED coreVars
    \/ \E t \in TaskIds :
         \/ futureWaits(t) /\ UNCHANGED coreVars
         \/ futureUpdates(t) /\ UNCHANGED coreVars
         \/ cancelWaits(t) /\ UNCHANGED coreVars
         \/ cancelUpdates(t) /\ UNCHANGED coreVars
         \/ cancelTask(t) /\ UNCHANGED coreVars
         \/ startTask(t) \/ register(t) \/ tell(t) \/ hang(t) \/ recover(t) \/ crash(t) \/ exit(t)
         \/ \E status \in {"Shutdown", "Restart"} : leave(t, status)
    \/ \E s \in Startup : visitRestart(s) \/ visitPing(s) \/ disableService(s)
    \/ answerPing \/ pingFails \/ pingSucceeds \/ aclResolved
    \/ removeService \/ restartService

Spec == CoreInit /\ [][Next]_allVars

(***************************************************************************)
(* Fairness: the event loop runs every coroutine that is ready, the        *)
(* storage service answers, processes that were told to end, and tasks,    *)
(* come to their end, and a service that starts registers.  Hangs,         *)
(* crashes, requests and the passing of time are not forced.               *)
(***************************************************************************)
LoopStep == wake \/ (insertRow /\ UNCHANGED coreVars) \/ \E t \in TaskIds : startTask(t)

WaitStep(t) ==
    \/ futureWaits(t) /\ UNCHANGED coreVars
    \/ futureUpdates(t) /\ UNCHANGED coreVars
    \/ cancelWaits(t) /\ UNCHANGED coreVars
    \/ cancelUpdates(t) /\ UNCHANGED coreVars

MonitorStep ==
    \/ \E s \in Startup : visitRestart(s) \/ visitPing(s)
    \/ answerPing \/ pingFails \/ pingSucceeds \/ aclResolved

Fairness ==
    /\ WF_allVars(LoopStep)
    /\ SF_allVars(MonitorStep)
    /\ WF_allVars(removeService \/ restartService)
    /\ \A t \in TaskIds : WF_allVars(WaitStep(t)) /\ WF_allVars(exit(t)) /\ WF_allVars(register(t))
    /\ WF_allVars((stopTasks \/ stopEnds) /\ UNCHANGED coreVars)

FairSpec == Spec /\ Fairness

----------------------------------------------------------------------------
\* The scheduler stops, or an exception ended its loop.
Halted == ~ready \/ paused \/ loop.pc = "dead"

Alive(t, s) == Running(t) /\ scheduleOf[t] = s /\ service[t] # "left"

(***************************************************************************)
(* An exclusive schedule has one process at a time (the test of            *)
(* task_processes in _check_schedules()).  A service has a second one only *)
(* when the core gave up the record of the first while it ran: declared    *)
(* failed, unregistered by its predecessor, or removed as an orphan.       *)
(***************************************************************************)
OneInstance ==
    \A t, u \in TaskIds, s \in Exclusive :
        t # u /\ Alive(t, s) /\ Alive(u, s) => replaced \cap {t, u} # {}


(***************************************************************************)
(* A service that unregistered stays down until it is asked for again: the *)
(* monitor restarts only what failed or asked for it.  The exception is a  *)
(* service that the monitor was pinging or restarting when it left; its    *)
(* status is overwritten by the outcome of that ping.                      *)
(***************************************************************************)
NoUnwantedStart ==
    [][\A t \in TaskIds : \A s \in Startup :
         (~Running(t) /\ Running(t)' /\ scheduleOf'[t] = s) => intent[s] # "stop"]_allVars

(***************************************************************************)
(* A service that is up, and whose record was not given up, is the one in  *)
(* the registry: neither the answer of a late ping nor another process of  *)
(* the same name takes its place.                                          *)
(***************************************************************************)
RegisteredWhileUp ==
    \A t \in TaskIds \ replaced : service[t] = "up" =>
        /\ Registered(scheduleOf[t]) /\ registry[scheduleOf[t]].owner = t
        /\ registry[scheduleOf[t]].status \in {"Running", "Unresponsive"}

IsQueued(s) == HasExecution(s) /\ executions[s].startNow


AwaitsRestart(s) == Registered(s) /\ registry[s].status \in {"Failed", "Restart"}

\* A process of the service ended and the scheduler was not told: there is no
\* completion handler for a STARTUP task, and it had not registered.
Stillborn(s) == \E t \in taskProcesses : scheduleOf[t] = s /\ ~Running(t)

(***************************************************************************)
(* A failed service, or one that asked for it, is restarted by the monitor *)
(* until it registers (restart_failed is "auto").  The exception is a new  *)
(* process that ends before it registers: nobody starts another.           *)
(***************************************************************************)
RestartsUnlessStillborn ==
    \A s \in Startup :
        AwaitsRestart(s) ~> (Halted \/ ~Enabled(s) \/ ~AwaitsRestart(s) \/ Stillborn(s))

=============================================================================
