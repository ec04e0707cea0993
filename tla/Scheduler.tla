----------------------------- MODULE Scheduler -----------------------------
(* The scheduler of the core service (scheduler.py): the schedules and     *)
(* their executions, the scheduler loop that starts tasks, the completion  *)
(* handler of each task, and the operations of its API.  Everything runs   *)
(* on one event loop, so an action is what a coroutine does between two    *)
(* awaits; the processes it starts are outside.                            *)
EXTENDS Naturals, FiniteSets, TLC

CONSTANTS
    Schedules,      \* ids of the schedules
    Startup,        \* the ones of type STARTUP: microservices
    Interval,       \* the ones of type INTERVAL; the others are MANUAL
    Exclusive,      \* the exclusive ones
    MaxRunning,     \* _max_running_tasks
    TaskIds,        \* ids of tasks; an id is reused when its task is forgotten
    MaxRequests     \* bound: the requests made of the API

ASSUME SchedulerAssumption ==
    /\ Startup \subseteq Schedules /\ Interval \subseteq Schedules
    /\ Startup \cap Interval = {} /\ Exclusive \subseteq Schedules
    /\ MaxRunning \in Nat /\ MaxRequests \in Nat
    /\ TaskIds \subseteq Nat \ {0}

VARIABLES
    rows,            \* _schedules: absent, or the enabled flag of the row
    executions,      \* _schedule_executions
    taskProcesses,   \* _task_processes: the ids of the tasks in it
    scheduleOf,      \* the schedule of a task
    process,         \* the operating system's process of a task
    cancelRequested, \* the tasks with a cancel_requested time
    future,          \* _wait_for_task_completion() as the future of a task
    canceller,       \* _wait_for_task_completion() as called to cancel it
    loop,            \* where _scheduler_loop() is, and its local variables
    pending,         \* _check_processes_pending
    paused, ready,   \* _paused and _ready
    stopPc,          \* where stop() is
    admin,           \* enable and disable requests that await the storage service
    requests         \* the requests made so far

taskVars == <<taskProcesses, scheduleOf, process, cancelRequested, future, canceller>>
stateVars == <<paused, ready, stopPc>>
vars == <<rows, executions, taskVars, loop, pending, stateVars, admin, requests>>

None == "none"
NoTask == 0
Waits == {"none", "waiting", "updating", "failed"}

\* A _ScheduleExecution that was just made.  The start time of the next task
\* is not set, is later than now, or has come.
NewExecution == [next |-> None, startNow |-> FALSE, tasks |-> {}]
ExecutionType == [next : {None, "later", "due"}, startNow : BOOLEAN, tasks : SUBSET TaskIds]

HasExecution(s) == s \in DOMAIN executions

\* Entries of a dictionary.
Put(d, k, v) == (k :> v) @@ d
Delete(d, k) == [x \in DOMAIN d \ {k} |-> d[x]]
ExecutionOf(d, s) == IF s \in DOMAIN d THEN d[s] ELSE NewExecution

Enabled(s) == rows[s] = "enabled"
Running(t) == process[t] = "running"
Repeats(s) == s \in Interval
Idle == [pc |-> "yield", todo |-> {}, schedule |-> None, mine |-> FALSE,
         earliest |-> {}, task |-> NoTask]

\* A task nothing refers to any more.
Forgotten(t) ==
    /\ t \notin taskProcesses /\ ~Running(t)
    /\ \A s \in Schedules : HasExecution(s) => t \notin executions[s].tasks
    /\ future[t] \notin {"waiting", "updating"} /\ canceller[t] \notin {"waiting", "updating"}
    /\ loop.task # t

----------------------------------------------------------------------------
\* _schedule_first_task() of an enabled schedule, on the executions d.
FirstTask(d, s) ==
    IF s \notin Startup \cup Interval THEN d
    ELSE Put(d, s, [ExecutionOf(d, s) EXCEPT !.next = IF s \in Startup THEN "due" ELSE "later"])

\* start(): the schedules are read from storage, and every enabled one that
\* is not started by hand gets its first task.
Init ==
    /\ rows \in [Schedules -> {"enabled", "disabled"}]
    /\ executions = [s \in {x \in Startup \cup Interval : Enabled(x)} |->
                        [NewExecution EXCEPT !.next = IF s \in Startup THEN "due" ELSE "later"]]
    /\ taskProcesses = {} /\ cancelRequested = {}
    /\ scheduleOf = [t \in TaskIds |-> None]
    /\ process = [t \in TaskIds |-> "ended"]
    /\ future = [t \in TaskIds |-> None] /\ canceller = [t \in TaskIds |-> None]
    /\ loop = Idle
    /\ pending = FALSE /\ paused = FALSE /\ ready = TRUE
    /\ stopPc = "idle" /\ admin = {} /\ requests = 0

----------------------------------------------------------------------------
\* _resume_check_schedules(): a sleeping loop is awakened, another is told to
\* check again.  The new values of loop and pending.
Sleeping(l) == l.pc \in {"sleep", "sleepUntil"}
Awakened(l) == IF Sleeping(l) THEN [l EXCEPT !.pc = "yield"] ELSE l

Resume(l) ==
    /\ loop' = Awakened(l)
    /\ pending' = IF Sleeping(l) THEN pending ELSE TRUE

\* _schedule_next_task(): the execution e of schedule s after its task.  A
\* start time that is not set cannot be advanced (see NextFails).
NextTask(s, e) ==
    IF ~Enabled(s) \/ (s \in Exclusive /\ e.next = "later" /\ Repeats(s) /\ ~paused) THEN e
    ELSE [e EXCEPT !.next = IF paused \/ ~Repeats(s) THEN None ELSE "later"]

NextFails(s, e) == Enabled(s) /\ ~paused /\ Repeats(s) /\ e.next = None

----------------------------------------------------------------------------
(* _check_schedules() and the rest of an iteration of _scheduler_loop().   *)
(* Between two starts it does not await, so all of that is one step, which *)
(* ends the step that resumed the loop.  Its arguments: the loop's local   *)
(* variables, and the two dictionaries.  The order of the keys of a        *)
(* dictionary is left open.                                                *)

Wanted(e) == e.next # None \/ e.startNow
\* Mutant: an exclusive schedule starts again.
Blocked_NotExclusive(s, e) == ~Enabled(s)

Blocked(s, e) == ~Enabled(s) \/ (s \in Exclusive /\ e.tasks # {})

\* A task of the schedule is to be started now.
StartsNow(s, e) == ~Blocked(s, e) /\ (e.startNow \/ e.next = "due")

\* The execution of a deleted schedule, or of one with nothing to start, goes
\* with its last task.
Over(s, e) == e.tasks = {} /\ (rows[s] = "absent" \/ (Enabled(s) /\ ~Wanted(e)))

\* After the check: end, check again, sleep until the earliest start time, or
\* sleep for _MAX_SLEEP.
Sleeps(earliest, d) ==
    /\ executions' = d
    /\ loop' = [Idle EXCEPT !.pc =
                  IF paused THEN "ended"
                  ELSE IF pending \/ \E s \in earliest \cap DOMAIN d : d[s].next = "due" THEN "yield"
                  ELSE IF earliest = {} THEN "sleep" ELSE "sleepUntil"]
    /\ pending' = (pending /\ paused)

\* A task is started: the next start time moves on at once for a schedule that
\* is not exclusive, and stays for a manual start.  _start_task() is awaited.
Starts(s, l, d) ==
    LET e == d[s]
        rightTime == e.next = "due" /\ ~e.startNow
        advanced == IF rightTime /\ s \notin Exclusive THEN NextTask(s, e) ELSE e
        remembered == IF rightTime /\ s \in Exclusive THEN None ELSE advanced.next
    IN
    /\ executions' = Put(d, s, advanced)
    /\ loop' = [l EXCEPT !.pc = "starting", !.schedule = s, !.mine = TRUE,
                         !.earliest = IF remembered = None THEN @ ELSE @ \cup {s}]
    /\ UNCHANGED pending

AtLimit(tasks) == Cardinality(tasks) >= MaxRunning

\* The loop passes the schedules of P, and then sleeps, starts a task, or meets
\* an execution that was deleted since the keys were listed: KeyError.
checkSchedules(l, d, tasks) ==
    LET stop == paused \/ AtLimit(tasks)
        live == l.todo \cap DOMAIN d
    IN
    \/ stop /\ l.todo # {} /\ Sleeps({}, d)
    \/ /\ ~stop \/ l.todo = {}
       /\ \E P \in SUBSET {s \in live : ~StartsNow(s, d[s])} :
             LET passed == [s \in DOMAIN d \ {x \in P : Over(x, d[x])} |-> d[s]]
                 early == {s \in P : ~Blocked(s, d[s]) /\ d[s].next # None}
                 m == [l EXCEPT !.todo = @ \ P, !.earliest = @ \cup early]
             IN \/ m.todo = {} /\ Sleeps(m.earliest, passed)
                \/ \E s \in live \ P : /\ StartsNow(s, d[s])
                                       /\ Starts(s, [m EXCEPT !.todo = @ \ {s}], passed)
                \/ /\ m.todo \ live # {}
                   /\ executions' = passed /\ loop' = [Idle EXCEPT !.pc = "dead"]
                   /\ UNCHANGED pending

\* The loop has yielded, was awakened, or has slept until the start time.
loopWakes ==
    /\ loop.pc \in {"yield", "sleepUntil"}
    /\ checkSchedules([Idle EXCEPT !.todo = DOMAIN executions], executions, taskProcesses)
    /\ UNCHANGED <<rows, taskVars, stateVars, admin, requests>>

----------------------------------------------------------------------------
(* _start_task()                                                           *)

\* The operating system cannot create the process.
createFails ==
    /\ loop.pc = "starting"
    /\ loop' = [Idle EXCEPT !.pc = "dead"]
    /\ UNCHANGED <<rows, executions, taskVars, pending, stateVars, admin, requests>>

\* After the start: start_now of the execution the loop holds, which may have
\* been deleted, is reset, and the check goes on.
started(d, tasks) ==
    checkSchedules([loop EXCEPT !.schedule = None, !.mine = FALSE, !.task = NoTask],
                   IF loop.mine THEN [d EXCEPT ![loop.schedule].startNow = FALSE] ELSE d, tasks)

\* The process runs.  It is put into both dictionaries; when the execution
\* was deleted meanwhile the second is a KeyError.
createProcess(t) ==
    LET s == loop.schedule
        tasks == taskProcesses \cup {t}
        added == [executions EXCEPT ![s].tasks = @ \cup {t}]
    IN
    /\ loop.pc = "starting" /\ Forgotten(t)
    /\ \A u \in TaskIds : Forgotten(u) => t <= u
    /\ taskProcesses' = tasks
    /\ scheduleOf' = [scheduleOf EXCEPT ![t] = s]
    /\ process' = [process EXCEPT ![t] = "running"]
    /\ cancelRequested' = cancelRequested \ {t}
    /\ future' = [future EXCEPT ![t] = None]
    /\ canceller' = [canceller EXCEPT ![t] = None]
    /\ \/ /\ ~HasExecution(s)
          /\ loop' = [Idle EXCEPT !.pc = "dead"] /\ UNCHANGED <<executions, pending>>
       \/ HasExecution(s) /\ s \in Startup /\ started(added, tasks)
       \/ /\ HasExecution(s) /\ s \notin Startup
          /\ executions' = added
          /\ loop' = [loop EXCEPT !.pc = "inserting", !.task = t] /\ UNCHANGED pending
    /\ UNCHANGED <<rows, stateVars, admin, requests>>

\* The row of the task is inserted, or not: the task is waited for anyway.
insertRow ==
    /\ loop.pc = "inserting"
    /\ future' = [future EXCEPT ![loop.task] = "waiting"]
    /\ started(executions, taskProcesses)
    /\ UNCHANGED <<rows, taskProcesses, scheduleOf, process, cancelRequested, canceller,
                   stateVars, admin, requests>>

----------------------------------------------------------------------------
\* Time passes.
timePasses(s) ==
    /\ HasExecution(s) /\ executions[s].next = "later"
    /\ executions' = [executions EXCEPT ![s].next = "due"]
    /\ UNCHANGED <<rows, taskVars, loop, pending, stateVars, admin, requests>>

\* A process ends.
processEnds(t) ==
    /\ Running(t)
    /\ process' = [process EXCEPT ![t] = "ended"]
    /\ scheduleOf' = IF t \in taskProcesses THEN scheduleOf ELSE [scheduleOf EXCEPT ![t] = None]
    /\ UNCHANGED <<rows, executions, taskProcesses, cancelRequested, future, canceller, loop,
                   pending, stateVars, admin, requests>>

----------------------------------------------------------------------------
(* _wait_for_task_completion(), as the future w = future of a task or as   *)
(* the wait w = canceller of the request that cancelled it.                *)

\* After the process ended: the task leaves its execution, which a missing
\* entry prevents, and the execution is prepared for the next task.
Completed(s, t) ==
    LET e == [executions[s] EXCEPT !.tasks = @ \ {t}]
        last == paused \/ rows[s] = "absent" \/ (~Repeats(s) /\ ~e.startNow)
    IN IF last THEN [e EXCEPT !.next = None]
       ELSE IF s \in Exclusive THEN NextTask(s, e) ELSE e

CompletionFails(s, t) ==
    \/ ~HasExecution(s) \/ t \notin executions[s].tasks
    \/ s \in Exclusive /\ NextFails(s, executions[s])

WaitEnds(w, t) ==
    LET s == scheduleOf[t]
    IN /\ w[t] = "waiting" /\ ~Running(t)
       /\ w' = [w EXCEPT ![t] = IF CompletionFails(s, t) THEN "failed" ELSE "updating"]
       /\ executions' = IF ~HasExecution(s) THEN executions
                        ELSE IF CompletionFails(s, t)
                             THEN [executions EXCEPT ![s].tasks = @ \ {t}]
                        ELSE [executions EXCEPT ![s] = Completed(s, t)]
       /\ UNCHANGED <<rows, taskProcesses, scheduleOf, process, cancelRequested, loop,
                      pending, stateVars, admin, requests>>

\* The row of the task is updated or not; the loop is awakened and the task
\* leaves _task_processes.
UpdateEnds(w, t) ==
    /\ w[t] = "updating"
    /\ w' = [w EXCEPT ![t] = None]
    /\ taskProcesses' = taskProcesses \ {t}
    /\ scheduleOf' = [scheduleOf EXCEPT ![t] = None]
    /\ cancelRequested' = cancelRequested \ {t}
    /\ Resume(loop)
    /\ UNCHANGED <<rows, executions, process, stateVars, admin, requests>>

futureWaits(t)    == WaitEnds(future, t) /\ UNCHANGED canceller
futureUpdates(t)  == UpdateEnds(future, t) /\ UNCHANGED canceller
cancelWaits(t)    == WaitEnds(canceller, t) /\ UNCHANGED future
cancelUpdates(t)  == UpdateEnds(canceller, t) /\ UNCHANGED future


\* future.cancel(): a future that is not done ends with CancelledError, and
\* the caller waits for the completion in its place.
CancelFuture(t) ==
    IF future[t] \in {"waiting", "updating"}
    THEN /\ future' = [future EXCEPT ![t] = None]
         /\ canceller' = [canceller EXCEPT ![t] = "waiting"]
    ELSE UNCHANGED <<future, canceller>>

----------------------------------------------------------------------------
(* The API.  A request is refused while the scheduler stops.               *)

Accepts == ready /\ ~paused
Asked == requests < MaxRequests /\ requests' = requests + 1

\* An execution for s, if it has none, as queue_task() makes it.
Queued(d, s, now) ==
    Put(d, s, [ExecutionOf(d, s) EXCEPT !.startNow = @ \/ now])

queueTask(s) ==
    /\ Accepts /\ Enabled(s)
    /\ executions' = Queued(executions, s, TRUE)
    /\ Resume(loop)
    /\ UNCHANGED <<rows, taskVars, stateVars, admin>>

requestTask(s) == Asked /\ queueTask(s)

\* enable_schedule() and disable_schedule() change the row, then await the
\* storage service and a second.
enableBegins(s) ==
    /\ Accepts /\ Asked /\ rows[s] = "disabled"
    /\ rows' = [rows EXCEPT ![s] = "enabled"]
    /\ admin' = admin \cup {<<"enable", s>>}
    /\ UNCHANGED <<executions, taskVars, loop, pending, stateVars>>

disableBegins(s) ==
    /\ Accepts /\ Asked /\ rows[s] = "enabled"
    /\ rows' = [rows EXCEPT ![s] = "disabled"]
    /\ admin' = admin \cup {<<"disable", s>>}
    /\ UNCHANGED <<executions, taskVars, loop, pending, stateVars>>

\* The storage service refuses the update, the row has been deleted, or the
\* scheduler stops: the request ends with an exception.
requestFails(r) ==
    /\ r \in admin
    /\ admin' = admin \ {r}
    /\ UNCHANGED <<rows, executions, taskVars, loop, pending, stateVars, requests>>

enableEnds(s) ==
    /\ Accepts /\ <<"enable", s>> \in admin /\ rows[s] # "absent"
    /\ admin' = admin \ {<<"enable", s>>}
    /\ IF Enabled(s)
       THEN /\ executions' = Queued(FirstTask(executions, s), s, FALSE)
            /\ Resume(loop)
       ELSE UNCHANGED <<executions, loop, pending>>
    /\ UNCHANGED <<rows, taskVars, stateVars, requests>>

\* A running task, not a service, is terminated.
disableEnds(s) ==
    LET running == {t \in taskProcesses : scheduleOf[t] = s}
    IN
    /\ ready /\ s \notin Startup /\ <<"disable", s>> \in admin
    /\ admin' = admin \ {<<"disable", s>>}
    /\ \/ running = {} /\ UNCHANGED <<cancelRequested, future, canceller>>
       \/ \E t \in running :
             /\ cancelRequested' = cancelRequested \cup {t}
             /\ CancelFuture(t)
    /\ UNCHANGED <<rows, executions, taskProcesses, scheduleOf, process, loop, pending,
                   stateVars, requests>>

\* save_schedule() of a changed interval: it awaits the storage service, then
\* puts in place a row whose enabled flag was read before.
saveBegins(s) ==
    /\ Accepts /\ Asked /\ s \in Interval /\ rows[s] # "absent"
    /\ admin' = admin \cup {<<"save", s, rows[s]>>}
    /\ UNCHANGED <<rows, executions, taskVars, loop, pending, stateVars>>

saveEnds(s) ==
    \E e \in {"enabled", "disabled"} :
        /\ ready /\ <<"save", s, e>> \in admin /\ rows[s] # "absent"
        /\ admin' = admin \ {<<"save", s, e>>}
        /\ rows' = [rows EXCEPT ![s] = e]
        /\ executions' = IF e = "enabled" THEN FirstTask(executions, s) ELSE executions
        /\ Resume(loop)
        /\ UNCHANGED <<taskVars, stateVars, requests>>

\* delete_schedule(): only a disabled schedule.
deleteSchedule(s) ==
    /\ ready /\ Asked /\ rows[s] = "disabled"
    /\ rows' = [rows EXCEPT ![s] = "absent"]
    /\ UNCHANGED <<executions, taskVars, loop, pending, stateVars, admin>>

\* cancel_task(): the process is sent a signal; a task without a future is an
\* AttributeError, after that.
cancelTask(t) ==
    /\ Accepts /\ Asked /\ t \in taskProcesses \ cancelRequested
    /\ cancelRequested' = cancelRequested \cup {t}
    /\ CancelFuture(t)
    /\ UNCHANGED <<rows, executions, taskProcesses, scheduleOf, process, loop, pending,
                   stateVars, admin>>

----------------------------------------------------------------------------
(* stop()                                                                  *)

\* No task starts any more; the loop is awakened to end.
stopBegins ==
    /\ ready /\ stopPc = "idle"
    /\ paused' = TRUE /\ stopPc' = "loop"
    /\ Resume(loop)
    /\ UNCHANGED <<rows, executions, taskVars, ready, admin, requests>>

\* The loop has ended: every task is sent a signal.
stopTasks ==
    /\ stopPc = "loop" /\ loop.pc \in {"ended", "dead"}
    /\ cancelRequested' = cancelRequested \cup taskProcesses
    /\ stopPc' = "tasks"
    /\ UNCHANGED <<rows, executions, taskProcesses, scheduleOf, process, future, canceller,
                   loop, pending, paused, ready, admin, requests>>


\* A task is still there after _STOP_WAIT_SECONDS: TimeoutError.  The core
\* calls stop() again, and that call is here too.
Pending == {t \in taskProcesses : scheduleOf[t] \notin Startup}

stopEnds ==
    /\ stopPc = "tasks" /\ Pending = {}
    /\ stopPc' = "stopped" /\ ready' = FALSE /\ paused' = FALSE
    /\ rows' = [s \in Schedules |-> "absent"]
    /\ executions' = <<>>
    /\ taskProcesses' = {}
    /\ UNCHANGED <<scheduleOf, process, cancelRequested, future, canceller, loop, pending,
                   admin, requests>>
=============================================================================
