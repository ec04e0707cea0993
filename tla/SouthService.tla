---------------------------- MODULE SouthService ----------------------------
(***************************************************************************)
(* The threads of a polled south service: class SouthService of            *)
(* C/services/south/south.cpp.                                             *)
(*                                                                         *)
(* Threads: main, which polls the plugin until m_shutdown and then tears   *)
(* the service down; the reconfiguration thread (handlePendingReconf); the *)
(* management API, which delivers configuration changes, shutdown and      *)
(* restart; the control API, which asks for polls.                         *)
(*                                                                         *)
(* A condition variable keeps nothing: a notification reaches a thread     *)
(* that is in wait() and is lost otherwise.  The wait of the               *)
(* reconfiguration thread has a mutex of its own and no predicate.         *)
(* Throttling is switched off (m_throttle, the default), and the timer     *)
(* could be created.                                                       *)
(***************************************************************************)
EXTENDS Integers, Sequences

CONSTANTS
    Changes,       \* the changes that may be notified: [to, rate]
    PollTypes0,    \* the poll types the service may be started with
    PollV2,        \* whether the plugin has the V2 poll interface
    Intervals,     \* microseconds between two polls at the reading rates in use
    FixedWait,     \* seconds to the next fixed poll time
    MaxChanges,    \* bound: changes notified in a behaviour
    MaxAsked       \* bound: polls, steps and suspensions asked for

PollTypes == {"Interval", "Fixed Times", "On Demand"}
NoRate    == 0
NoChange  == [to |-> "none", rate |-> NoRate]

(* calculateTimerRate(), for usecs between two polls: the reads of the timer  *)
(* that a poll takes, and the period of the timer.  Both divisions truncate.  *)
MaxSleep  == 5 * 1000000
RepeatCnt(usecs) == IF usecs > MaxSleep THEN usecs \div MaxSleep ELSE 1

Period_NotDivided(usecs) == usecs

Period(usecs) == usecs \div RepeatCnt(usecs)

(* Periods of a timer: it no longer expires, it expires once, every second.   *)
Never  == 0
Once   == 1
Second == 1000000

\* The timer of a service that is started with fixed poll times ticks every
\* second.  One started on demand has a timer made from an uninitialised
\* m_desiredRate: it ticks, or it expires once and then never.
Timers0(type) ==
    CASE type = "Fixed Times" -> {Second}
      [] type = "On Demand" -> {Second, Once}

ASSUME SouthServiceAssumption ==
    /\ Changes \subseteq [to : PollTypes \cup {"plugin"}, rate : Intervals]
    /\ PollTypes0 \subseteq PollTypes
    /\ PollV2 \in BOOLEAN
    /\ Intervals \subseteq Nat \ {NoRate}
    /\ FixedWait \in Nat \ {0} /\ MaxChanges \in Nat /\ MaxAsked \in Nat

VARIABLES
    m_pollType, m_repeatCnt,
    m_rate,          \* m_readingsPerSec and m_rateUnits, as the interval they stand for
    m_timerfd,       \* the period of the timer
    m_shutdown, m_requestRestart,
    m_suspendIngest, m_steps,
    m_pendingNewConfig,
    mtx2,            \* the holder of the plugin's mutex
    southPlugin,     \* "loaded", or "deleted" (with the Ingest object)
    main, rep, fd,   \* where main is; reads of a timer left to do; the timer it reads
    reconf, change,  \* where the reconfiguration thread is; the change it handles
    notified,        \* history: the changes notified
    handled,         \* history: the changes processed
    stopping,        \* a shutdown that has found the service not on demand
    lost,            \* history: the notifications that woke nobody
    asked            \* number of polls, steps and suspensions asked for

pollVars  == <<m_pollType, m_rate, m_repeatCnt, m_timerfd>>
stopVars  == <<m_shutdown, m_requestRestart, stopping>>
debugVars == <<m_suspendIngest, m_steps>>
pluginVars == <<mtx2, southPlugin>>
reconfVars == <<reconf, change>>
vars == <<pollVars, stopVars, debugVars, pluginVars, m_pendingNewConfig,
          main, rep, fd, reconfVars, notified, handled, lost, asked>>

Init ==
    /\ m_pollType \in PollTypes0
    /\ IF m_pollType = "Interval"
       THEN \E usecs \in Intervals :
               m_rate = usecs /\ m_timerfd = Period(usecs) /\ m_repeatCnt = RepeatCnt(usecs)
       ELSE m_rate = NoRate /\ m_timerfd \in Timers0(m_pollType) /\ m_repeatCnt = 1
    /\ m_shutdown = FALSE /\ m_requestRestart = FALSE /\ stopping = FALSE
    /\ m_suspendIngest = FALSE /\ m_steps = 0
    /\ m_pendingNewConfig = << >> /\ mtx2 = "free" /\ southPlugin = "loaded"
    /\ main = "top" /\ rep = 0 /\ fd = m_timerfd
    /\ reconf = "check" /\ change = NoChange
    /\ notified = << >> /\ handled = << >> /\ lost = {} /\ asked = 0
-----------------------------------------------------------------------------
(* Wake-ups *)
\* m_pollCV.notify_all(): main wakes only if it is in the wait.
WakePoll == IF main = "waiting" THEN "woken" ELSE main
\* m_cvNewReconf.notify_all()
WakeReconf == IF reconf = "waiting" THEN "size" ELSE reconf
-----------------------------------------------------------------------------
(* The poll loop *)

\* The plugin's mutex can be taken.
PluginFree == mtx2 = "free"

ByMain == UNCHANGED <<stopVars, m_pendingNewConfig, reconfVars, notified, handled, lost, asked>>

\* while (!m_shutdown): how to wait for the next poll
pollTop ==
    /\ main = "top"
    /\ main' = CASE m_shutdown -> "closing"
                 [] ~ m_shutdown /\ m_pollType = "Interval" -> "timer"
                 [] ~ m_shutdown /\ m_pollType = "Fixed Times" -> "fixed"
                 [] ~ m_shutdown /\ m_pollType = "On Demand" -> "demand"
    /\ rep' = IF m_pollType = "Interval" THEN m_repeatCnt ELSE FixedWait
    /\ fd' = m_timerfd
    /\ UNCHANGED <<pollVars, debugVars, pluginVars>> /\ ByMain

\* read(m_timerfd) returns: the timer has expired.  A read that has begun goes
\* on when the timer is closed and replaced meanwhile.
Expires ==
    /\ fd # Never
    /\ rep' = rep - 1
    /\ m_timerfd' = IF fd = Once /\ m_timerfd = Once THEN Never ELSE m_timerfd
    /\ fd' = m_timerfd'
    /\ UNCHANGED <<m_pollType, m_rate, m_repeatCnt>>

timerRead ==
    /\ main = "timer" /\ Expires
    /\ main' = IF m_shutdown THEN "closing" ELSE "timerYield"
    /\ UNCHANGED <<debugVars, pluginVars>> /\ ByMain

\* checkPendingReconfigure() returns
NonePending == m_pendingNewConfig = << >>

timerYields ==
    /\ main = "timerYield" /\ NonePending
    /\ rep' = IF rep > m_repeatCnt THEN m_repeatCnt ELSE rep
    /\ main' = IF rep' > 0 THEN "timer" ELSE "woken"
    /\ fd' = m_timerfd
    /\ UNCHANGED <<pollVars, debugVars, pluginVars>> /\ ByMain

\* One tick of syncToNextPoll().  Its result does not matter: without
\* DO_CATCHUP the service polls after a change of the poll type as well.
fixedTick ==
    /\ main = "fixed" /\ Expires
    /\ main' = IF m_shutdown \/ m_pollType # "Fixed Times" \/ rep' = 0 THEN "woken" ELSE "fixed"
    /\ UNCHANGED <<debugVars, pluginVars>> /\ ByMain

\* onDemandPoll(): m_shutdown is tested under m_pollMutex, then main waits.
demandWaits ==
    /\ main = "demand"
    /\ main' = IF m_shutdown THEN "woken" ELSE "waiting"
    /\ UNCHANGED <<pollVars, debugVars, pluginVars, rep, fd>> /\ ByMain

\* Polls while suspended are the steps of the debugger.
decide ==
    /\ main = "woken"
    /\ \/ /\ m_shutdown
          /\ main' = "closing" /\ UNCHANGED m_steps
       \/ /\ ~ m_shutdown /\ m_suspendIngest /\ m_steps = 0
          /\ main' = "idleYield" /\ UNCHANGED m_steps
       \/ /\ ~ m_shutdown /\ (m_suspendIngest => m_steps > 0)
          /\ m_steps' = IF m_suspendIngest THEN m_steps - 1 ELSE m_steps
          /\ main' = IF PollV2 THEN "pollYield" ELSE "poll"
    /\ UNCHANGED <<pollVars, m_suspendIngest, pluginVars, rep, fd>> /\ ByMain

yields ==
    /\ NonePending
    /\ \/ main = "pollYield" /\ main' = "poll"
       \/ main = "idleYield" /\ main' = "top"
    /\ UNCHANGED <<pollVars, debugVars, pluginVars, rep, fd>> /\ ByMain

\* SouthPlugin::poll(), pollV2(): the plugin is called under its mutex.
pollBegins ==
    /\ main = "poll" /\ PluginFree
    /\ mtx2' = "main" /\ main' = "polling"
    /\ UNCHANGED <<pollVars, debugVars, southPlugin, rep, fd>> /\ ByMain

pollEnds ==
    /\ main = "polling"
    /\ mtx2' = "free" /\ main' = "top"
    /\ UNCHANGED <<pollVars, debugVars, southPlugin, rep, fd>> /\ ByMain

\* The plugin is shut down and deleted, and the Ingest object goes out of scope.
closePlugin ==
    /\ main = "closing" /\ PluginFree
    /\ southPlugin' = "deleted" /\ main' = "closed"
    /\ UNCHANGED <<pollVars, debugVars, mtx2, rep, fd>> /\ ByMain

\* The core is told, the management API is stopped, and the destructor
\* notifies the reconfiguration thread.
destruct ==
    /\ main = "closed"
    /\ main' = "join" /\ reconf' = WakeReconf
    /\ lost' = IF reconf = "arrive" THEN lost \cup {"exit"} ELSE lost
    /\ UNCHANGED <<pollVars, stopVars, debugVars, pluginVars, m_pendingNewConfig,
                   rep, fd, change, notified, handled, asked>>

join ==
    /\ main = "join" /\ reconf = "exit"
    /\ main' = "gone"
    /\ UNCHANGED <<pollVars, debugVars, pluginVars, rep, fd>> /\ ByMain
-----------------------------------------------------------------------------
(* The reconfiguration thread *)
ByReconf == UNCHANGED <<m_requestRestart, stopping, debugVars, southPlugin, rep, fd, notified, asked>>

\* while (isRunning()), and the wait, which is entered a step later
reconfLoops ==
    /\ \/ reconf = "check"  /\ reconf' = IF m_shutdown THEN "exit" ELSE "arrive"
       \/ reconf = "arrive" /\ reconf' = "waiting"
    /\ UNCHANGED <<pollVars, m_shutdown, m_pendingNewConfig, mtx2, main, change, handled, lost>>
    /\ ByReconf

\* while (isRunning() && numPendingReconfs)
reconfSize ==
    /\ reconf = "size"
    /\ reconf' = IF ~ m_shutdown /\ m_pendingNewConfig # << >> THEN "take" ELSE "check"
    /\ change' = NoChange
    /\ UNCHANGED <<pollVars, m_shutdown, m_pendingNewConfig, mtx2, main, handled, lost>>
    /\ ByReconf

reconfTake ==
    /\ reconf = "take"
    /\ change' = Head(m_pendingNewConfig)
    /\ m_pendingNewConfig' = Tail(m_pendingNewConfig)
    /\ reconf' = "process"
    /\ lost' = lost \ {"change"}
    /\ UNCHANGED <<pollVars, m_shutdown, mtx2, main, handled>> /\ ByReconf

\* The plugin and the Ingest object are used through pointers: after main has
\* deleted them the process dies.
useDeleted ==
    /\ reconf \in {"process", "ingest"} /\ southPlugin = "deleted"
    /\ reconf' = "crash" /\ main' = "crash"
    /\ UNCHANGED <<pollVars, m_shutdown, m_pendingNewConfig, mtx2, change, handled, lost>>
    /\ ByReconf

\* processConfigChange, the category of the plugin: southPlugin->reconfigure()
reconfigureBegins ==
    /\ reconf = "process" /\ change.to = "plugin" /\ southPlugin = "loaded" /\ PluginFree
    /\ mtx2' = "reconf" /\ reconf' = "reconfigure"
    /\ UNCHANGED <<pollVars, m_shutdown, m_pendingNewConfig, main, change, handled, lost>>
    /\ ByReconf

\* reconfigure() returns, or throws and the service is shut down.
reconfigureEnds ==
    /\ reconf = "reconfigure"
    /\ mtx2' = "free" /\ reconf' = "ingest"
    /\ \/ UNCHANGED <<m_shutdown, main>>
       \/ /\ m_shutdown' = TRUE
          /\ main' = IF m_pollType = "On Demand" THEN WakePoll ELSE main
    /\ UNCHANGED <<pollVars, m_pendingNewConfig, change, handled, lost>> /\ ByReconf

\* m_ingest->configChange()
ingestChange ==
    /\ reconf = "ingest" /\ southPlugin = "loaded"
    /\ handled' = Append(handled, change) /\ reconf' = "size"
    /\ UNCHANGED <<pollVars, m_shutdown, m_pendingNewConfig, mtx2, main, change, lost>> /\ ByReconf

\* A change to interval polling replaces the timer when the rate has changed.
Retimed(c) ==
    IF c.to = "Interval" /\ c.rate # m_rate
    THEN m_rate' = c.rate /\ m_repeatCnt' = RepeatCnt(c.rate) /\ m_timerfd' = Period(c.rate)
    ELSE UNCHANGED <<m_rate, m_repeatCnt, m_timerfd>>

Leaves_Never(c) == FALSE

\* A change that ends on demand polling notifies main, without m_pollMutex.
Leaves(c) == m_pollType = "On Demand" /\ c.to # "On Demand"

\* processConfigChange, the advanced category
advancedChange ==
    /\ reconf = "process" /\ change.to \in PollTypes /\ southPlugin = "loaded"
    /\ Retimed(change)
    /\ m_pollType' = change.to
    /\ main' = IF Leaves(change) THEN WakePoll ELSE main
    /\ lost' = IF Leaves(change) /\ main = "demand" THEN lost \cup {"wake"} ELSE lost
    /\ handled' = Append(handled, change) /\ reconf' = "size"
    /\ UNCHANGED <<m_shutdown, m_pendingNewConfig, mtx2, change>> /\ ByReconf
-----------------------------------------------------------------------------
(* The management API, one thread, until main has stopped it *)
Managed == main \notin {"join", "gone", "crash"} /\ ~ stopping

ByApi == UNCHANGED <<pollVars, pluginVars, rep, fd, change, handled>>

\* The queue is extended and the reconfiguration thread is notified.
configChange(c) ==
    /\ Managed /\ Len(notified) < MaxChanges
    /\ m_pendingNewConfig' = Append(m_pendingNewConfig, c)
    /\ notified' = Append(notified, c)
    /\ reconf' = WakeReconf
    /\ lost' = IF reconf \in {"check", "arrive"} THEN lost \cup {"change"} ELSE lost
    /\ UNCHANGED <<stopVars, debugVars, main, asked>> /\ ByApi

shutdown_NoNotify ==
    /\ Managed /\ ~ m_shutdown
    /\ m_shutdown' = TRUE
    /\ UNCHANGED <<m_requestRestart, stopping, debugVars, m_pendingNewConfig, main,
                   reconf, notified, lost, asked>>
    /\ ByApi

\* shutdown() of an on demand service, which notifies main under m_pollMutex;
\* another only sets m_shutdown, a step after it has read the poll type.
shutdown ==
    /\ Managed /\ ~ m_shutdown
    /\ IF m_pollType = "On Demand"
       THEN m_shutdown' = TRUE /\ main' = WakePoll /\ UNCHANGED stopping
       ELSE stopping' = TRUE /\ UNCHANGED <<m_shutdown, main>>
    /\ UNCHANGED <<m_requestRestart, debugVars, m_pendingNewConfig, reconf, notified, lost, asked>>
    /\ ByApi

\* m_shutdown = true without a notification; and restart(), whatever the poll type
setShutdown ==
    /\ \/ stopping /\ stopping' = FALSE /\ UNCHANGED m_requestRestart
       \/ Managed /\ ~ m_shutdown /\ m_requestRestart' = TRUE /\ UNCHANGED stopping
    /\ m_shutdown' = TRUE
    /\ lost' = IF main = "waiting" THEN lost \cup {"stop"} ELSE lost
    /\ UNCHANGED <<debugVars, m_pendingNewConfig, main, reconf, notified, asked>> /\ ByApi

\* The service's own API is deleted before the plugin.
Served == main \notin {"closing", "closed", "join", "gone", "crash"}

\* suspendDebugger(b)
suspendIngest(b) ==
    /\ Served /\ asked < MaxAsked /\ asked' = asked + 1
    /\ m_suspendIngest' = b /\ m_steps' = 0
    /\ UNCHANGED <<stopVars, m_pendingNewConfig, main, reconf, notified, lost>> /\ ByApi

stepDebugger ==
    /\ Served /\ asked < MaxAsked /\ asked' = asked + 1
    /\ m_steps' = 1
    /\ UNCHANGED <<stopVars, m_suspendIngest, m_pendingNewConfig, main, reconf, notified, lost>>
    /\ ByApi

\* operation("poll"): accepted whether or not main is waiting for it
operationPoll ==
    /\ Served /\ asked < MaxAsked /\ asked' = asked + 1
    /\ m_pollType = "On Demand"
    /\ main' = WakePoll
    /\ UNCHANGED <<stopVars, debugVars, m_pendingNewConfig, reconf, notified, lost>> /\ ByApi
-----------------------------------------------------------------------------
Main ==
    \/ pollTop \/ timerRead \/ timerYields \/ fixedTick \/ demandWaits \/ decide \/ yields
    \/ pollBegins \/ pollEnds \/ closePlugin \/ destruct \/ join

Reconf ==
    \/ reconfLoops \/ reconfSize \/ reconfTake \/ useDeleted
    \/ reconfigureBegins \/ reconfigureEnds \/ ingestChange \/ advancedChange

Requests ==
    \/ \E c \in Changes : configChange(c)
    \/ shutdown \/ setShutdown \/ operationPoll \/ stepDebugger
    \/ \E b \in BOOLEAN : suspendIngest(b)

Next == Main \/ Reconf \/ Requests

Spec == Init /\ [][Next]_vars

\* The threads run, a timer expires, every call of the plugin returns, and a
\* shutdown that has begun goes on.
FairSpec == Spec /\ WF_vars(Main) /\ WF_vars(Reconf) /\ WF_vars(stopping /\ setShutdown)
-----------------------------------------------------------------------------
(* Properties *)

(***************************************************************************)
(* When the reconfiguration thread has nothing to do, every change notified *)
(* so far has been processed, in the order of the notifications, and the    *)
(* last change of the advanced category is in force: its poll type, and for *)
(* interval polling a timer that, read m_repeatCnt times, takes the         *)
(* interval configured, short of less than one microsecond a read           *)
(* (processConfigChange leaves the timer alone when the rate is the same).  *)
(***************************************************************************)
ConfigInForce ==
    (m_pendingNewConfig = << >> /\ reconf \in {"check", "arrive", "waiting"}) =>
        /\ handled = notified
        /\ LET adv == SelectSeq(handled, LAMBDA c : c.to # "plugin") IN
           adv # << >> =>
             LET last == adv[Len(adv)] IN
             /\ m_pollType = last.to
             /\ last.to = "Interval" =>
                  m_repeatCnt * m_timerfd \in last.rate - m_repeatCnt + 1 .. last.rate

\* main reads a timer that no longer expires.
Blind == main \in {"timer", "fixed"} /\ fd = Never

(***************************************************************************)
(* The poll loop of start() goes on polling, through any changes of the     *)
(* configuration and of the poll type, until the service stops.  It rests   *)
(* while it is suspended or nobody asks for a poll.  What else can stop it: *)
(* a notification that was lost, for a queued change (checkPendingReconfigure *)
(* then never returns) or for the end of on demand polling, and the timer   *)
(* of a service that was started on demand.                                 *)
(***************************************************************************)
KeepsPolling ==
    []<>(\/ main = "polling" \/ m_shutdown \/ stopping
         \/ m_suspendIngest /\ m_steps = 0
         \/ main = "waiting" /\ m_pollType = "On Demand"
         \/ lost # {} \/ Blind)

(***************************************************************************)
(* A service told to shut down or restart ends, start() and the destructor  *)
(* included, or dies of the reconfiguration thread's use of the deleted     *)
(* plugin.  What can hang it: main waits in checkPendingReconfigure() for a *)
(* change that handlePendingReconf no longer takes after m_shutdown; a lost *)
(* notification; the timer of a service that was started on demand.         *)
(***************************************************************************)
ShutdownEnds ==
    m_shutdown ~> \/ main \in {"gone", "crash"}
                  \/ main \in {"timerYield", "pollYield", "idleYield"} /\ m_pendingNewConfig # << >>
                  \/ lost # {} \/ Blind
=============================================================================
