---------------------------- MODULE SouthIngest ----------------------------
(***************************************************************************)
(* The reading buffer of a south service: class Ingest of                  *)
(* C/services/south/ingest.cpp.                                            *)
(*                                                                         *)
(* Threads: the plugin threads that call ingest() (Producers), the thread  *)
(* that sends blocks to the storage service ("ingest"), the thread that    *)
(* flushes statistics, the thread that applies configuration changes, and  *)
(* the main thread, which runs the destructor and, from it, processQueue() *)
(* once more ("main").                                                     *)
(*                                                                         *)
(* One action is one critical section, or one stretch of code that touches *)
(* no shared state in between.  m_pipelineMutex and m_useDataMutex never   *)
(* span two actions and need no variable; m_qMutex is held across the      *)
(* discard loop, and m_fqMutex is held while m_qMutex is awaited.          *)
(***************************************************************************)
EXTENDS Naturals, Sequences, FiniteSets, Functions

CONSTANTS
    Producers,        \* the plugin threads that call ingest()
    Thresholds,       \* values of the item bufferThreshold
    Limits,           \* values of the category of resource limits
    VectorSizes,      \* lengths of the vector given to one call of ingest()
    MaxReadings,      \* bound: readings ingested in a behaviour
    MaxReconfigs,     \* bound: configuration changes in a behaviour
    MaxFailures,      \* failed sends of a block before readings are removed
    RemoveCount,      \* readings removed from a block that keeps failing
    StorageOutcomes,  \* what a call of readingAppend may do
    FilterModes,      \* what a filter does with readings it does not pass on
    Pipelines,        \* the pipelines that can be configured
    ShutdownAllowed   \* whether the service is shut down

Policies == {"discardOldest", "discardNewest", "reduceFidelity"}
LimitType == [type : {"unlimited", "limited"}, size : Nat, policy : Policies]

ASSUME ConstantsAssumption ==
    /\ IsFiniteSet(Producers)
    /\ Producers \cap {"ingest", "main", "none"} = {}
    /\ Thresholds \subseteq Nat
    /\ Limits \subseteq LimitType
    /\ VectorSizes \subseteq Nat \ {0}
    /\ MaxReadings \in Nat /\ MaxReconfigs \in Nat
    /\ MaxFailures \in Nat \ {0}
    /\ RemoveCount \in Nat \ {0}
    /\ StorageOutcomes \subseteq {"ok", "fail", "unacked"}
    /\ FilterModes \subseteq {"drop", "hold"}
    /\ Pipelines \subseteq {"none", "empty", "filters"}
    /\ ShutdownAllowed \in BOOLEAN

VARIABLES
    m_queue,        \* readings not yet part of a block
    m_fullQueues,   \* blocks ready to be sent
    m_resendQueues, \* blocks whose send failed
    m_data,         \* pointer to the block being processed
    m_failCnt,
    m_running,
    m_shutdown,
    m_filterPipeline,
    m_isolate,
    m_queueSizeThreshold,
    limit,          \* m_serviceBufferingType, m_serviceBufferSize, m_discardPolicy
    m_resourceGovernorActive,
    qOwner,         \* holder of m_qMutex across actions
    fqOwner,        \* holder of m_fqMutex across actions
    fullQueue,      \* fullQueue[p]: the local of ingest() in producer p
    ppc,            \* ppc[p]: where producer p is in ingest()
    pc,             \* pc[t]: where thread t is in processQueue()
    sending,        \* what the current call of readingAppend serialised
    statsPc,        \* the statistics thread
    reconfPc,       \* the reconfiguration thread
    dtor,           \* progress of the service's shutdown and of ~Ingest
    held,           \* readings a filter has kept back
    ingested,       \* number of readings given to ingest()
    reconfigs,      \* number of configuration changes
    stored,         \* history: readings the storage service has committed
    discarded,      \* readings removed with logDiscardedStat()
    filtered        \* readings removed by a filter or by isolation

bufferVars == <<m_queue, m_fullQueues, m_resendQueues, m_data, m_failCnt, fullQueue, sending>>
flagVars   == <<m_running, m_shutdown, m_filterPipeline, m_isolate>>
limitVars  == <<m_queueSizeThreshold, limit, m_resourceGovernorActive>>
lockVars   == <<qOwner, fqOwner>>
threadVars == <<ppc, pc, statsPc, reconfPc, dtor>>
ghostVars  == <<held, ingested, reconfigs, stored, discarded, filtered>>
vars == <<bufferVars, flagVars, limitVars, lockVars, threadVars, ghostVars>>

Reading == Nat
Block   == Seq(Reading)

\* A pointer to a block: no block, or one.
Null   == <<>>
Ptr(b) == <<b>>

Senders == {"ingest", "main"}

Crashes == {"nullData", "danglingPipeline"}

ProcessPcs == {"top", "wait", "calc", "resend", "takeQ", "filter",
               "append", "appending", "again", "exited", "idle", "dead"}

(***************************************************************************)
(* The queue length of the resource governor counts each full block and    *)
(* each block to resend as m_queueSizeThreshold readings.                  *)
(***************************************************************************)
queueLength ==
    Len(m_queue) + (Len(m_fullQueues) + Len(m_resendQueues)) * m_queueSizeThreshold

OverLimit == limit.type = "limited" /\ queueLength > limit.size

----------------------------------------------------------------------------
(* The constructor, start() and the first loadFilters().                   *)

Init ==
    /\ m_queue = <<>> /\ m_fullQueues = <<>> /\ m_resendQueues = <<>>
    /\ m_data = Null /\ m_failCnt = 0
    /\ m_running = TRUE /\ m_shutdown = FALSE
    /\ m_filterPipeline \in Pipelines
    /\ m_isolate = FALSE
    /\ m_queueSizeThreshold \in Thresholds
    /\ limit \in Limits
    /\ m_resourceGovernorActive = FALSE
    /\ qOwner = "none" /\ fqOwner = "none"
    /\ fullQueue = [p \in Producers |-> Null]
    /\ ppc = [p \in Producers |-> "idle"]
    /\ pc = [t \in Senders |-> IF t = "ingest" THEN "top" ELSE "idle"]
    /\ sending = <<>>
    /\ statsPc = "loop" /\ reconfPc = "idle" /\ dtor = "alive"
    /\ held = <<>> /\ ingested = 0 /\ reconfigs = 0
    /\ stored = <<>> /\ discarded = {} /\ filtered = {}

----------------------------------------------------------------------------
(* ingest(): lock m_qMutex, append, enforce the resource limits, move the  *)
(* queue to a local pointer when it is full; then, under m_fqMutex, push.  *)

ingestAppend(p) ==
    /\ ppc[p] = "idle" /\ dtor = "alive"
    /\ qOwner = "none"
    /\ \E k \in VectorSizes :
          /\ ingested + k <= MaxReadings
          /\ m_queue' = m_queue \o [i \in 1..k |-> ingested + i]
          /\ ingested' = ingested + k
    /\ qOwner' = p
    /\ ppc' = [ppc EXCEPT ![p] = "locked"]
    /\ UNCHANGED <<m_fullQueues, m_resendQueues, m_data, m_failCnt, fullQueue, sending,
                   flagVars, limitVars, fqOwner, pc, statsPc, reconfPc, dtor,
                   held, reconfigs, stored, discarded, filtered>>

\* mutant: a reading is deleted without being counted
logDiscardedStat_Lost(removed) == discarded' = discarded

logDiscardedStat(removed) == discarded' = discarded \cup removed

\* mutant: only the readings beyond a block are removed
discardOldest_KeepBlock(q) == IF Len(q) <= m_queueSizeThreshold THEN q ELSE Tail(q)

discardOldest(q) == IF q = <<>> THEN q ELSE Tail(q)

discardNewest(q) == IF q = <<>> THEN q ELSE SubSeq(q, 1, Len(q) - 1)

reduceFidelity(q) == [i \in 1 .. (Len(q) + 1) \div 2 |-> q[2 * i - 1]]

discardPolicy(q) ==
    CASE limit.policy = "discardOldest"  -> discardOldest(q)
      [] limit.policy = "discardNewest"  -> discardNewest(q)
      [] limit.policy = "reduceFidelity" -> reduceFidelity(q)

\* One turn of the loop of enforceResourceLimits().
enforceResourceLimits(p) ==
    /\ ppc[p] = "locked" /\ OverLimit
    /\ m_queue' = discardPolicy(m_queue)
    /\ logDiscardedStat(Range(m_queue) \ Range(m_queue'))
    /\ m_resourceGovernorActive' = TRUE
    /\ UNCHANGED <<m_fullQueues, m_resendQueues, m_data, m_failCnt, fullQueue, sending,
                   flagVars, m_queueSizeThreshold, limit, lockVars, threadVars,
                   held, ingested, reconfigs, stored, filtered>>

\* The end of enforceResourceLimits() and of the critical section.
ingestRelease(p) ==
    /\ ppc[p] = "locked" /\ ~OverLimit
    /\ m_resourceGovernorActive' =
          (m_resourceGovernorActive /\ ~(limit.type = "limited"
                                           /\ queueLength <= limit.size \div 2))
    /\ IF Len(m_queue) >= m_queueSizeThreshold \/ ~m_running
         THEN /\ fullQueue' = [fullQueue EXCEPT ![p] = Ptr(m_queue)]
              /\ m_queue' = <<>>
              /\ ppc' = [ppc EXCEPT ![p] = "push"]
         ELSE /\ ppc' = [ppc EXCEPT ![p] = "idle"]
              /\ UNCHANGED <<fullQueue, m_queue>>
    /\ qOwner' = "none"
    /\ UNCHANGED <<m_fullQueues, m_resendQueues, m_data, m_failCnt, sending,
                   flagVars, m_queueSizeThreshold, limit, fqOwner,
                   pc, statsPc, reconfPc, dtor, ghostVars>>

ingestPush(p) ==
    /\ ppc[p] = "push" /\ fqOwner = "none"
    /\ m_fullQueues' = m_fullQueues \o fullQueue[p]
    /\ fullQueue' = [fullQueue EXCEPT ![p] = Null]
    /\ ppc' = [ppc EXCEPT ![p] = "idle"]
    /\ UNCHANGED <<m_queue, m_resendQueues, m_data, m_failCnt, sending,
                   flagVars, limitVars, lockVars, pc, statsPc, reconfPc, dtor, ghostVars>>

----------------------------------------------------------------------------
(* The ingest thread: ingestThread(), waitForQueue(), processQueue().      *)

ReturnPc(t) == IF t = "ingest" THEN "top" ELSE "exited"

\* A segmentation fault ends every thread of the process.
Crash(cause) ==
    /\ ppc' = [p \in Producers |-> "dead"]
    /\ pc' = [t \in Senders |-> "dead"]
    /\ statsPc' = "dead" /\ reconfPc' = "dead" /\ dtor' = cause

Goto(t, label) == pc' = [pc EXCEPT ![t] = label]


ingestThread ==
    /\ pc["ingest"] = "top" /\ (m_shutdown \/ m_running)
    /\ Goto("ingest", IF m_shutdown THEN "exited" ELSE "wait")
    /\ UNCHANGED <<bufferVars, flagVars, limitVars, lockVars, ppc, statsPc, reconfPc, dtor, ghostVars>>

\* The timed wait itself only takes time; what matters is that it is entered
\* through calculateWaitTime(), which locks m_qMutex.
waitForQueue ==
    /\ pc["ingest"] = "wait"
    /\ Goto("ingest", IF \/ m_fullQueues # <<>> \/ m_resendQueues # <<>>
                         \/ ~m_running \/ Len(m_queue) >= m_queueSizeThreshold
                      THEN "resend" ELSE "calc")
    /\ UNCHANGED <<bufferVars, flagVars, limitVars, lockVars, ppc, statsPc, reconfPc, dtor, ghostVars>>

calculateWaitTime ==
    /\ pc["ingest"] = "calc" /\ qOwner = "none"
    /\ Goto("ingest", "resend")
    /\ UNCHANGED <<bufferVars, flagVars, limitVars, lockVars, ppc, statsPc, reconfPc, dtor, ghostVars>>

TooManyFailures == m_failCnt + 1 > MaxFailures

\* One turn of the resend loop in which readingAppend() returns false.
resendFail(t, outcome) ==
    /\ pc[t] = "resend" /\ m_resendQueues # <<>>
    /\ outcome \in StorageOutcomes \ {"ok"}
    /\ LET q == Head(m_resendQueues)
           n == IF Len(q) < RemoveCount THEN Len(q) ELSE RemoveCount
           rest == SubSeq(q, n + 1, Len(q))
       IN IF TooManyFailures
            THEN /\ m_failCnt' = 0
                 /\ logDiscardedStat(Range(SubSeq(q, 1, n)))
                 /\ m_resendQueues' = IF rest = <<>> THEN Tail(m_resendQueues)
                                      ELSE <<rest>> \o Tail(m_resendQueues)
            ELSE /\ m_failCnt' = m_failCnt + 1
                 /\ UNCHANGED <<discarded, m_resendQueues>>
    /\ stored' = IF outcome = "unacked" THEN stored \o Head(m_resendQueues) ELSE stored
    /\ UNCHANGED <<m_queue, m_fullQueues, m_data, fullQueue, sending, flagVars, limitVars,
                   lockVars, threadVars, held, ingested, reconfigs, filtered>>

resendOk(t) ==
    /\ pc[t] = "resend" /\ m_resendQueues # <<>>
    /\ "ok" \in StorageOutcomes
    /\ stored' = stored \o Head(m_resendQueues)
    /\ m_resendQueues' = Tail(m_resendQueues)
    /\ m_failCnt' = 0
    /\ UNCHANGED <<m_queue, m_fullQueues, m_data, fullQueue, sending, flagVars, limitVars,
                   lockVars, threadVars, held, ingested, reconfigs, discarded, filtered>>

\* mutant: the resend queue is tried once, not until it is empty
ResendDone_Once(t) == pc[t] = "resend"

ResendDone(t) == pc[t] = "resend" /\ m_resendQueues = <<>>

\* Under m_fqMutex: pop a full block; without one, take m_queue unless the
\* service is shutting down.
takeFullQueue(t) ==
    /\ ResendDone(t) /\ fqOwner = "none"
    /\ m_fullQueues # <<>>
    /\ m_data' = Ptr(Head(m_fullQueues))
    /\ m_fullQueues' = Tail(m_fullQueues)
    /\ Goto(t, "filter")
    /\ UNCHANGED <<m_queue, m_resendQueues, m_failCnt, fullQueue, sending, flagVars, limitVars,
                   lockVars, ppc, statsPc, reconfPc, dtor, ghostVars>>


noFullQueue(t) ==
    /\ ResendDone(t) /\ fqOwner = "none"
    /\ m_fullQueues = <<>>
    /\ IF m_shutdown
         THEN Goto(t, "filter") /\ UNCHANGED fqOwner
         ELSE Goto(t, "takeQ") /\ fqOwner' = t
    /\ UNCHANGED <<bufferVars, flagVars, limitVars, qOwner, ppc, statsPc, reconfPc, dtor, ghostVars>>

takeQueue(t) ==
    /\ pc[t] = "takeQ" /\ qOwner = "none"
    /\ m_data' = Ptr(m_queue)
    /\ m_queue' = <<>>
    /\ fqOwner' = "none"
    /\ Goto(t, "filter")
    /\ UNCHANGED <<m_fullQueues, m_resendQueues, m_failCnt, fullQueue, sending, flagVars, limitVars,
                   qOwner, ppc, statsPc, reconfPc, dtor, ghostVars>>

\* No pipeline, a pipeline without filters, or one that is shutting down.
skipFilters(t) ==
    /\ pc[t] = "filter" /\ m_filterPipeline # "filters"
    /\ Goto(t, "append")
    /\ UNCHANGED <<bufferVars, flagVars, limitVars, lockVars, ppc, statsPc, reconfPc, dtor, ghostVars>>

\* new ReadingSet(m_data) and m_data->clear() when m_data is NULL.
filterNull(t) ==
    /\ pc[t] = "filter" /\ m_filterPipeline = "filters" /\ m_data = Null
    /\ Crash("nullData")
    /\ UNCHANGED <<bufferVars, flagVars, limitVars, lockVars, ghostVars>>

\* The pipeline passes on the first k of the readings it has, and drops or
\* keeps back the others; useFilteredData() puts what it passes on into m_data.
filterIngest(t) ==
    /\ pc[t] = "filter" /\ m_filterPipeline = "filters" /\ m_data # Null
    /\ LET in == held \o m_data[1] IN
       \E k \in 0..Len(in), mode \in FilterModes :
          LET out  == SubSeq(in, 1, k)
              rest == SubSeq(in, k + 1, Len(in))
          IN /\ held' = IF mode = "hold" THEN rest ELSE <<>>
             /\ filtered' = filtered \cup (IF mode = "drop" THEN Range(rest) ELSE {})
                                     \cup (IF m_isolate THEN Range(out) ELSE {})
             /\ IF out = <<>> \/ m_isolate
                  THEN m_data' = Null /\ Goto(t, ReturnPc(t))
                  ELSE m_data' = Ptr(out) /\ Goto(t, "append")
    /\ UNCHANGED <<m_queue, m_fullQueues, m_resendQueues, m_failCnt, fullQueue, sending, flagVars,
                   limitVars, lockVars, ppc, statsPc, reconfPc, dtor,
                   ingested, reconfigs, stored, discarded>>

\* readingAppend() of m_data is called; a NULL or empty m_data is not sent.
appendCall(t) ==
    /\ pc[t] = "append"
    /\ IF m_data # Null /\ m_data[1] # <<>>
         THEN sending' = m_data[1] /\ Goto(t, "appending") /\ UNCHANGED m_data
         ELSE m_data' = Null /\ Goto(t, "again") /\ UNCHANGED sending
    /\ UNCHANGED <<m_queue, m_fullQueues, m_resendQueues, m_failCnt, fullQueue, flagVars, limitVars,
                   lockVars, ppc, statsPc, reconfPc, dtor, ghostVars>>

\* readingAppend() returns; m_data may have grown since it was serialised.
appendOk(t) ==
    /\ pc[t] = "appending" /\ "ok" \in StorageOutcomes
    /\ stored' = stored \o sending
    /\ m_data' = Null
    /\ m_failCnt' = 0
    /\ sending' = <<>>
    /\ Goto(t, "again")
    /\ UNCHANGED <<m_queue, m_fullQueues, m_resendQueues, fullQueue, flagVars, limitVars, lockVars,
                   ppc, statsPc, reconfPc, dtor, held, ingested, reconfigs, discarded, filtered>>

appendFail(t, outcome) ==
    /\ pc[t] = "appending" /\ outcome \in StorageOutcomes \ {"ok"}
    /\ stored' = IF outcome = "unacked" THEN stored \o sending ELSE stored
    /\ m_resendQueues' = m_resendQueues \o m_data
    /\ m_data' = Null
    /\ m_failCnt' = 1
    /\ sending' = <<>>
    /\ Goto(t, "again")
    /\ UNCHANGED <<m_queue, m_fullQueues, fullQueue, flagVars, limitVars, lockVars,
                   ppc, statsPc, reconfPc, dtor, held, ingested, reconfigs, discarded, filtered>>

\* while (! m_fullQueues.empty())
processAgain(t) ==
    /\ pc[t] = "again"
    /\ Goto(t, IF m_fullQueues # <<>> THEN "resend" ELSE ReturnPc(t))
    /\ UNCHANGED <<bufferVars, flagVars, limitVars, lockVars, ppc, statsPc, reconfPc, dtor, ghostVars>>

processQueue(t) ==
    \/ resendOk(t) \/ (\E o \in StorageOutcomes : resendFail(t, o))
    \/ takeFullQueue(t) \/ noFullQueue(t) \/ takeQueue(t)
    \/ skipFilters(t) \/ filterNull(t) \/ filterIngest(t)
    \/ appendCall(t) \/ appendOk(t) \/ (\E o \in StorageOutcomes : appendFail(t, o))
    \/ processAgain(t)

----------------------------------------------------------------------------
(* Configuration changes, on the reconfiguration thread of the service.    *)

\* useFilteredData() called from the shutdown entry point of a filter: what
\* the filter kept back is appended to m_data, or is freed with the filter.
useFilteredData(flush) ==
    IF flush /\ ~m_isolate
      THEN /\ m_data' = (IF m_data = Null THEN Ptr(held) ELSE Ptr(m_data[1] \o held))
           /\ UNCHANGED filtered
      ELSE /\ filtered' = filtered \cup Range(held)
           /\ UNCHANGED m_data

cleanupFilters ==
    /\ held' = <<>>
    /\ \E flush \in (IF held = <<>> THEN {FALSE} ELSE BOOLEAN) : useFilteredData(flush)

\* handlePendingReconf() has seen isRunning() and takes a pending change.
handlePendingReconf ==
    /\ reconfPc = "idle" /\ dtor = "alive" /\ reconfigs < MaxReconfigs
    /\ reconfPc' = "begin" /\ reconfigs' = reconfigs + 1
    /\ UNCHANGED <<bufferVars, flagVars, limitVars, lockVars, ppc, pc, statsPc, dtor,
                   held, ingested, stored, discarded, filtered>>

\* The pipeline has changed: the running one is removed under the mutex.
configChangeStop ==
    /\ reconfPc = "begin" /\ m_filterPipeline \in {"empty", "filters"} /\ dtor # "destroyed"
    /\ m_running' = FALSE
    /\ cleanupFilters
    /\ m_filterPipeline' = "none"
    /\ reconfPc' = "load"
    /\ UNCHANGED <<m_queue, m_fullQueues, m_resendQueues, m_failCnt, fullQueue, sending,
                   m_shutdown, m_isolate, limitVars, lockVars, ppc, pc, statsPc, dtor,
                   ingested, reconfigs, stored, discarded>>

configChangeNoPipeline ==
    /\ reconfPc = "begin" /\ m_filterPipeline = "none" /\ dtor # "destroyed"
    /\ reconfPc' = "load"
    /\ UNCHANGED <<bufferVars, flagVars, limitVars, lockVars, ppc, pc, statsPc, dtor, ghostVars>>

\* The filters the destructor has already deleted are deleted again, or the
\* Ingest object itself is gone.
configChangeDangling ==
    /\ \/ reconfPc = "begin" /\ m_filterPipeline = "shutdown"
       \/ reconfPc \in {"begin", "load", "resume"} /\ dtor = "destroyed"
    /\ Crash("danglingPipeline")
    /\ UNCHANGED <<bufferVars, flagVars, limitVars, lockVars, ghostVars>>

\* loadFilters(): a pipeline that cannot be set up leaves none.
loadFilters ==
    /\ reconfPc = "load" /\ dtor # "destroyed"
    /\ m_filterPipeline' \in Pipelines
    /\ reconfPc' = "resume"
    /\ UNCHANGED <<bufferVars, m_running, m_shutdown, m_isolate, limitVars, lockVars,
                   ppc, pc, statsPc, dtor, ghostVars>>

\* mutant: m_running stays false after the pipeline was changed
configChangeResume_Forgotten ==
    /\ reconfPc = "resume" /\ dtor # "destroyed"
    /\ reconfPc' = "idle"
    /\ UNCHANGED <<bufferVars, flagVars, limitVars, lockVars, ppc, pc, statsPc, dtor, ghostVars>>

configChangeResume ==
    /\ reconfPc = "resume" /\ dtor # "destroyed"
    /\ m_running' = TRUE
    /\ reconfPc' = "idle"
    /\ UNCHANGED <<bufferVars, m_shutdown, m_filterPipeline, m_isolate, limitVars, lockVars,
                   ppc, pc, statsPc, dtor, ghostVars>>

setThreshold ==
    /\ reconfPc = "begin" /\ dtor # "destroyed"
    /\ m_queueSizeThreshold' \in Thresholds
    /\ reconfPc' = "idle"
    /\ UNCHANGED <<bufferVars, flagVars, limit, m_resourceGovernorActive, lockVars,
                   ppc, pc, statsPc, dtor, ghostVars>>

setResourceLimit ==
    /\ reconfPc = "begin" /\ dtor # "destroyed"
    /\ limit' \in Limits
    /\ m_resourceGovernorActive' = (m_resourceGovernorActive /\ limit'.type # "unlimited")
    /\ reconfPc' = "idle"
    /\ UNCHANGED <<bufferVars, flagVars, m_queueSizeThreshold, lockVars,
                   ppc, pc, statsPc, dtor, ghostVars>>

\* The debugger isolates the pipeline from the storage service, or reconnects
\* it, from a thread of the management API.
isolate ==
    /\ dtor = "alive" /\ reconfigs < MaxReconfigs
    /\ m_isolate' = ~m_isolate
    /\ reconfigs' = reconfigs + 1
    /\ UNCHANGED <<bufferVars, m_running, m_shutdown, m_filterPipeline, limitVars, lockVars,
                   threadVars, held, ingested, stored, discarded, filtered>>

reconfigure ==
    \/ configChangeStop \/ configChangeNoPipeline \/ configChangeDangling
    \/ loadFilters \/ configChangeResume
    \/ setThreshold \/ setResourceLimit

----------------------------------------------------------------------------
(* The statistics thread, and the destructor on the main thread.           *)

\* while (ingest->running()) updateStats(): the thread ends the first time it
\* finds m_running false.
statsThread ==
    /\ statsPc = "loop" /\ ~m_running
    /\ statsPc' = "exited"
    /\ UNCHANGED <<bufferVars, flagVars, limitVars, lockVars, ppc, pc, reconfPc, dtor, ghostVars>>

\* The plugin has been shut down, so no producer is in ingest().
dtorFlags ==
    /\ ShutdownAllowed
    /\ dtor = "alive" /\ \A p \in Producers : ppc[p] = "idle"
    /\ m_shutdown' = TRUE /\ m_running' = FALSE
    /\ dtor' = "flagged"
    /\ UNCHANGED <<bufferVars, m_filterPipeline, m_isolate, limitVars, lockVars,
                   ppc, pc, statsPc, reconfPc, ghostVars>>

dtorCleanup ==
    /\ dtor = "flagged"
    /\ IF m_filterPipeline = "none"
         THEN UNCHANGED <<m_filterPipeline, held, filtered, m_data>>
         ELSE m_filterPipeline' = "shutdown" /\ cleanupFilters
    /\ dtor' = "join"
    /\ UNCHANGED <<m_queue, m_fullQueues, m_resendQueues, m_failCnt, fullQueue, sending,
                   m_running, m_shutdown, m_isolate, limitVars, lockVars,
                   ppc, pc, statsPc, reconfPc, ingested, reconfigs, stored, discarded>>

dtorJoin ==
    /\ dtor = "join" /\ pc["ingest"] = "exited"
    /\ Goto("main", "resend")
    /\ dtor' = "process"
    /\ UNCHANGED <<bufferVars, flagVars, limitVars, lockVars, ppc, statsPc, reconfPc, ghostVars>>

\* The statistics thread is joined; what the queues still hold is deleted.
dtorFinish ==
    /\ dtor = "process" /\ pc["main"] = "exited" /\ statsPc = "exited"
    /\ m_queue' = <<>> /\ m_fullQueues' = <<>> /\ m_resendQueues' = <<>>
    /\ dtor' = "destroyed"
    /\ UNCHANGED <<m_data, m_failCnt, fullQueue, sending, flagVars, limitVars, lockVars,
                   ppc, pc, statsPc, reconfPc, ghostVars>>

destructor == dtorCleanup \/ dtorJoin \/ dtorFinish

----------------------------------------------------------------------------
Crashed == dtor \in Crashes

Terminated ==
    /\ Crashed \/ (dtor = "destroyed" /\ reconfPc = "idle")
    /\ UNCHANGED vars

ingestReturn(p) == enforceResourceLimits(p) \/ ingestRelease(p) \/ ingestPush(p)

ingestLoop == ingestThread \/ waitForQueue \/ calculateWaitTime \/ processQueue("ingest")

Next ==
    \/ \E p \in Producers : ingestAppend(p) \/ ingestReturn(p)
    \/ ingestLoop \/ processQueue("main")
    \/ handlePendingReconf \/ reconfigure \/ isolate
    \/ statsThread
    \/ dtorFlags \/ destructor
    \/ Terminated

(***************************************************************************)
(* Every thread that can run does so: the operating system schedules it,   *)
(* a timed wait ends, and a call of the storage service returns.  Nothing  *)
(* forces a reading to be produced, a configuration to change, or the      *)
(* service to be shut down.  A thread that waits for m_qMutex or m_fqMutex *)
(* gets it if the mutex is released again and again (strong fairness): the *)
(* other threads hold it for a few instructions and then do something      *)
(* else, so no waiter loses every race.                                    *)
(***************************************************************************)
Fairness ==
    /\ \A p \in Producers : SF_vars(ingestReturn(p))
    /\ SF_vars(ingestLoop)
    /\ WF_vars(processQueue("main"))
    /\ WF_vars(reconfigure)
    /\ WF_vars(statsThread)
    /\ WF_vars(destructor)

Spec == Init /\ [][Next]_vars

FairSpec == Spec /\ Fairness

----------------------------------------------------------------------------
(* Properties.                                                             *)

FlagType ==
    /\ m_running \in BOOLEAN /\ m_shutdown \in BOOLEAN /\ m_isolate \in BOOLEAN
    /\ m_resourceGovernorActive \in BOOLEAN

BufferType ==
    /\ m_queue \in Block /\ sending \in Block /\ held \in Block /\ stored \in Block
    /\ m_fullQueues \in Seq(Block) /\ m_resendQueues \in Seq(Block)
    /\ m_data \in Seq(Block) /\ Len(m_data) <= 1
    /\ fullQueue \in [Producers -> Seq(Block)]
    /\ discarded \in SUBSET Reading /\ filtered \in SUBSET Reading
    /\ ingested \in Nat /\ reconfigs \in Nat
    /\ m_failCnt \in 0..MaxFailures

ControlType ==
    /\ m_filterPipeline \in {"none", "empty", "filters", "shutdown"}
    /\ m_queueSizeThreshold \in Thresholds /\ limit \in Limits
    /\ qOwner \in Producers \cup {"none"}
    /\ fqOwner \in Senders \cup {"none"}
    /\ ppc \in [Producers -> {"idle", "locked", "push", "dead"}]
    /\ pc \in [Senders -> ProcessPcs]
    /\ statsPc \in {"loop", "exited", "dead"}
    /\ reconfPc \in {"idle", "begin", "load", "resume", "dead"}
    /\ dtor \in {"alive", "flagged", "join", "process", "destroyed"} \cup Crashes

\* Every variable keeps its type: m_data points to at most one block, and the
\* failure count stays within the limit at which readings are removed.
TypeOK == FlagType /\ BufferType /\ ControlType

BlockReadings(bs) == UNION {Range(b) : b \in Range(bs)}

Buffered ==
    Range(m_queue) \cup BlockReadings(m_fullQueues) \cup BlockReadings(m_resendQueues)
      \cup BlockReadings(m_data) \cup UNION {BlockReadings(fullQueue[p]) : p \in Producers}
      \cup Range(held)

Settled == Range(stored) \cup discarded \cup filtered

(***************************************************************************)
(* Until the destructor deletes the queues, every reading given to         *)
(* ingest() is still buffered, or is stored, or was removed by a filter,   *)
(* or was counted as discarded: no hand-over between the plugin threads,   *)
(* the ingest thread, the filter pipeline and the resend queue drops one.  *)
(***************************************************************************)
NoSilentLoss == dtor # "destroyed" /\ ~Crashed => 1..ingested \subseteq Buffered \cup Settled

(***************************************************************************)
(* processQueue() empties the resend queue before it takes new data, so    *)
(* there is never more than one block to resend, and while a fresh block   *)
(* is in hand there is none.                                               *)
(***************************************************************************)
OneResendBlock ==
    /\ Len(m_resendQueues) <= 1
    /\ (\E t \in Senders : pc[t] \in {"takeQ", "filter", "append", "appending"})
           => m_resendQueues = <<>>

(***************************************************************************)
(* What NoSilentLoss and OneResendBlock rest on.  Only one thread is in    *)
(* processQueue(): the main thread enters it when the ingest thread has    *)
(* ended.                                                                  *)
(***************************************************************************)
SoleSender ==
    /\ pc["main"] \in {"idle", "dead"} \/ pc["ingest"] = "exited"
    /\ dtor \in {"alive", "flagged", "join"} => pc["main"] = "idle"

\* If no filter keeps readings back, m_data points to a block only between
\* the statement that takes the block and the one that deletes it, what is on
\* its way to the storage service is that block, and the local of ingest() is
\* set only while the block it points to has to be pushed.
Custody ==
    /\ held = <<>>
    /\ \/ m_data = Null \/ Crashed
       \/ \E t \in Senders : pc[t] \in {"filter", "append", "appending"}
    /\ \A t \in Senders : pc[t] = "appending" => m_data = Ptr(sending)
    /\ \A p \in Producers : fullQueue[p] # Null => ppc[p] \in {"push", "dead"}

(***************************************************************************)
(* Every reading given to ingest() is in the end stored, discarded and     *)
(* counted, removed by a filter or kept by one, even if the storage        *)
(* service fails for ever, unless the service is shut down before.         *)
(***************************************************************************)
EveryReadingSettles ==
    \A r \in 1..MaxReadings :
        (r <= ingested) ~> (r \in Settled \cup Range(held) \/ dtor # "alive")

(***************************************************************************)
(* ingest() returns to the plugin: the loop of enforceResourceLimits(),    *)
(* which holds m_qMutex, comes to an end.  It only removes readings from   *)
(* m_queue, so this rests on the full blocks staying within the limit; it  *)
(* holds while nothing is reconfigured and not otherwise ("dead": the      *)
(* process died meanwhile, at a NULL m_data).                              *)
(***************************************************************************)
IngestReturns == \A p \in Producers : (ppc[p] # "idle") ~> (ppc[p] \in {"idle", "dead"})


=============================================================================
