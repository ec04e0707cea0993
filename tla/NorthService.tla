---------------------------- MODULE NorthService ----------------------------
(***************************************************************************)
(* A north service: class DataLoad, whose thread reads blocks of readings  *)
(* from the storage service ahead of need, class DataSender, whose thread  *)
(* passes them to the north plugin, and the main thread of NorthService,   *)
(* which restarts the plugin and shuts the two down.                       *)
(*                                                                         *)
(* A reading is its id; a reading made by a filter has no id, which is 0.  *)
(* The position in the stream, last_object, is all that survives a crash.  *)
(***************************************************************************)
EXTENDS Integers, Sequences, FiniteSets, FiniteSetsExt, Functions

CONSTANTS
    MaxReadings,      \* bound: readings that reach the storage service
    m_blockSize, m_prefetchLimit,
    StreamUpdates,    \* values of the item streamUpdate
    MaxWaitCount,     \* max_wait_count: empty reads before the position is written
    FilterOutcomes,   \* what the pipeline may do to a block
    SendOutcomes,     \* what plugin_send may do: "all", "part", "none", "unacked"
    ShutdownAllowed,
    MaxFaults,        \* bound: blocks that filters change, sends that fail and writes that
                      \* are refused, together
    MaxRestarts       \* bound: restarts of the plugin, crashes and further starts, together

ASSUME ConstantsAssumption ==
    /\ {m_blockSize, m_prefetchLimit} \cup StreamUpdates \subseteq Nat \ {0}
    /\ {MaxReadings, MaxWaitCount, MaxFaults, MaxRestarts} \subseteq Nat
    /\ FilterOutcomes \subseteq {"pass", "dropLast", "dropAll", "replace"}
    /\ SendOutcomes \subseteq {"all", "part", "none", "unacked"}
    /\ ShutdownAllowed \in BOOLEAN

VARIABLES
    stored,             \* the storage service holds the readings 1..stored
    last_object,        \* the row of the stream in the table streams
    \* DataLoad
    lpc, m_readRequest, m_lastFetched, m_queue,
    loaded,             \* pointer to the block the loading thread holds
    n_update_streamId,
    m_streamSent, m_nextStreamUpdate, m_streamUpdate, m_flushRequired,
    loadShutdown,       \* m_shutdown of DataLoad
    \* DataSender
    spc,
    readings,           \* pointer to the block being sent
    m_paused, m_sending,
    sendShutdown,       \* m_shutdown of DataSender
    payload,            \* the position each thread is writing
    mpc,                \* the main thread
    \* history
    accepted,           \* blocks the north system got from this process, in order
    delivered, filtered, overtaken, cut, \* sets of readings
    missed,             \* a thread that was about to wait missed the shutdown
    filterings, failures, lostWrites, restarts, ends

storeVars  == <<stored, last_object>>
loadVars   == <<m_readRequest, m_lastFetched, m_queue, loaded, n_update_streamId>>
streamVars == <<m_streamSent, m_nextStreamUpdate, m_streamUpdate, m_flushRequired>>
pauseVars  == <<m_paused, m_sending>>
mainVars   == <<mpc, lostWrites, loadShutdown, sendShutdown, missed, restarts, ends>>
ghostVars  == <<accepted, delivered, filtered, overtaken, cut, filterings, failures>>
vars == <<storeVars, lpc, loadVars, streamVars, spc, readings, pauseVars, payload, mainVars, ghostVars>>

Threads == {"load", "send"}

\* One more is within the bound.
SpareFault   == filterings + failures + lostWrites < MaxFaults
SpareRestart == restarts + ends < MaxRestarts

Null    == <<>>
Ptr(b)  == <<b>>

\* The last id in a block, 0 if there is none: the readings are searched
\* backwards for one that has an id.
lastId(b) == IF b = <<>> THEN 0 ELSE Max(Range(b))

Ids(b) == Range(b) \ {0}

\* A process that has just been started: DataLoad::DataLoad() reads the
\* position, and the threads begin.
Start(position, update) ==
    /\ lpc' = "top" /\ m_readRequest' = FALSE /\ m_queue' = <<>>
    /\ loaded' = Null /\ n_update_streamId' = 0
    /\ m_lastFetched' = position /\ m_streamSent' = position
    /\ m_streamUpdate' = update /\ m_nextStreamUpdate' = update
    /\ m_flushRequired' = FALSE
    /\ spc' = "top" /\ readings' = Null
    /\ m_paused' = FALSE /\ m_sending' = FALSE
    /\ payload' = [t \in Threads |-> 0]
    /\ mpc' = "run" /\ loadShutdown' = FALSE /\ sendShutdown' = FALSE /\ missed' = FALSE
    /\ accepted' = <<>>

Init ==
    /\ stored = 0 /\ last_object = 0
    /\ lpc = "top" /\ m_readRequest = FALSE /\ m_queue = <<>>
    /\ loaded = Null /\ n_update_streamId = 0
    /\ m_lastFetched = 0 /\ m_streamSent = 0
    /\ m_streamUpdate \in StreamUpdates /\ m_nextStreamUpdate = m_streamUpdate
    /\ m_flushRequired = FALSE
    /\ spc = "top" /\ readings = Null
    /\ m_paused = FALSE /\ m_sending = FALSE
    /\ payload = [t \in Threads |-> 0]
    /\ mpc = "run" /\ loadShutdown = FALSE /\ sendShutdown = FALSE /\ missed = FALSE
    /\ accepted = <<>> /\ delivered = {} /\ filtered = {} /\ overtaken = {} /\ cut = {}
    /\ filterings = 0 /\ failures = 0 /\ lostWrites = 0 /\ restarts = 0 /\ ends = 0

\* A reading reaches the storage service.
readingAppend ==
    /\ stored < MaxReadings
    /\ stored' = stored + 1
    /\ UNCHANGED <<last_object, lpc, loadVars, streamVars, spc, readings, pauseVars, payload,
                   mainVars, ghostVars>>

----------------------------------------------------------------------------
(* Mutexes.  The sending thread holds m_qMutex while it decides to wait in *)
(* fetchReadings(), the loading thread m_mutex in waitForReadRequest().    *)

QMutexFree == spc \notin {"recheck", "prewait"}
MutexFree  == lpc # "prewait"

\* notify_all() reaches a thread that waits, and no other.
WakeLoader == IF lpc = "waiting" THEN "request" ELSE lpc
WakeSender == IF spc = "waiting" THEN "fetch" ELSE spc

\* mutant: the loading thread is not notified
triggerRead_Silent == MutexFree /\ m_readRequest' = TRUE /\ UNCHANGED lpc

triggerRead == MutexFree /\ m_readRequest' = TRUE /\ lpc' = WakeLoader

----------------------------------------------------------------------------
(* The position in the stream.                                             *)

\* mutant: the count of blocks is never looked at
FlushNow_Never == FALSE

FlushNow == m_nextStreamUpdate <= 0

\* updateLastSentId() up to the call of flushLastSentId().
updateLastSentId(id) ==
    /\ m_streamSent' = id /\ m_flushRequired' = TRUE
    /\ m_nextStreamUpdate' = m_nextStreamUpdate - 1
    /\ UNCHANGED m_streamUpdate

\* The readings up to id that the north system did not get.
Unsent(id, removed) == (1..id) \ (delivered \cup removed)

\* flushLastSentId() builds its request from m_streamSent ...
flushBegin(t) == payload' = [payload EXCEPT ![t] = m_streamSent]

\* The storage service stores the position, or fails; the result is not looked at.
writePosition(p) ==
    \/ last_object' = p /\ UNCHANGED lostWrites
    \/ SpareFault /\ lostWrites' = lostWrites + 1 /\ UNCHANGED last_object

\* ... which the storage service executes later; updateLastSentId() then
\* starts to count again.
flushEnd(t, counted) ==
    /\ writePosition(payload[t])
    /\ m_nextStreamUpdate' = IF counted THEN m_streamUpdate ELSE m_nextStreamUpdate
    /\ UNCHANGED <<stored, m_streamSent, m_streamUpdate, m_flushRequired, payload,
                   mpc, loadShutdown, sendShutdown, missed, restarts, ends>>

----------------------------------------------------------------------------
(* The loading thread: loadThread(), waitForReadRequest(), readBlock().    *)

loadOthers == <<spc, readings, pauseVars, mainVars, ghostVars>>

PrefetchMore == Len(m_queue) < m_prefetchLimit

loadThread ==
    /\ \/ lpc = "top"  /\ lpc' = IF loadShutdown THEN "exited" ELSE "request"
       \/ lpc = "loop" /\ lpc' = IF ~loadShutdown /\ PrefetchMore
                                 THEN "read" ELSE "top"
    /\ n_update_streamId' = 0
    /\ UNCHANGED <<storeVars, m_readRequest, m_lastFetched, m_queue, loaded, streamVars, payload, loadOthers>>

waitForReadRequest ==
    /\ \/ /\ lpc = "request" /\ ~loadShutdown /\ ~m_readRequest
          /\ lpc' = "prewait" /\ UNCHANGED m_readRequest
       \/ /\ lpc = "prewait"
          /\ lpc' = "waiting" /\ UNCHANGED m_readRequest
       \/ /\ lpc = "request" /\ (loadShutdown \/ m_readRequest)
          /\ lpc' = "loop" /\ m_readRequest' = FALSE
    /\ UNCHANGED <<storeVars, m_lastFetched, m_queue, loaded, n_update_streamId, streamVars, payload, loadOthers>>

\* readingFetch(m_lastFetched + 1, blockSize)
NextBlock == [i \in 1 .. Min({m_blockSize, stored - m_lastFetched}) |-> m_lastFetched + i]

\* One turn of the loop of readBlock() that finds readings.
readBlock ==
    /\ lpc = "read" /\ m_lastFetched < stored
    /\ loaded' = Ptr(NextBlock)
    /\ m_lastFetched' = lastId(NextBlock)
    /\ lpc' = "buffer"
    /\ UNCHANGED <<storeVars, m_readRequest, m_queue, n_update_streamId, streamVars, payload, loadOthers>>

\* The end of the loop of readBlock(), if nothing was found.
ReadAgain == IF loadShutdown THEN "loop" ELSE "read"

\* mutant: the position is not written
flushIdle_None == lpc' = ReadAgain /\ UNCHANGED payload

flushIdle == flushBegin("load") /\ lpc' = "flush"

\* One turn that finds none; every so often the position is written.
readNothing ==
    /\ lpc = "read" /\ m_lastFetched >= stored
    /\ IF n_update_streamId + 1 > MaxWaitCount
         THEN n_update_streamId' = 0 /\ flushIdle
         ELSE n_update_streamId' = n_update_streamId + 1 /\ lpc' = ReadAgain /\ UNCHANGED payload
    /\ UNCHANGED <<storeVars, m_readRequest, m_lastFetched, m_queue, loaded, streamVars, loadOthers>>

\* The storage service does not answer.  That changes nothing, and there is
\* another turn until the shutdown.
readFails ==
    /\ lpc = "read" /\ loadShutdown /\ lpc' = ReadAgain
    /\ UNCHANGED <<storeVars, loadVars, streamVars, payload, loadOthers>>

ApplyFilter(f, b) ==
    CASE f = "pass"     -> b
      [] f = "dropLast" -> SubSeq(b, 1, Len(b) - 1)
      [] f = "dropAll"  -> <<>>
      [] f = "replace"  -> <<0>>

\* bufferReadings() runs the filters; pipelineEnd() records the whole block as
\* sent if no reading with an id is left of it.
bufferReadings(f) ==
    /\ lpc = "buffer"
    /\ LET b   == loaded[1]
           out == ApplyFilter(f, b)
       IN /\ loaded' = Ptr(out)
          /\ filtered' = filtered \cup (Range(b) \ Range(out))
          /\ IF f = "pass" THEN UNCHANGED filterings ELSE SpareFault /\ filterings' = filterings + 1
          /\ IF lastId(out) = 0
               THEN /\ updateLastSentId(m_lastFetched)
                    /\ lpc' = IF FlushNow THEN "flushBegin" ELSE "push"
                    /\ overtaken' = overtaken \cup Unsent(m_lastFetched, filtered')
               ELSE lpc' = "push" /\ UNCHANGED <<streamVars, overtaken>>
    /\ UNCHANGED <<storeVars, m_readRequest, m_lastFetched, m_queue, n_update_streamId, payload,
                   spc, readings, pauseVars, mainVars, accepted, delivered, cut, failures>>

loadFlushBegin ==
    /\ lpc = "flushBegin" /\ flushBegin("load") /\ lpc' = "flush"
    /\ UNCHANGED <<storeVars, loadVars, streamVars, loadOthers>>

\* The request was made by updateLastSentId() if the thread holds a block.
loadFlushEnd ==
    /\ lpc = "flush"
    /\ flushEnd("load", loaded # Null)
    /\ lpc' = IF loaded # Null THEN "push" ELSE ReadAgain
    /\ UNCHANGED <<loadVars, spc, readings, pauseVars, ghostVars>>

\* mutant: the block is put in front of the others
enqueue_Front(q, b) == <<b>> \o q

enqueue(q, b) == Append(q, b)

\* The end of bufferReadings() or pipelineEnd().
pushReadings ==
    /\ lpc = "push" /\ QMutexFree
    /\ m_queue' = enqueue(m_queue, loaded[1])
    /\ loaded' = Null
    /\ spc' = WakeSender
    /\ lpc' = "loop"
    /\ UNCHANGED <<storeVars, m_readRequest, m_lastFetched, n_update_streamId, streamVars, payload,
                   readings, pauseVars, mainVars, ghostVars>>

----------------------------------------------------------------------------
(* The sending thread: sendThread(), fetchReadings(), send().              *)

sendOthers == <<m_lastFetched, loaded, n_update_streamId, mainVars, filtered, filterings>>

\* The head of the loop of sendThread().
sendThread ==
    /\ spc = "top"
    /\ spc' = IF sendShutdown THEN "exited" ELSE IF readings = Null THEN "fetch" ELSE "send"
    /\ UNCHANGED <<storeVars, lpc, m_readRequest, m_queue, streamVars, readings, pauseVars, payload, sendOthers,
                   accepted, delivered, overtaken, cut, failures>>

\* fetchReadings(): the queue is empty, a read is requested ...
fetchTrigger ==
    /\ spc = "fetch" /\ ~loadShutdown /\ m_queue = <<>>
    /\ triggerRead /\ spc' = "recheck"
    /\ UNCHANGED <<storeVars, m_queue, streamVars, readings, pauseVars, payload, sendOthers,
                   accepted, delivered, overtaken, cut, failures>>

\* ... and the thread waits, unless there is a shutdown; the mutex is released
\* by the wait.
fetchWait ==
    /\ \/ spc = "recheck" /\ spc' = IF loadShutdown THEN "exited" ELSE "prewait"
       \/ spc = "prewait" /\ spc' = "waiting"
    /\ UNCHANGED <<storeVars, lpc, m_readRequest, m_queue, streamVars, readings, pauseVars, payload, sendOthers,
                   accepted, delivered, overtaken, cut, failures>>

\* The queue is below the limit once its first block is taken.
Refill == Len(m_queue) <= m_prefetchLimit /\ ~loadShutdown

\* fetchReadings() takes the first block, if there is one, and requests another.
fetchReadings ==
    /\ spc = "fetch" /\ (loadShutdown \/ m_queue # <<>>)
    /\ IF m_queue = <<>>
         THEN spc' = "exited" /\ UNCHANGED <<readings, m_queue>>
         ELSE spc' = "send" /\ readings' = Ptr(Head(m_queue)) /\ m_queue' = Tail(m_queue)
    /\ IF Refill THEN triggerRead ELSE UNCHANGED <<m_readRequest, lpc>>
    /\ UNCHANGED <<storeVars, streamVars, pauseVars, payload, sendOthers,
                   accepted, delivered, overtaken, cut, failures>>

\* A block without readings: everything that was fetched is recorded as sent.
sendEmpty ==
    /\ spc = "send" /\ ~sendShutdown /\ readings[1] = <<>>
    /\ updateLastSentId(m_lastFetched)
    /\ overtaken' = overtaken \cup Unsent(m_lastFetched, filtered)
    /\ readings' = Null
    /\ spc' = IF FlushNow THEN "flushBegin" ELSE "top"
    /\ UNCHANGED <<storeVars, lpc, m_readRequest, m_queue, pauseVars, payload, sendOthers,
                   accepted, delivered, cut, failures>>

sendStop ==
    /\ spc = "send" /\ sendShutdown
    /\ readings' = Null /\ spc' = "top"
    /\ UNCHANGED <<storeVars, lpc, m_readRequest, m_queue, streamVars, pauseVars, payload, sendOthers,
                   accepted, delivered, overtaken, cut, failures>>

\* mutant: the sender does not look at m_paused
blockPause_Ignored == m_sending' = TRUE

blockPause == ~m_paused /\ m_sending' = TRUE

\* send() calls the plugin.
sendBegin ==
    /\ spc = "send" /\ ~sendShutdown /\ readings[1] # <<>>
    /\ blockPause /\ spc' = "sending"
    /\ UNCHANGED <<storeVars, lpc, m_readRequest, m_queue, streamVars, readings, m_paused, payload, sendOthers,
                   accepted, delivered, overtaken, cut, failures>>

\* The readings the north system gets.
Got(outcome) ==
    CASE outcome \in {"all", "unacked"} -> readings[1]
      [] outcome = "part"               -> SubSeq(readings[1], 1, 1)
      [] outcome = "none"               -> <<>>

\* A block that was not sent is kept, and sent again.
removeReadings(sent) == spc' = (IF sent THEN "record" ELSE "top") /\ UNCHANGED readings

\* The plugin returns and releasePause() is called.  If it sent anything the
\* whole block is taken as sent; its readings are removed.
sendEnd(outcome) ==
    /\ spc = "sending" /\ m_sending' = FALSE
    /\ outcome = "part" => Len(readings[1]) > 1
    /\ accepted' = IF Got(outcome) = <<>> THEN accepted ELSE Append(accepted, Got(outcome))
    /\ delivered' = delivered \cup Ids(Got(outcome))
    /\ cut' = IF outcome = "part" THEN cut \cup (Ids(readings[1]) \ delivered') ELSE cut
    /\ removeReadings(outcome \in {"all", "part"})
    /\ IF outcome = "all" THEN UNCHANGED failures
         ELSE SpareFault /\ failures' = failures + 1
    /\ UNCHANGED <<storeVars, lpc, m_readRequest, m_queue, streamVars, m_paused, payload, sendOthers, overtaken>>

\* mutant: the position of the reader is recorded
SentId_Fetched == m_lastFetched

SentId == lastId(readings[1])

\* sendThread() records the last id of the block; a block without ids is left
\* empty, and handled by sendEmpty.
recordSent ==
    /\ spc = "record"
    /\ IF SentId # 0
         THEN /\ updateLastSentId(SentId) /\ readings' = Null
              /\ spc' = IF FlushNow THEN "flushBegin" ELSE "top"
         ELSE /\ readings' = Ptr(<<>>) /\ spc' = "top" /\ UNCHANGED streamVars
    /\ UNCHANGED <<storeVars, lpc, m_readRequest, m_queue, pauseVars, payload, sendOthers,
                   accepted, delivered, overtaken, cut, failures>>

sendFlush ==
    /\ \/ /\ spc = "flushBegin" /\ flushBegin("send") /\ spc' = "flush"
          /\ UNCHANGED <<storeVars, streamVars, mainVars>>
       \/ spc = "flush" /\ flushEnd("send", TRUE) /\ spc' = "top"
    /\ UNCHANGED <<lpc, loadVars, readings, pauseVars, filtered, filterings,
                   accepted, delivered, overtaken, cut, failures>>

----------------------------------------------------------------------------
(* The main thread: restartPlugin(), and the end of NorthService::start(). *)

mainOthers == <<stored, m_readRequest, m_lastFetched, m_queue, loaded, n_update_streamId, streamVars,
                readings, m_sending, payload, ghostVars>>

\* pause() returns once nothing is being sent; the plugin is deleted and loaded
\* again with the new configuration.
pause ==
    /\ mpc = "run" /\ SpareRestart /\ ~m_sending
    /\ m_paused' = TRUE /\ mpc' = "restart" /\ restarts' = restarts + 1
    /\ UNCHANGED <<last_object, lpc, spc, loadShutdown, sendShutdown, missed, lostWrites, ends, mainOthers>>

release ==
    /\ mpc = "restart"
    /\ m_paused' = FALSE /\ mpc' = "run"
    /\ UNCHANGED <<last_object, lpc, spc, loadShutdown, sendShutdown, missed, lostWrites, restarts, ends, mainOthers>>

\* mutant: the sending thread is not notified
notifySender_Silent == UNCHANGED spc

notifySender == spc' = WakeSender

\* DataLoad::shutdown(): the flag is set and the waiting threads are notified,
\* without the mutexes.
shutdown ==
    /\ mpc = "run" /\ ShutdownAllowed
    /\ loadShutdown' = TRUE /\ lpc' = WakeLoader /\ notifySender
    /\ missed' = (spc = "prewait")
    /\ mpc' = "deleteSender"
    /\ UNCHANGED <<last_object, m_paused, sendShutdown, lostWrites, restarts, ends, mainOthers>>

\* ~DataSender(): set the flag, then join the thread.
deleteSender ==
    /\ \/ /\ mpc = "deleteSender" /\ sendShutdown' = TRUE /\ mpc' = "joinSender"
          /\ UNCHANGED <<lpc, missed>>
       \/ /\ mpc = "joinSender" /\ spc = "exited" /\ mpc' = "joinLoader"
          /\ lpc' = WakeLoader /\ missed' = (missed \/ lpc = "prewait") /\ UNCHANGED sendShutdown
    /\ UNCHANGED <<last_object, spc, m_paused, loadShutdown, lostWrites, restarts, ends, mainOthers>>

finalPosition == IF m_flushRequired THEN m_streamSent ELSE last_object

\* ~DataLoad(), which notified the loading thread, joins it and writes the
\* position.
deleteLoader ==
    /\ mpc = "joinLoader" /\ lpc = "exited"
    /\ writePosition(finalPosition)
    /\ mpc' = IF lostWrites' = lostWrites THEN "ended" ELSE "endedStale"
    /\ UNCHANGED <<lpc, spc, m_paused, loadShutdown, sendShutdown, missed, restarts, ends, mainOthers>>

\* The process dies, or has ended, and is started again.
restart ==
    /\ SpareRestart /\ ends' = ends + 1
    /\ \E u \in StreamUpdates : Start(last_object, u)
    /\ UNCHANGED <<storeVars, lostWrites, restarts, delivered, filtered, overtaken, cut, filterings, failures>>

----------------------------------------------------------------------------

loader == \/ loadThread \/ waitForReadRequest \/ readBlock \/ readNothing \/ readFails
          \/ loadFlushBegin \/ loadFlushEnd \/ pushReadings
          \/ \E f \in FilterOutcomes : bufferReadings(f)

sender == \/ sendThread \/ fetchTrigger \/ fetchWait \/ fetchReadings \/ sendEmpty \/ sendStop
          \/ sendBegin \/ recordSent \/ sendFlush
          \/ \E o \in SendOutcomes : sendEnd(o)

Next ==
    \/ readingAppend \/ loader \/ sender
    \/ pause \/ release \/ shutdown \/ deleteSender \/ deleteLoader \/ restart

Spec == Init /\ [][Next]_vars

\* The threads run and the main thread ends what it began.  The storage service
\* answers a read in the end, and MaxFaults bounds the failures of the north
\* system.
FairSpec ==
    Spec /\ WF_vars(loader) /\ WF_vars(sender) /\ WF_vars(release \/ deleteSender \/ deleteLoader)

----------------------------------------------------------------------------
(* Properties.                                                             *)

Pointer(p) == p = Null \/ (Len(p) = 1 /\ Range(p[1]) \subseteq 0..MaxReadings)

\* Every variable keeps its type; the queue never holds more blocks than the
\* prefetch limit.
TypeOK ==
    /\ stored \in 0..MaxReadings /\ {last_object, m_lastFetched, m_streamSent} \subseteq 0..stored
    /\ Pointer(loaded) /\ Pointer(readings) /\ \A i \in DOMAIN m_queue : Pointer(<<m_queue[i]>>)
    /\ Len(m_queue) <= m_prefetchLimit
    /\ m_nextStreamUpdate \in -2..m_streamUpdate /\ m_streamUpdate \in StreamUpdates
    /\ {m_readRequest, m_flushRequired, m_paused, m_sending, loadShutdown, sendShutdown} \subseteq BOOLEAN
    /\ \A t \in Threads : payload[t] \in 0..stored

\* The positions the threads are writing or may write.
Pending == {m_streamSent} \cup {payload[t] : t \in {u \in Threads : (IF u = "load" THEN lpc ELSE spc) = "flush"}}

Stream == INSTANCE StreamPosition WITH
            handled <- delivered \cup filtered \cup overtaken \cup cut,
            reached <- m_streamSent, pending <- Pending

(***************************************************************************)
(* The service implements StreamPosition: the two threads move the         *)
(* position only over readings that were sent or removed by a filter,      *)
(* write only positions they had reached (an older one may be written over *)
(* a newer one), and a new process begins with what was written.  The      *)
(* exceptions are the readings fetched when a block without readings was   *)
(* recorded (overtaken), and the rest of a block that was sent in part.    *)
(***************************************************************************)
StreamPromise == Stream!Spec

(***************************************************************************)
(* One process gives the north system the readings in their order, and a   *)
(* block, or the beginning of it, twice only if the plugin did not say     *)
(* that it was sent; what waits in the buffers comes after it.             *)
(***************************************************************************)
SentInOrder ==
    LET path == accepted \o readings \o m_queue \o loaded
    IN \A i, j \in 1..Len(path) : i < j =>
          \/ Ids(path[i]) = {} \/ Ids(path[j]) = {}
          \/ Max(Ids(path[i])) < Min(Ids(path[j]))
          \/ /\ i <= Len(accepted) /\ j <= Len(accepted) + 1
             /\ Ids(path[i]) \subseteq Ids(path[j]) \/ Ids(path[j]) \subseteq Ids(path[i])

\* The plugin is not called while restartPlugin() deletes and loads it.
PluginExclusive == mpc = "restart" => spc # "sending"

\* Readings do not stay behind: while the service runs, again and again every
\* reading that reached the storage service has been passed to the north system,
\* was removed by a filter or is one of the exceptions of StreamPromise.
EverythingSent ==
    []<>(mpc \notin {"run", "restart"} \/ 1..stored \subseteq delivered \cup filtered \cup overtaken \cup cut)

(***************************************************************************)
(* What was sent is recorded: while the service runs, again and again the  *)
(* row of the stream holds the position that was reached, although the     *)
(* sender writes it only every few blocks, an older request of the other   *)
(* thread may be executed after it, and the storage service may refuse it. *)
(***************************************************************************)
PositionCatchesUp == []<>(mpc \notin {"run", "restart"} \/ last_object = m_streamSent)

(***************************************************************************)
(* NorthService::start(): shutdown() makes a blocked fetch return, the     *)
(* threads end and are joined.  The exception is a thread that tested      *)
(* m_shutdown and was about to wait: the notification, sent without its    *)
(* mutex, passes it by, and the join never returns.                        *)
(***************************************************************************)
NorthStops == []<>(mpc \notin {"deleteSender", "joinSender", "joinLoader"} \/ missed)
=============================================================================
