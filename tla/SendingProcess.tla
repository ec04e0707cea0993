--------------------------- MODULE SendingProcess ---------------------------
(***************************************************************************)
(* A north task: the sending process, which runs for a while and ends.     *)
(* loadDataThread() reads blocks of readings from the storage service into *)
(* a ring of buffers, sendDataThread() passes them to the north plugin,    *)
(* and main() stops the two.  One condition variable without a predicate   *)
(* serves both: a thread looks at its buffer, and waits some steps later.  *)
(*                                                                         *)
(* A reading is its id; a reading made by a filter has the id 0.           *)
(***************************************************************************)
EXTENDS Integers, Sequences, FiniteSets, FiniteSetsExt, Functions, SequencesExt

CONSTANTS
    MaxReadings,         \* bound: readings that reach the storage service
    memoryBufferSize, m_block_size,
    FilterOutcomes,      \* what the pipeline may do to a block
    SendOutcomes,        \* what plugin_send may do: "all", "part", "none", "unacked"
    MaxTroubles          \* bound: blocks that filters change, sends that fail, writes
                         \* that are refused, crashes and further starts, together

ASSUME ConstantsAssumption ==
    /\ {memoryBufferSize, m_block_size} \subseteq Nat \ {0}
    /\ {MaxReadings, MaxTroubles} \subseteq Nat
    /\ FilterOutcomes \subseteq {"pass", "dropAll", "grow", "keep"}
    /\ SendOutcomes \subseteq {"all", "part", "none", "unacked"}

VARIABLES
    stored,              \* the storage service holds the readings 1..stored
    last_object,         \* the row of the stream in the table streams
    statistics,          \* the rows of the table statistics
    m_running,
    m_buffer,            \* slot -> pointer to a block
    m_last_read_id,      \* slot -> last id of the block before it was filtered
    lpc, readIdx, m_last_fetch_id,
    spc, sendIdx, sentReadings,
    dbCall,              \* the call of updateDatabaseCounters() that is next
    m_last_sent_id, m_tot_sent, m_update_db,
    mpc, exitCode,
    \* history
    delivered, filtered, overtaken, cut, \* sets of readings
    told,                \* readings that plugin_send said it had sent
    kept,                \* a filter kept a block of this process
    missed,              \* threads that were notified on their way to wait
    filterings, failures, lostWrites, restarts

tableVars == <<last_object, statistics>>
ringVars  == <<m_buffer, m_last_read_id>>
loadVars  == <<lpc, readIdx, m_last_fetch_id>>
sendVars  == <<spc, sendIdx, sentReadings, dbCall>>
countVars == <<m_last_sent_id, m_tot_sent, m_update_db>>
mainVars  == <<m_running, mpc, restarts>>
northVars == <<delivered, cut, told, failures, exitCode>>
ghostVars == <<filtered, overtaken, kept, filterings, lostWrites>>
vars == <<stored, tableVars, ringVars, loadVars, sendVars, countVars, mainVars, northVars, ghostVars, missed>>

Slots   == 0 .. memoryBufferSize - 1
Threads == {"load", "send"}
Rows    == {"master", "own"}

\* n more troubles are within the bound.
Spare(n) == n + filterings + failures + lostWrites + restarts <= MaxTroubles

Null   == <<>>
Ptr(b) == <<b>>

Ids(b) == Range(b) \ {0}

\* A process that has just been started.
Begins(position) ==
    /\ m_buffer' = [s \in Slots |-> Null] /\ m_last_read_id' = [s \in Slots |-> 0]
    /\ lpc' = "top" /\ readIdx' = 0 /\ m_last_fetch_id' = position
    /\ spc' = "top" /\ sendIdx' = 0 /\ sentReadings' = 0 /\ dbCall' = "streams"
    /\ m_last_sent_id' = position /\ m_tot_sent' = 0 /\ m_update_db' = FALSE
    /\ m_running' = TRUE /\ mpc' = "run" /\ exitCode' = 1
    /\ kept' = FALSE /\ missed' = {}

Init ==
    /\ stored = 0 /\ last_object = 0 /\ statistics = [r \in Rows |-> 0]
    /\ m_buffer = [s \in Slots |-> Null] /\ m_last_read_id = [s \in Slots |-> 0]
    /\ lpc = "top" /\ readIdx = 0 /\ m_last_fetch_id = 0
    /\ spc = "top" /\ sendIdx = 0 /\ sentReadings = 0 /\ dbCall = "streams"
    /\ m_last_sent_id = 0 /\ m_tot_sent = 0 /\ m_update_db = FALSE
    /\ m_running = TRUE /\ mpc = "run" /\ exitCode = 1
    /\ kept = FALSE /\ missed = {}
    /\ delivered = {} /\ filtered = {} /\ overtaken = {} /\ cut = {} /\ told = 0
    /\ filterings = 0 /\ failures = 0 /\ lostWrites = 0 /\ restarts = 0

\* A reading reaches the storage service.
readingAppend ==
    /\ stored < MaxReadings /\ stored' = stored + 1
    /\ UNCHANGED <<tableVars, ringVars, loadVars, sendVars, countVars, mainVars, northVars, ghostVars, missed>>

----------------------------------------------------------------------------
(* The condition variable.                                                 *)

\* A thread that has looked at its buffer and will wait.
LoadTurns == lpc \in {"full", "prewait"}
SendTurns == spc \in {"atIdle", "idle", "prewait"}

\* mutant: nobody is woken
Wake_None(pc) == pc

\* A notification reaches a thread that waits; one on its way misses it.
Wake(pc) == IF pc = "waiting" THEN "top" ELSE pc
Misses(t, pc, turns) == IF pc = "waiting" THEN missed \ {t} ELSE IF turns THEN missed \cup {t} ELSE missed

notifySend == spc' = Wake(spc) /\ missed' = Misses("send", spc, SendTurns)
notifyLoad == lpc' = Wake(lpc) /\ missed' = Misses("load", lpc, LoadTurns)

----------------------------------------------------------------------------
(* loadDataThread()                                                        *)

loadOthers == <<stored, tableVars, sendIdx, sentReadings, dbCall, countVars, mainVars, northVars, overtaken, lostWrites>>

canLoad == m_buffer[readIdx % memoryBufferSize] = Null

\* The buffer is in use: the thread waits, if it is still to run.
loadFull ==
    /\ lpc = "top" /\ m_running /\ ~canLoad
    /\ readIdx' = readIdx % memoryBufferSize /\ lpc' = "full"
    /\ UNCHANGED <<m_last_fetch_id, ringVars, spc, missed, filtered, kept, filterings, loadOthers>>

loadWait ==
    /\ \/ lpc = "full" /\ lpc' = IF m_running THEN "prewait" ELSE "top"
       \/ lpc = "prewait" /\ lpc' = "waiting"
    /\ UNCHANGED <<readIdx, m_last_fetch_id, ringVars, spc, missed, filtered, kept, filterings, loadOthers>>

\* readingFetch(m_last_fetch_id + 1, m_block_size), or one of the two queries.
NextBlock == [i \in 1 .. Min({m_block_size, stored - m_last_fetch_id}) |-> m_last_fetch_id + i]

\* The buffer is free: readings are fetched, and the pipeline puts what is left
\* of them into it; a filter that calls nothing leaves it as it is.  A fetch
\* that fails or finds nothing changes nothing, the thread sleeps.
loadData(f) ==
    /\ lpc = "top" /\ m_running /\ canLoad /\ m_last_fetch_id < stored
    /\ LET b    == NextBlock
           slot == readIdx % memoryBufferSize
       IN /\ m_last_fetch_id' = b[Len(b)]
          /\ m_last_read_id' = [m_last_read_id EXCEPT ![slot] = b[Len(b)]]
          /\ m_buffer' = [m_buffer EXCEPT ![slot] =
                CASE f = "pass"    -> Ptr(b)
                  [] f = "dropAll" -> Ptr(<<>>)
                  [] f = "grow"    -> Ptr(b \o <<0, 0>>)
                  [] f = "keep"    -> @]
          /\ filtered' = IF f \in {"dropAll", "keep"} THEN filtered \cup Range(b) ELSE filtered
          /\ readIdx' = slot + 1
    /\ kept' = (kept \/ f = "keep")
    /\ IF f = "pass" THEN UNCHANGED filterings
         ELSE Spare(1) /\ filterings' = filterings + 1
    /\ lpc' = "notify"
    /\ UNCHANGED <<spc, missed, loadOthers>>

\* The send thread is notified of the block.
loadNotify ==
    /\ lpc = "notify" /\ lpc' = "top"
    /\ notifySend
    /\ UNCHANGED <<readIdx, m_last_fetch_id, ringVars, filtered, kept, filterings, loadOthers>>

\* mutant: the end of the loop is not notified
notifyEnd_Silent == UNCHANGED <<spc, missed>>

notifyEnd == notifySend

\* The loop is over.
loadExit ==
    /\ lpc = "top" /\ ~m_running /\ lpc' = "exited"
    /\ notifyEnd
    /\ UNCHANGED <<readIdx, m_last_fetch_id, ringVars, filtered, kept, filterings, loadOthers>>

----------------------------------------------------------------------------
(* updateDatabaseCounters(), called from four places                       *)

sendOthers == <<stored, readIdx, m_last_fetch_id, mainVars, filtered, kept, filterings>>

\* The places, and what follows there.
After(place) ==
    CASE place = "atWrap" -> "look" [] place = "atIdle" -> "idle"
      [] place \in {"atFail", "atEnd"} -> "top"

\* mutant: the ring begins again without it
WrapFlushes_Never == FALSE

WrapFlushes == m_update_db

EndFlushes == m_update_db

\* The database is updated if something was sent since it last was.
flushOr(place) == spc' = IF m_update_db THEN place ELSE After(place)

\* The storage service carries a call out, or does not; nobody looks.
Written(v, new) ==
    \/ v' = new /\ UNCHANGED lostWrites
    \/ Spare(1) /\ lostWrites' = lostWrites + 1 /\ UNCHANGED v

\* mutant: what was counted is kept
resetSentReadings_Kept == UNCHANGED m_tot_sent

resetSentReadings == m_tot_sent' = 0

\* mutant: what was read ahead is taken as sent
PositionToWrite_Fetched == m_last_fetch_id

PositionToWrite == m_last_sent_id

updateStreamLastSentId ==
    /\ dbCall = "streams" /\ dbCall' = "master"
    /\ Written(last_object, PositionToWrite)
    /\ UNCHANGED <<spc, statistics, countVars>>

\* The row is updated, or inserted if it is the first time.
updateStatistics(row) ==
    /\ dbCall = row
    /\ Written(statistics, [statistics EXCEPT ![row] = @ + m_tot_sent])
    /\ UNCHANGED last_object
    /\ IF row = "master"
         THEN dbCall' = "own" /\ UNCHANGED <<spc, countVars>>
         ELSE /\ dbCall' = "streams" /\ spc' = After(spc)
              /\ resetSentReadings /\ m_update_db' = FALSE /\ UNCHANGED m_last_sent_id

updateDatabaseCounters ==
    /\ spc \in {"atWrap", "atIdle", "atFail", "atEnd"}
    /\ updateStreamLastSentId \/ \E row \in Rows : updateStatistics(row)
    /\ UNCHANGED <<sendIdx, sentReadings, ringVars, lpc, missed, overtaken, northVars, sendOthers>>

----------------------------------------------------------------------------
(* sendDataThread()                                                        *)

sendQuiet == <<tableVars, lostWrites, dbCall, sendOthers>>

\* The look at the buffer; the ring begins again after its last one.
sendTop ==
    /\ \/ spc = "look"
       \/ spc = "top" /\ m_running /\ (sendIdx < memoryBufferSize \/ ~WrapFlushes)
    /\ sendIdx' = sendIdx % memoryBufferSize
    /\ IF m_buffer[sendIdx'] = Null THEN flushOr("atIdle") ELSE spc' = "send"
    /\ UNCHANGED <<sentReadings, ringVars, countVars, lpc, missed, overtaken, northVars, sendQuiet>>

\* The database is updated when the ring begins again, and at the end.
sendFlush ==
    /\ spc = "top"
    /\ \/ m_running /\ sendIdx = memoryBufferSize /\ WrapFlushes /\ spc' = "atWrap" /\ sendIdx' = 0
       \/ ~m_running /\ EndFlushes /\ spc' = "atEnd" /\ UNCHANGED sendIdx
    /\ UNCHANGED <<sentReadings, ringVars, countVars, lpc, missed, overtaken, northVars, sendQuiet>>

sendWait ==
    /\ \/ spc = "idle" /\ spc' = IF m_running THEN "prewait" ELSE "top"
       \/ spc = "prewait" /\ spc' = "waiting"
    /\ UNCHANGED <<sendIdx, sentReadings, ringVars, countVars, lpc, missed, overtaken, northVars, sendQuiet>>

\* The calls of plugin_send for a block: one, or, if filters made it longer,
\* one after each reading whose index, from 0, is a multiple of the block size.
Parts(b) ==
    LET n == Len(b)
        bs == m_block_size
    IN IF n <= bs THEN <<b>>
       ELSE [j \in 1 .. 1 + (n - 2) \div bs |->
               SubSeq(b, IF j = 1 THEN 1 ELSE (j - 1) * bs + 2, Min({n, j * bs + 1}))]

\* The readings the north system gets, and those the plugin says it got.
Got(part, o) == CASE o \in {"all", "unacked"} -> part
                  [] o = "part"               -> SubSeq(part, 1, 1)
                  [] o = "none"               -> <<>>
Acked(part, o) == IF o = "unacked" THEN <<>> ELSE Got(part, o)

\* A buffer with readings is sent; anything above 0 is a success.
sendData(outcome) ==
    /\ spc = "send" /\ m_buffer[sendIdx][1] # <<>>
    /\ LET b     == m_buffer[sendIdx][1]
           parts == Parts(b)
           got   == FlattenSeq([j \in DOMAIN parts |-> Got(parts[j], outcome[j])])
           sent  == Len(FlattenSeq([j \in DOMAIN parts |-> Acked(parts[j], outcome[j])]))
           bad   == {j \in DOMAIN parts : outcome[j] # "all"}
       IN /\ DOMAIN outcome = DOMAIN parts
          /\ \A j \in DOMAIN parts : outcome[j] = "part" => Len(parts[j]) > 1
          /\ Spare(Cardinality(bad)) /\ failures' = failures + Cardinality(bad)
          /\ delivered' = delivered \cup Ids(got)
          /\ told' = told + sent /\ sentReadings' = sent
          /\ IF sent > 0
               THEN spc' = "record" /\ exitCode' = 0 /\ cut' = cut \cup (Ids(b) \ delivered')
               ELSE flushOr("atFail") /\ UNCHANGED <<exitCode, cut>>
    /\ UNCHANGED <<sendIdx, ringVars, countVars, lpc, missed, overtaken, sendQuiet>>

\* Filters left nothing of the block.
sendEmpty ==
    /\ spc = "send" /\ m_buffer[sendIdx][1] = <<>>
    /\ sentReadings' = 0 /\ exitCode' = 0
    /\ IF m_last_read_id[sendIdx] > 0 THEN spc' = "record" ELSE flushOr("atFail")
    /\ UNCHANGED <<sendIdx, ringVars, countVars, lpc, missed, overtaken, delivered, cut, told, failures, sendQuiet>>

SentId == m_last_read_id[sendIdx]

\* The buffer is freed and the whole block taken as sent.
sendRecord ==
    /\ spc = "record" /\ spc' = "notify"
    /\ m_update_db' = TRUE /\ m_last_sent_id' = SentId
    /\ m_tot_sent' = m_tot_sent + sentReadings
    /\ m_buffer' = [m_buffer EXCEPT ![sendIdx] = Null]
    /\ m_last_read_id' = [m_last_read_id EXCEPT ![sendIdx] = 0]
    /\ sendIdx' = sendIdx + 1 /\ sentReadings' = 0
    /\ overtaken' = IF kept THEN overtaken \cup ((1..SentId) \ (delivered \cup filtered \cup cut)) ELSE overtaken
    /\ UNCHANGED <<lpc, missed, northVars, sendQuiet>>

\* The load thread is notified, after a block or when the loop is over.
sendNotify ==
    /\ \/ spc = "notify" /\ spc' = "top"
       \/ spc = "top" /\ ~m_running /\ ~EndFlushes /\ spc' = "exited"
    /\ notifyLoad
    /\ UNCHANGED <<sendIdx, sentReadings, ringVars, countVars, overtaken, northVars, sendQuiet>>

----------------------------------------------------------------------------
(* main()                                                                  *)

mainOthers == <<stored, tableVars, ringVars, readIdx, m_last_fetch_id, sendIdx, sentReadings, dbCall, countVars,
                northVars, ghostVars>>

\* run() returns after the duration or at a signal, and both threads are
\* notified, while they still are to run.
runEnds ==
    /\ mpc = "run" /\ mpc' = "stop"
    /\ lpc' = Wake(lpc) /\ spc' = Wake(spc)
    /\ missed' = {t \in missed : IF t = "load" THEN lpc # "waiting" ELSE spc # "waiting"}
    /\ UNCHANGED <<m_running, restarts, mainOthers>>

\* stop(): the flag, then the two joins.
stop ==
    /\ \/ mpc = "stop" /\ m_running' = FALSE /\ mpc' = "join"
       \/ mpc = "join" /\ lpc = "exited" /\ spc = "exited" /\ mpc' = "ended" /\ UNCHANGED m_running
    /\ UNCHANGED <<lpc, spc, missed, restarts, mainOthers>>

\* The process dies or has ended, and the scheduler starts the task again:
\* getLastSentReadingId().
restart ==
    /\ Spare(1) /\ restarts' = restarts + 1
    /\ Begins(last_object)
    /\ UNCHANGED <<stored, tableVars, delivered, cut, told, failures, filtered, overtaken, filterings, lostWrites>>

----------------------------------------------------------------------------

loader == loadFull \/ loadWait \/ loadNotify \/ loadExit \/ \E f \in FilterOutcomes : loadData(f)

Outcomes == UNION {[1..n -> SendOutcomes] : n \in 1 .. m_block_size + 2}

sender == \/ updateDatabaseCounters \/ sendTop \/ sendFlush \/ sendWait \/ sendEmpty \/ sendRecord \/ sendNotify
          \/ \E o \in Outcomes : sendData(o)

Next == readingAppend \/ loader \/ sender \/ runEnds \/ stop \/ restart

Spec == Init /\ [][Next]_vars

\* The threads run, main() stops them once run() has returned, and a fetch does
\* not fail for ever (MaxTroubles bounds the failures of the north system).
FairSpec ==
    Spec /\ WF_vars(loader) /\ WF_vars(sender) /\ WF_vars(stop)

----------------------------------------------------------------------------
(* Properties.                                                             *)

\* Every variable keeps its type.
TypeOK ==
    /\ stored \in 0..MaxReadings /\ {last_object, m_last_sent_id, m_last_fetch_id} \subseteq 0..stored
    /\ \A s \in Slots : m_last_read_id[s] \in 0..stored
    /\ \A s \in Slots : m_buffer[s] = Null \/ Range(m_buffer[s][1]) \subseteq 0..stored
    /\ {readIdx, sendIdx} \subseteq 0..memoryBufferSize
    /\ {m_running, m_update_db, kept} \subseteq BOOLEAN /\ exitCode \in {0, 1}
    /\ missed \subseteq Threads /\ dbCall \in {"streams"} \cup Rows
    /\ \A r \in Rows : statistics[r] \in Nat

Passed == delivered \cup filtered \cup overtaken \cup cut

Stream == INSTANCE StreamPosition WITH
            handled <- Passed, reached <- m_last_sent_id, pending <- {m_last_sent_id}

(***************************************************************************)
(* The task implements StreamPosition: its position moves only over        *)
(* readings that were sent or removed by a filter, only a position that    *)
(* was reached is written, and the next task begins with what was written. *)
(* The exceptions are the rest of a block that was sent in part (cut), and *)
(* what a filter that kept a block brought out of order (overtaken).       *)
(***************************************************************************)
StreamPromise == Stream!Spec

(***************************************************************************)
(* A crash repeats no more than a ring of blocks, and as many again for    *)
(* every write that the storage service refused.                           *)
(***************************************************************************)
RepeatBound ==
    ~kept => m_last_sent_id - last_object <= memoryBufferSize * m_block_size * (lostWrites + 1)

(***************************************************************************)
(* The statistics never count a reading twice or one that the plugin did   *)
(* not say it had sent, wherever in the four updates the task dies, and    *)
(* with what is still to be added they do not either.                      *)
(***************************************************************************)
CountedOnce ==
    \A r \in Rows :
        statistics[r] + (IF r = "master" /\ dbCall = "own" THEN 0 ELSE m_tot_sent) <= told

(***************************************************************************)
(* Once run() has returned the task ends: each thread ends the wait of the *)
(* other when it leaves its loop.  The exceptions are a thread that was    *)
(* notified between its look at m_running and its wait, which waits for    *)
(* ever, and a filter that kept a block, after which both may wait.        *)
(***************************************************************************)
TaskEnds == []<>(mpc \notin {"stop", "join"} \/ missed # {} \/ kept)

(***************************************************************************)
(* While the task runs, again and again every stored reading has been sent *)
(* or removed, but for a notification that was missed (the last block then *)
(* stays in the ring) or a filter that kept a block.                       *)
(***************************************************************************)
EverythingSent == []<>(mpc # "run" \/ missed # {} \/ kept \/ 1..stored \subseteq Passed)
=============================================================================
