---------------------------- MODULE IngestStats ----------------------------
(***************************************************************************)
(* The statistics of a south service: the counters class Ingest keeps, the *)
(* flush of them by updateStats(), and what an update of the statistics    *)
(* table does in the SQLite storage plugin.                                *)
(*                                                                         *)
(* m_statsMutex is held by every operation from its first to its last      *)
(* access, so an operation is one action.                                  *)
(***************************************************************************)
EXTENDS Integers, FiniteSets, Functions

CONSTANTS
    Assets,           \* the assets of the service
    AssetKeys,        \* their keys in the statistics table
    upper,            \* upper[a]: the name of asset a in upper case
    Options,          \* values of the item statistics: "asset", "service", "both"
    FailThreshold,    \* STATS_UPDATE_FAIL_THRESHOLD
    InitialFails,     \* m_statsUpdateFails is not initialised
    CreateOutcomes,   \* what creating a row may do: "ok", "error"
    UpdateOutcomes,   \* what an update may do: "ok", "error", "exception", "lost"
    MaxStored,        \* bound: readings stored in a behaviour
    MaxDiscarded,     \* bound: readings discarded in a behaviour
    MaxValue,         \* bound: stands for every value of a row from here on
    MaxOptions,       \* bound: changes of the item statistics
    MaxStorageFailures \* bound: flushes in which a request fails

ASSUME ConstantsAssumption ==
    /\ IsFiniteSet(Assets) /\ upper \in [Assets -> AssetKeys]
    /\ AssetKeys \cap {"READINGS", "DISCARDED", "SERVICE-Ingest"} = {}
    /\ Options \subseteq {"asset", "service", "both"}
    /\ FailThreshold \in Nat /\ InitialFails \subseteq Int
    /\ CreateOutcomes \subseteq {"ok", "error"}
    /\ UpdateOutcomes \subseteq {"ok", "error", "exception", "lost"}
    /\ {MaxStored, MaxDiscarded, MaxValue, MaxOptions, MaxStorageFailures} \subseteq Nat
    /\ MaxValue > MaxStored + MaxDiscarded

VARIABLES
    statsPendingEntries, \* readings stored since the last flush, per asset
    m_discardedReadings,
    statsDbEntriesCache, \* assets whose row is known to exist
    m_statsUpdateFails,
    m_statisticsOption,
    rows,                \* keys that have a row in the statistics table
    value,               \* the column value
    stored, discarded,   \* history: readings stored per asset, discarded
    options,             \* history: changes of the item statistics
    failures,            \* history: flushes in which a request failed
    exact                \* history: the row of the service existed from the start and
                         \* no answer of the storage service was lost

vars == <<statsPendingEntries, m_discardedReadings, statsDbEntriesCache, m_statsUpdateFails,
          m_statisticsOption, rows, value, stored, discarded, options, failures, exact>>

Service == "SERVICE-Ingest"
Keys    == AssetKeys \cup {"READINGS", "DISCARDED", Service}

Pending  == {a \in Assets : statsPendingEntries[a] > 0}
readings == SumFunction(statsPendingEntries)

\* createServiceStatsDbEntry(): the row is there afterwards unless the option
\* does not ask for it or the storage fails.
createServiceStatsDbEntry(present, create) ==
    IF m_statisticsOption # "asset" /\ create = "ok" THEN present \cup {Service} ELSE present

\* The constructor creates the row of the service under "both"; start() then
\* calls setStatistics().
Init ==
    /\ statsPendingEntries = [a \in Assets |-> 0]
    /\ m_discardedReadings = 0
    /\ statsDbEntriesCache = {}
    /\ m_statsUpdateFails \in InitialFails
    /\ m_statisticsOption \in Options
    /\ rows \in {{"READINGS", "DISCARDED"} \cup (IF c = "ok" THEN {Service} ELSE {}) : c \in CreateOutcomes}
    /\ value = [k \in Keys |-> 0]
    /\ stored = [a \in Assets |-> 0] /\ discarded = 0 /\ options = 0 /\ failures = 0
    /\ exact = (Service \in rows)

----------------------------------------------------------------------------
(* The callers.                                                            *)

\* processQueue() has appended a block with a reading of asset a.
processQueue(a) ==
    /\ SumFunction(stored) < MaxStored
    /\ statsPendingEntries' = [statsPendingEntries EXCEPT ![a] = @ + 1]
    /\ stored' = [stored EXCEPT ![a] = @ + 1]
    /\ UNCHANGED <<m_discardedReadings, statsDbEntriesCache, m_statsUpdateFails, m_statisticsOption,
                   rows, value, discarded, options, failures, exact>>

logDiscardedStat ==
    /\ discarded < MaxDiscarded
    /\ m_discardedReadings' = m_discardedReadings + 1
    /\ discarded' = discarded + 1
    /\ UNCHANGED <<statsPendingEntries, statsDbEntriesCache, m_statsUpdateFails, m_statisticsOption,
                   rows, value, stored, options, failures, exact>>

\* The item statistics of the advanced category has changed:
\* processConfigChange() of the service calls setStatistics() on the running Ingest.
setStatistics(option) ==
    /\ options < MaxOptions /\ options' = options + 1
    /\ m_statisticsOption' = option
    /\ UNCHANGED <<statsPendingEntries, m_discardedReadings, statsDbEntriesCache,
                   m_statsUpdateFails, rows, value, stored, discarded, failures, exact>>

----------------------------------------------------------------------------
(* updateStats()                                                           *)

\* The increment of key k in the batch of updates; 0 if k is not in it.
increment(k) ==
    CASE k = "READINGS"   -> readings
      [] k = "DISCARDED"  -> m_discardedReadings
      [] k = Service      -> IF m_statisticsOption = "asset" THEN 0 ELSE readings
      [] OTHER            -> IF m_statisticsOption = "service" THEN 0
                             ELSE SumFunctionOnSet(statsPendingEntries, {a \in Assets : upper[a] = k})

\* The last update of the batch.
LastKey ==
    IF m_discardedReadings > 0 THEN "DISCARDED"
    ELSE IF m_statisticsOption # "asset" THEN Service ELSE "READINGS"

AtMostMaxValue(n) == IF n > MaxValue THEN MaxValue ELSE n

\* Connection::update(): one transaction, which is committed; the number of
\* changes it looks at is that of the last UPDATE of the batch.
update(table, present) ==
    [table  |-> [k \in Keys |-> IF k \in present THEN AtMostMaxValue(table[k] + increment(k)) ELSE table[k]],
     failed |-> LastKey \notin present]

\* The loop creates the rows of the pending assets it has not seen; if the
\* storage fails it gets some of them only. (A row whose insert was answered
\* with an error may exist; it is found, and cached, by a later flush.)
createStatsDbEntry(create, created) ==
    LET uncached == Pending \ statsDbEntriesCache
    IN CASE m_statisticsOption = "service" -> created = {}
         [] create = "ok"                  -> created = uncached
         [] OTHER                          -> created \subseteq uncached

cacheEntries(created) == statsDbEntriesCache \cup created

\* mutant: the count of discarded readings is not reset
clearPending_Readings ==
    statsPendingEntries' = [a \in Assets |-> 0] /\ UNCHANGED m_discardedReadings

clearPending == statsPendingEntries' = [a \in Assets |-> 0] /\ m_discardedReadings' = 0

keepPending == UNCHANGED <<statsPendingEntries, m_discardedReadings>>

\* mutant: the recovery does not create the row of the service
recover_CacheOnly(present, create) ==
    rows' = present /\ statsDbEntriesCache' = {} /\ m_statsUpdateFails' = 0

\* The update has failed more than FailThreshold times.
recover(present, create) ==
    /\ rows' = createServiceStatsDbEntry(present, create)
    /\ statsDbEntriesCache' = {} /\ m_statsUpdateFails' = 0

updateStats(outcome, create) ==
    /\ Pending # {}
    /\ \E created \in SUBSET Assets :
          LET present == rows \cup {upper[a] : a \in created}
              result  == update(value, present)
              failed  == outcome = "error" \/ (outcome = "ok" /\ result.failed)
          IN /\ createStatsDbEntry(create, created)
             /\ value' = IF outcome \in {"ok", "lost"} THEN result.table ELSE value
             /\ IF outcome = "ok" /\ ~failed THEN clearPending ELSE keepPending
             /\ IF failed /\ m_statsUpdateFails + 1 > FailThreshold
                  THEN recover(present, create)
                  ELSE /\ rows' = present
                       /\ statsDbEntriesCache' = cacheEntries(created)
                       /\ m_statsUpdateFails' = m_statsUpdateFails + (IF failed THEN 1 ELSE 0)
    /\ IF outcome = "ok" /\ create = "ok" THEN UNCHANGED failures
         ELSE failures < MaxStorageFailures /\ failures' = failures + 1
    /\ exact' = (exact /\ outcome # "lost")
    /\ UNCHANGED <<m_statisticsOption, stored, discarded, options>>

\* Nothing is pending: the thread waits again.
updateStatsIdle ==
    /\ Pending = {}
    /\ UNCHANGED vars

Next ==
    \/ \E a \in Assets : processQueue(a)
    \/ logDiscardedStat
    \/ \E o \in Options : setStatistics(o)
    \/ \E o \in UpdateOutcomes, c \in CreateOutcomes : updateStats(o, c)
    \/ updateStatsIdle

Spec == Init /\ [][Next]_vars

\* The statistics thread runs every FLUSH_STATS_INTERVAL seconds, and the
\* storage service does not fail for ever.
FairSpec == Spec /\ WF_vars(\E o \in UpdateOutcomes, c \in CreateOutcomes : updateStats(o, c))

----------------------------------------------------------------------------
(* Properties.                                                             *)

TypeOK ==
    /\ statsPendingEntries \in [Assets -> Nat] /\ stored \in [Assets -> Nat]
    /\ m_discardedReadings \in Nat /\ discarded \in Nat
    /\ statsDbEntriesCache \subseteq Assets
    /\ m_statsUpdateFails \in Int /\ m_statisticsOption \in {"asset", "service", "both"}
    /\ rows \subseteq Keys /\ value \in [Keys -> Nat]
    /\ options \in Nat /\ failures \in Nat /\ exact \in BOOLEAN

(***************************************************************************)
(* Whatever fails, and however often a flush is repeated, no stored and no *)
(* discarded reading is missing from READINGS or DISCARDED: it has been    *)
(* added to the row or is still to be added.  If the row of the service    *)
(* existed and no answer of the storage service was lost, every reading is *)
(* counted exactly once, although failed flushes are repeated and the      *)
(* option changes.                                                         *)
(***************************************************************************)
CountedOnce ==
    /\ value["READINGS"] + readings >= SumFunction(stored)
    /\ value["DISCARDED"] + m_discardedReadings >= discarded
    /\ exact =>
          /\ value["READINGS"] + readings = SumFunction(stored)
          /\ value["DISCARDED"] + m_discardedReadings = discarded
          /\ \A k \in AssetKeys \cup {Service} : value[k] <= value["READINGS"]

(***************************************************************************)
(* A missing row of the service stops the flush only until the failures    *)
(* reach the threshold: updateStats() then creates the row, and what was   *)
(* stored is flushed.                                                      *)
(***************************************************************************)
PendingIsFlushed == (Pending # {}) ~> (Pending = {})

=============================================================================
