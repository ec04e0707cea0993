------------------------------- MODULE Purge -------------------------------
(***************************************************************************)
(* The purge of readings: the purge task, which reads how far the streams  *)
(* have got and asks for a purge by size and one by age, the storage       *)
(* service's guard against two purges at a time, the two algorithms of the *)
(* SQLite plugin, and the removal of an asset on demand, which goes through*)
(* the same guard.                                                         *)
(*                                                                         *)
(* A reading is its id, which is also its rowid.  A stream has handled the *)
(* readings up to handled[s]; the position in its row is one it had        *)
(* reached, as StreamPosition promises.                                    *)
(***************************************************************************)
EXTENDS Integers, FiniteSets, FiniteSetsExt

CONSTANTS
    Streams,          \* numbers
    Configs,          \* what the category PURGE_READ may hold: records of flag, size, age (set or 0)
    ExcludedChoices,  \* sets of readings that may belong to the asset excluded from purges
    purgeBlockSize,
    Word,             \* 2^w for the width w of an unsigned long
    MaxReadings,      \* bound: readings that reach the storage service
    MaxRuns,          \* bound: runs of the purge task
    MaxEvents         \* bound: readings that arrive or become old, steps of streams, requests
                      \* to remove an asset, and queries, deletes and answers that fail, together

ASSUME ConstantsAssumption ==
    /\ Streams \subseteq Nat
    /\ {MaxReadings, MaxRuns, MaxEvents} \subseteq Nat
    /\ purgeBlockSize \in Nat \ {0} /\ Word \in Nat /\ Word > 2 * MaxReadings
    /\ Configs \subseteq [flag : {"purge", "retainany", "retainall"}, size : Nat, age : BOOLEAN]
    /\ ExcludedChoices \subseteq SUBSET (1..MaxReadings)

VARIABLES
    appended,         \* readings that reached the storage service
    rows,             \* those it holds
    old,              \* those with user_ts before the age limit
    excluded,         \* those of the excluded asset
    created,          \* streams that have a row in the table streams
    handled, last_object,
    already_running,  \* of StorageApi::readingPurge()
    pc,               \* of the worker of the purge task's request, and of the other request
    \* the purge task
    config, call, last_id, total,
    \* purgeReadingsByRows() and purgeReadings()
    rowcount, maxId, l, r, m, rowidMin, deletedRows,
    purged,           \* the statistic PURGED
    \* history
    byAsset,          \* readings removed with their asset
    late,             \* streams created after the task read the positions
    due,              \* what a purge by age should remove
    counted,          \* appended when purgeReadingsByRows() counted the rows
    failed,           \* something failed in this purge
    overlap,          \* two requests passed the guard at the same time
    runs, assetPurges, events, faults

streamVars == <<created, handled, last_object, late>>
taskVars   == <<config, call, last_id, total, purged, runs>>
rowsVars   == <<rowcount, maxId, counted>>
ageVars    == <<l, r, m, rowidMin, due>>
vars == <<appended, rows, old, excluded, events, streamVars, already_running, pc, taskVars, rowsVars, ageVars,
          deletedRows, byAsset, failed, overlap, assetPurges, faults>>

\* One more is within the bound.
SpareEvent == events + assetPurges + faults < MaxEvents

Requests == {"task", "asset"}

Removed == (1..appended) \ (rows \cup byAsset)

Retain == config.flag # "purge"

\* MIN and MAX of an SQL query; NULL is turned into 0 by rowidCallback().
SqlMin(S) == IF S = {} THEN 0 ELSE Min(S)
SqlMax(S) == IF S = {} THEN 0 ELSE Max(S)

\* A system that has run for a while, before its first purge.  The streams are
\* numbered by their positions.
Init ==
    /\ config \in Configs /\ excluded \in ExcludedChoices
    /\ appended \in 0..MaxReadings - 1 /\ rows = 1..appended
    /\ old \in IF config.age THEN {1..n : n \in 0..appended} ELSE {{}}
    /\ created \in IF Retain THEN SUBSET Streams ELSE {{}}
    /\ handled \in [Streams -> 0..appended] /\ \A s \in Streams \ created : handled[s] = 0
    /\ \A s, t \in Streams : s < t => handled[s] <= handled[t]
    /\ last_object = handled
    /\ already_running = FALSE /\ pc = [p \in Requests |-> "idle"]
    /\ call = "size" /\ last_id = 0 /\ total = 0 /\ purged = 0
    /\ rowcount = 0 /\ maxId = 0 /\ counted = 0
    /\ l = 0 /\ r = 0 /\ m = 0 /\ rowidMin = 0 /\ due = {} /\ deletedRows = 0
    /\ byAsset = {} /\ late = {} /\ failed = FALSE /\ overlap = FALSE
    /\ runs = 0 /\ assetPurges = 0 /\ events = 0 /\ faults = 0

----------------------------------------------------------------------------
(* The rest of the system.                                                 *)

\* Only what happens while the task runs matters: Init has the rest.
event == SpareEvent /\ pc["task"] # "idle" /\ events' = events + 1

readingAppend ==
    /\ event /\ appended < MaxReadings
    /\ appended' = appended + 1 /\ rows' = rows \cup {appended + 1}
    /\ UNCHANGED <<old, excluded, streamVars, already_running, pc, taskVars, rowsVars, ageVars,
                   deletedRows, byAsset, failed, overlap, assetPurges, faults>>

\* Time passes.  Timestamps are the sources', and need not grow with the ids.
age(i) ==
    /\ event /\ config.age
    /\ i \in rows \ old /\ old' = old \cup {i}
    /\ UNCHANGED <<appended, rows, excluded, streamVars, already_running, pc, taskVars, rowsVars, ageVars,
                   deletedRows, byAsset, failed, overlap, assetPurges, faults>>

streamOthers == <<appended, rows, old, excluded, already_running, pc, taskVars, rowsVars, ageVars,
                  deletedRows, byAsset, failed, overlap, assetPurges, faults>>

\* A north service or task creates its row, with position 0.
createNewStream(s) ==
    /\ event /\ s \notin created /\ created' = created \cup {s}
    /\ late' = late \cup {s}
    /\ UNCHANGED <<handled, last_object, streamOthers>>

\* A stream deals with what it fetches next.
send(s) ==
    /\ event /\ s \in created /\ \E i \in rows : i > handled[s]
    /\ handled' = [handled EXCEPT ![s] = Min({i \in rows : i > handled[s]})]
    /\ UNCHANGED <<created, last_object, late, streamOthers>>

\* A stream writes its position, or an older one is written late.
savePosition(s, position) ==
    /\ event /\ s \in created /\ position # last_object[s] /\ position <= handled[s]
    /\ last_object' = [last_object EXCEPT ![s] = position]
    /\ UNCHANGED <<created, handled, late, streamOthers>>

----------------------------------------------------------------------------
(* The purge task: Purge.purge_data().                                     *)

taskOthers == <<events, appended, rows, old, excluded, streamVars, rowsVars, ageVars, byAsset, overlap, assetPurges, faults>>

\* The next step of the task: a call that the configuration asks for, or the end.
NextCall(from) ==
    IF from = "start" /\ config.size # 0 THEN "size"
    ELSE IF from # "age" /\ config.age THEN "age" ELSE "none"

toCall(from) ==
    /\ call' = NextCall(from)
    /\ pc' = [pc EXCEPT !["task"] = IF NextCall(from) = "none" THEN "statistics" ELSE "guard"]


OperationType(flag) == IF flag = "retainany" THEN "max" ELSE "min"

\* The aggregate over all rows of streams.  The list of the active and enabled
\* ones, which would restrict it, is always empty.
LastObject(operation) ==
    LET positions == {last_object[s] : s \in created}
    IN IF operation = "min" THEN SqlMin(positions) ELSE SqlMax(positions)

\* The task is started, reads its configuration and the positions.
purge_data ==
    /\ pc["task"] = "idle" /\ runs < MaxRuns
    /\ runs' = runs + 1 /\ total' = 0
    /\ last_id' = LastObject(OperationType(config.flag))
    /\ toCall("start")
    /\ late' = {}
    /\ UNCHANGED <<events, config, appended, rows, old, excluded, created, handled, last_object, already_running, purged,
                   rowsVars, ageVars, deletedRows, byAsset, failed, overlap, assetPurges, faults>>

\* write_statistics()
write_statistics ==
    /\ pc["task"] = "statistics"
    /\ purged' = purged + total
    /\ pc' = [pc EXCEPT !["task"] = "idle"]
    /\ UNCHANGED <<config, call, last_id, total, runs, already_running, deletedRows, failed, taskOthers>>

----------------------------------------------------------------------------
(* StorageApi::readingPurge(): the guard, and the answer.                  *)

Inside(p) == pc[p] \notin {"idle", "guard", "take", "statistics"}

\* The flag is tested ...
guard ==
    /\ pc["task"] = "guard"
    /\ IF already_running
         THEN toCall(call)
         ELSE pc' = [pc EXCEPT !["task"] = "take"] /\ UNCHANGED call
    /\ UNCHANGED <<config, last_id, total, purged, runs, already_running, deletedRows, failed, taskOthers>>

\* ... and then set.
take ==
    /\ pc["task"] = "take"
    /\ already_running' = TRUE /\ overlap' = (overlap \/ Inside("asset"))
    /\ pc' = [pc EXCEPT !["task"] = IF call = "size" THEN "rowcount" ELSE "maxrowid"]
    /\ UNCHANGED <<events, appended, rows, old, excluded, streamVars, taskVars, rowsVars, ageVars,
                   deletedRows, byAsset, failed, assetPurges, faults>>

addTotal == total' = total + deletedRows

\* The plugin has returned.  The response is sent after the flag is cleared; if
\* it is lost the task ends with an exception, and writes no statistics.  The
\* local variables of the plugin are gone.
answer ==
    /\ pc["task"] = "answer" /\ already_running' = FALSE
    /\ \/ /\ addTotal /\ toCall(call)
          /\ UNCHANGED faults
       \/ /\ SpareEvent /\ faults' = faults + 1
          /\ pc' = [pc EXCEPT !["task"] = "idle"]
          /\ UNCHANGED <<call, total>>
    /\ deletedRows' = 0 /\ failed' = FALSE
    /\ rowcount' = 0 /\ maxId' = 0 /\ counted' = 0
    /\ l' = 0 /\ r' = 0 /\ m' = 0 /\ rowidMin' = 0 /\ due' = {}
    /\ UNCHANGED <<events, config, last_id, purged, runs, appended, rows, old, excluded, streamVars,
                   byAsset, overlap, assetPurges>>

----------------------------------------------------------------------------
(* The steps of the plugin for the task: every SQL statement is one.       *)

pluginOthers == <<events, appended, old, excluded, streamVars, already_running, taskVars, byAsset, overlap, assetPurges>>

to(place) == pc' = [pc EXCEPT !["task"] = place]

\* A query fails: the result is empty or says that nothing was removed.
queryFails ==
    /\ pc["task"] \in {"rowcount", "maxId", "minId", "maxrowid", "minrowid", "search"}
    /\ SpareEvent /\ faults' = faults + 1
    /\ deletedRows' = 0 /\ failed' = TRUE /\ to("answer")
    /\ UNCHANGED <<rows, rowsVars, ageVars, pluginOthers>>

\* purgeAllReadings() removes the readings in the tables of all the assets but
\* the excluded one.
purgeAllReadings(D) ==
    /\ rows' = rows \ D
    /\ deletedRows' = deletedRows + Cardinality(D)

Purgeable == rows \ excluded

----------------------------------------------------------------------------
(* purgeReadingsByRows()                                                   *)


RowsToGo(count) == count > config.size

countRows ==
    /\ pc["task"] = "rowcount"
    /\ rowcount' = Cardinality(rows) /\ counted' = appended /\ to("maxId")
    /\ UNCHANGED <<rows, maxId, ageVars, deletedRows, failed, faults, pluginOthers>>

readMaxId ==
    /\ pc["task"] = "maxId"
    /\ maxId' = SqlMax(rows)
    /\ to(IF rowcount <= config.size THEN "answer" ELSE "minId")
    /\ UNCHANGED <<rows, rowcount, counted, ageVars, deletedRows, failed, faults, pluginOthers>>

\* l holds minId.
readMinId ==
    /\ pc["task"] = "minId"
    /\ l' = SqlMin(Purgeable) /\ to("delete")
    /\ UNCHANGED <<rows, rowsVars, r, m, rowidMin, due, deletedRows, failed, faults, pluginOthers>>

\* mutant: the newest rows are not spared
KeepSize_Never(point) == point

\* Unsigned arithmetic: a difference below 0 wraps.
KeepSize(point) ==
    IF (maxId - point) % Word < config.size \/ point > maxId THEN (maxId - config.size) % Word ELSE point

RetainLimit(point) == IF Retain /\ last_id < point THEN last_id ELSE point

DeletePoint == RetainLimit(KeepSize(l + Min({100000, config.size})))


NothingRemoved(D) == D = {}

\* One turn of the loop.  An error of the DELETE is not looked at; the number of
\* rows it removed is 0 then.
deleteTurn ==
    /\ pc["task"] = "delete"
    /\ \E D \in {{}, {i \in Purgeable : i <= DeletePoint}} :
          /\ IF D = {} /\ \E i \in Purgeable : i <= DeletePoint
               THEN SpareEvent /\ faults' = faults + 1 /\ failed' = TRUE
               ELSE UNCHANGED <<faults, failed>>
          /\ purgeAllReadings(D)
          /\ rowcount' = (rowcount - Cardinality(D)) % Word
          /\ to(IF NothingRemoved(D) \/ ~RowsToGo(rowcount') THEN "answer" ELSE "minId")
    /\ UNCHANGED <<maxId, counted, ageVars, pluginOthers>>

----------------------------------------------------------------------------
(* purgeReadings()                                                         *)

\* maxId holds maxrowidLimit.
readMaxRowid ==
    /\ pc["task"] = "maxrowid"
    /\ maxId' = SqlMax(rows) /\ to("minrowid")
    /\ UNCHANGED <<rows, rowcount, counted, ageVars, deletedRows, failed, faults, pluginOthers>>

\* mutant: the sent position is not looked at
SearchEnd_All(first) == Max({first, maxId})

SearchEnd(first) == Max({first, IF Retain THEN Min({last_id, maxId}) ELSE maxId})

\* minrowidLimit is in l, and stays in rowidMin.  The readings due are the old
\* ones before the first that is young, missing or excluded.
readMinRowid ==
    /\ pc["task"] = "minrowid"
    /\ LET first == SqlMin(Purgeable)
           last  == SearchEnd(first)
       IN /\ l' = first /\ r' = last /\ m' = first /\ rowidMin' = first
          /\ due' = {i \in first..last : first..i \subseteq Purgeable \cap old}
          /\ to(IF first = last THEN "answer" ELSE "search")
    /\ UNCHANGED <<rows, rowsVars, deletedRows, failed, faults, pluginOthers>>

Mid == l + (r - l) \div 2

SearchRight == l' = Mid + 1 /\ m' = Mid /\ UNCHANGED r
SearchLeft  == r' = (Mid - 1) % Word /\ m' = (Mid - 1) % Word /\ UNCHANGED l

\* One turn of the binary search, or the end of it: m is the last row to remove.
searchTurn ==
    /\ pc["task"] = "search"
    /\ IF l > r \/ Mid = m
         THEN to(IF m <= rowidMin THEN "answer" ELSE "block") /\ UNCHANGED <<l, r, m>>
         ELSE /\ IF Mid \in rows \cap old THEN SearchRight ELSE SearchLeft
              /\ UNCHANGED pc
    /\ UNCHANGED <<rows, rowsVars, rowidMin, due, deletedRows, failed, faults, pluginOthers>>

BlockEnd == Min({rowidMin + purgeBlockSize, m})

\* A block is removed, which needs no append to be under way; or the DELETE
\* fails, and the result says that nothing was removed.
deleteBlock ==
    /\ pc["task"] = "block"
    /\ rowidMin' = BlockEnd
    /\ \/ /\ purgeAllReadings({i \in Purgeable \cap old : i <= rowidMin'})
          /\ to(IF rowidMin' < m THEN "block" ELSE "answer")
          /\ UNCHANGED <<failed, faults>>
       \/ /\ SpareEvent /\ faults' = faults + 1 /\ failed' = TRUE
          /\ deletedRows' = 0 /\ to("answer") /\ UNCHANGED rows
    /\ UNCHANGED <<rowsVars, l, r, m, due, pluginOthers>>

plugin ==
    \/ queryFails \/ countRows \/ readMaxId \/ readMinId \/ deleteTurn
    \/ readMaxRowid \/ readMinRowid \/ searchTurn \/ deleteBlock

----------------------------------------------------------------------------
(* The removal of an asset, or of all of them, asked for through the REST  *)
(* interface.                                                              *)

assetOthers == <<events, appended, old, excluded, streamVars, taskVars, rowsVars, ageVars, deletedRows, failed, faults>>

assetGuard ==
    \/ /\ pc["asset"] = "idle" /\ SpareEvent /\ ~already_running
       /\ assetPurges' = assetPurges + 1 /\ pc' = [pc EXCEPT !["asset"] = "take"]
       /\ UNCHANGED <<rows, already_running, byAsset, overlap, assetOthers>>
    \/ /\ pc["asset"] = "take"
       /\ already_running' = TRUE /\ overlap' = (overlap \/ Inside("task"))
       /\ pc' = [pc EXCEPT !["asset"] = "delete"]
       /\ UNCHANGED <<rows, byAsset, assetPurges, assetOthers>>

leave == already_running' = FALSE

\* All readings but those excluded, those of the excluded asset, or none if the
\* plugin cannot do it or fails.
purgeReadingsAsset(D) ==
    /\ pc["asset"] = "delete"
    /\ rows' = rows \ D /\ byAsset' = byAsset \cup (rows \cap D)
    /\ leave /\ pc' = [pc EXCEPT !["asset"] = "idle"]
    /\ UNCHANGED <<overlap, assetPurges, assetOthers>>

----------------------------------------------------------------------------

task == purge_data \/ guard \/ take \/ answer \/ write_statistics

assetRequest == assetGuard \/ \E D \in {rows \ excluded, rows \cap excluded, {}} : purgeReadingsAsset(D)

streams == \E s \in Streams : createNewStream(s) \/ send(s) \/ \E p \in 0..handled[s] : savePosition(s, p)

Next == readingAppend \/ (\E i \in rows : age(i)) \/ streams \/ task \/ plugin \/ assetRequest

Spec == Init /\ [][Next]_vars

\* A task that was started goes on, and so does the worker that serves it.
FairSpec == Spec /\ WF_vars(guard \/ take \/ plugin \/ answer \/ write_statistics)

----------------------------------------------------------------------------
(* Properties.                                                             *)

\* Every variable keeps its type.
TypeOK ==
    /\ appended \in 0..MaxReadings /\ rows \cup old \cup byAsset \cup due \subseteq 1..appended
    /\ \A s \in Streams : last_object[s] <= handled[s] /\ handled[s] <= appended
    /\ {already_running, failed, overlap} \subseteq BOOLEAN
    /\ {rowcount, l, r, m} \subseteq 0..(Word - 1)
    /\ {maxId, rowidMin, counted, last_id, deletedRows, total, purged} \subseteq 0..appended


(***************************************************************************)
(* A purge by size never removes one of the newest readings, as many as    *)
(* are to be kept, whatever arrives or is removed on demand meanwhile.     *)
(* The exception is a removal that passed the guard at the same time: the  *)
(* highest id it leaves may be less than the number to keep.               *)
(***************************************************************************)
KeepsNewest ==
    [][overlap \/ call # "size" \/ \A i \in Removed' \ Removed : i + config.size <= appended]_vars


=============================================================================
