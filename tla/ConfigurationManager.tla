------------------------ MODULE ConfigurationManager ------------------------
(***************************************************************************)
(* A configuration category: its row in the storage service, its entry in  *)
(* the cache of the core (python/fledge/common/configuration_manager.py),  *)
(* and the services that are told of its changes                           *)
(* (services/core/interest_registry).                                      *)
(*                                                                         *)
(* The requests run as coroutines (Procs) that interleave where they await *)
(* the storage service or an HTTP call.  A read takes two steps: the       *)
(* storage service reads the row, and later the coroutine goes on with     *)
(* what was read.  A category has one item, which has a value, and a       *)
(* definition; requests carry no user.  The other categories matter only   *)
(* as reasons to evict this one from the cache; which entry is the oldest  *)
(* is left open.                                                           *)
(***************************************************************************)
EXTENDS Naturals, FiniteSets

CONSTANTS
    Procs,         \* the coroutines
    Services,      \* the services with an interest in the category
    Values,        \* values of the item
    Default,       \* the value of a new category
    Definitions,   \* the definitions create_category may be called with
    MaxRequests,   \* bound: requests in a behaviour
    MaxFaults      \* bound: notifications that do not reach their service

NoRow == [value |-> 0, def |-> 0]
Row   == [value : Values, def : Definitions]

ASSUME ConfigurationAssumption ==
    /\ IsFiniteSet(Procs) /\ IsFiniteSet(Services)
    /\ Values \subseteq Nat \ {0} /\ Default \in Values
    /\ Definitions \subseteq Nat \ {0}
    /\ MaxRequests \in Nat /\ MaxFaults \in Nat

VARIABLES
    row,        \* the row of the table configuration, or NoRow
    cache,      \* the entry of _cacheManager.cache, or NoRow
    pc, op, arg,\* the coroutines: where each is, its request and its argument
    got,        \* got[p]: the row that p has read, or its payload
    sharing,    \* the coroutines whose payload is the dictionary in the cache
    todo,       \* todo[p]: the services p has yet to notify
    registered, \* the services in the interest registry
    fetched,    \* the services that have read the category
    view,       \* view[s]: the value service s works with
    requests, faults,
    wanted,     \* history: the value that was set last
    stale,      \* history: the coroutines that hold what a later write has replaced
    raced,      \* history: a coroutine has used it
    late        \* history: the services that a change has not reached

storeVars == <<row, cache>>
procVars  == <<pc, op, arg, got, sharing, todo>>
svcVars   == <<registered, fetched, view>>
countVars == <<requests, faults>>
histVars  == <<wanted, stale, raced, late>>
vars == <<storeVars, procVars, svcVars, countVars, histVars>>

Init ==
    /\ row \in {NoRow} \cup [value : {Default}, def : Definitions]
    /\ cache \in {NoRow, row}
    /\ pc = [p \in Procs |-> "idle"] /\ op = [p \in Procs |-> "none"]
    /\ arg = [p \in Procs |-> 0] /\ got = [p \in Procs |-> NoRow]
    /\ sharing = {} /\ todo = [p \in Procs |-> {}]
    /\ registered = {} /\ fetched = {} /\ view = [s \in Services |-> 0]
    /\ requests = 0 /\ faults = 0
    /\ wanted = Default /\ stale = {} /\ raced = FALSE /\ late = {}
-----------------------------------------------------------------------------
Cached == cache # NoRow
Others(p) == Procs \ {p}
Goes(p, to) == pc' = [pc EXCEPT ![p] = to]

\* What a coroutine read or wrote last is still to be used.
Holding(p) ==
    pc[p] \in {"fill", "refresh", "insert", "inserted", "overwrite", "replace", "fillPayload", "post"}

\* The storage service writes the row for p.
Write(p, r) ==
    /\ row' = r
    /\ stale' = (stale \ {p}) \cup {q \in Others(p) : Holding(q)}
    /\ late' = late \cup (fetched \ registered)

\* The storage service reads the row for p.
Read(p) == got' = [got EXCEPT ![p] = row] /\ stale' = stale \ {p}

\* p uses what it has read.
Uses(p) == raced' = (raced \/ p \in stale)

\* The entry of the cache is replaced, by another dictionary or by nothing.
Replaced(entry) == cache' = entry /\ sharing' = {}

Refreshed_Never(p) == UNCHANGED <<cache, got, stale>>

\* The item is changed in the dictionary that is in the cache, if there is
\* one; a payload that is this dictionary changes with it.
Refreshed(p) ==
    IF Cached
    THEN /\ cache' = [cache EXCEPT !.value = got[p].value]
         /\ got' = [q \in Procs |-> IF q \in sharing THEN [got[q] EXCEPT !.value = got[p].value]
                                                     ELSE got[q]]
         /\ stale' = IF p \in stale THEN stale \cup sharing ELSE stale \ sharing
    ELSE UNCHANGED <<cache, got, stale>>
-----------------------------------------------------------------------------
(* Requests *)
Begins(p, o, a) ==
    /\ pc[p] = "idle" /\ requests < MaxRequests
    /\ requests' = requests + 1
    /\ op' = [op EXCEPT ![p] = o] /\ arg' = [arg EXCEPT ![p] = a]

\* set_category_item_value_entry: nothing is done if the cache has the value
set(p, v) ==
    /\ Begins(p, "set", v)
    /\ Goes(p, IF ~ Cached THEN "readItem" ELSE IF cache.value = v THEN "idle" ELSE "update")
    /\ wanted' = IF Cached /\ cache.value = v /\ \A q \in Others(p) : pc[q] = "idle"
                 THEN v ELSE wanted
    /\ UNCHANGED <<storeVars, got, sharing, todo, svcVars, faults, stale, raced, late>>

\* update_configuration_item_bulk, which begins with get_category_all_items
bulk(p, v) ==
    /\ Begins(p, "bulk", v)
    /\ Goes(p, IF ~ Cached THEN "readAll" ELSE IF cache.value = v THEN "idle" ELSE "update")
    /\ wanted' = IF Cached /\ cache.value = v /\ \A q \in Others(p) : pc[q] = "idle"
                 THEN v ELSE wanted
    /\ Replaced(cache)
    /\ UNCHANGED <<row, got, todo, svcVars, faults, stale, raced, late>>

\* get_category_all_items; for a service that starts, the value is its view
get(p) ==
    /\ Begins(p, "get", 0)
    /\ Goes(p, IF Cached THEN "idle" ELSE "readAll")
    /\ Replaced(cache)
    /\ UNCHANGED <<row, got, todo, svcVars, faults, histVars>>

fetch(p, s) ==
    /\ s \notin fetched /\ \A q \in Procs : pc[q] # "idle" => op[q] # "fetch"
    /\ Begins(p, "fetch", s)
    /\ IF Cached
       THEN /\ Goes(p, "idle")
            /\ fetched' = fetched \cup {s}
            /\ view' = [view EXCEPT ![s] = cache.value]
            /\ late' = IF cache = row THEN late ELSE late \cup {s}
       ELSE Goes(p, "readAll") /\ UNCHANGED <<fetched, view, late>>
    /\ Replaced(cache)
    /\ UNCHANGED <<row, got, todo, registered, faults, wanted, stale, raced>>

\* create_category
create(p, d) ==
    /\ Begins(p, "create", d)
    /\ Goes(p, "readRow")
    /\ UNCHANGED <<storeVars, got, sharing, todo, svcVars, faults, histVars>>

\* delete_category_and_children_recursively
delete(p) ==
    /\ Begins(p, "delete", 0)
    /\ Goes(p, "readRow")
    /\ UNCHANGED <<storeVars, got, sharing, todo, svcVars, faults, histVars>>
-----------------------------------------------------------------------------
(* Reads *)
\* _read_item_val, before the update: no such item is an error
readItem(p) ==
    /\ pc[p] = "readItem"
    /\ Goes(p, IF row = NoRow THEN "idle" ELSE "update")
    /\ UNCHANGED <<storeVars, op, arg, got, sharing, todo, svcVars, countVars, histVars>>

\* _read_category: of a get, of a payload, of create_category
readAll(p) ==
    /\ pc[p] \in {"readAll", "readPayload"}
    /\ Read(p)
    /\ Goes(p, IF pc[p] = "readAll" THEN "fill" ELSE "fillPayload")
    /\ UNCHANGED <<storeVars, op, arg, sharing, todo, svcVars, countVars, wanted, raced, late>>

\* A get that missed: the row goes into the cache, without another look at it.
fill(p) ==
    /\ pc[p] = "fill"
    /\ IF got[p] = NoRow
       THEN Goes(p, "idle") /\ UNCHANGED <<cache, sharing, fetched, view, raced>>
       ELSE /\ Replaced(got[p]) /\ Uses(p)
            /\ Goes(p, IF op[p] = "bulk" /\ got[p].value # arg[p] THEN "update" ELSE "idle")
            /\ fetched' = IF op[p] = "fetch" THEN fetched \cup {arg[p]} ELSE fetched
            /\ view' = IF op[p] = "fetch" THEN [view EXCEPT ![arg[p]] = got[p].value] ELSE view
    /\ UNCHANGED <<row, op, arg, got, todo, registered, countVars, wanted, stale, late>>
-----------------------------------------------------------------------------
(* set and bulk: update, read again, change the cache, notify *)
\* An update of a category that was deleted meanwhile is an error.
update(p) ==
    /\ pc[p] = "update"
    /\ IF row = NoRow
       THEN Goes(p, "idle") /\ UNCHANGED <<row, wanted, stale, late>>
       ELSE /\ Write(p, [row EXCEPT !.value = arg[p]])
            /\ wanted' = arg[p]
            /\ Goes(p, "reread")
    /\ UNCHANGED <<cache, op, arg, got, sharing, todo, svcVars, countVars, raced>>

reread(p) ==
    /\ pc[p] = "reread"
    /\ Read(p)
    /\ Goes(p, IF row = NoRow THEN "idle" ELSE "refresh")
    /\ UNCHANGED <<storeVars, op, arg, sharing, todo, svcVars, countVars, wanted, raced, late>>

refresh(p) ==
    /\ pc[p] = "refresh"
    /\ Refreshed(p) /\ Uses(p)
    /\ Goes(p, "notify")
    /\ UNCHANGED <<row, op, arg, sharing, todo, svcVars, countVars, wanted, late>>
-----------------------------------------------------------------------------
(* create_category and delete_category_and_children_recursively *)
readRow(p) ==
    /\ pc[p] = "readRow"
    /\ Read(p)
    /\ Goes(p, CASE op[p] = "delete" -> IF row = NoRow THEN "idle" ELSE "remove"
                 [] op[p] = "create" -> IF row = NoRow THEN "insert"
                                        ELSE IF row.def = arg[p] THEN "idle" ELSE "overwrite")
    /\ UNCHANGED <<storeVars, op, arg, sharing, todo, svcVars, countVars, wanted, raced, late>>

\* _create_new_category; the key is unique
insert(p) ==
    /\ pc[p] = "insert"
    /\ IF row # NoRow
       THEN Goes(p, "idle") /\ UNCHANGED <<row, got, wanted, stale, late>>
       ELSE /\ Write(p, [value |-> Default, def |-> arg[p]])
            /\ got' = [got EXCEPT ![p] = row']
            /\ wanted' = Default
            /\ Goes(p, "inserted")
    /\ UNCHANGED <<cache, op, arg, sharing, todo, svcVars, countVars, raced>>


\* _merge_category_vals: the value is kept
Merged(p) == [value |-> got[p].value, def |-> arg[p]]

\* _update_category: the whole row is written
overwrite(p) ==
    /\ pc[p] = "overwrite"
    /\ IF row = NoRow
       THEN Goes(p, "idle") /\ UNCHANGED <<row, stale, raced, late>>
       ELSE Write(p, Merged(p)) /\ Uses(p) /\ Goes(p, "rereadAll")
    /\ UNCHANGED <<cache, op, arg, got, sharing, todo, svcVars, countVars, wanted>>

rereadAll(p) ==
    /\ pc[p] = "rereadAll"
    /\ Read(p)
    /\ Goes(p, "replace")
    /\ UNCHANGED <<storeVars, op, arg, sharing, todo, svcVars, countVars, wanted, raced, late>>

\* The entry is put into the cache even if there was none.
replace(p) ==
    /\ pc[p] \in {"inserted", "replace"}
    /\ Replaced(got[p]) /\ Uses(p)
    /\ Goes(p, "notify")
    /\ UNCHANGED <<row, op, arg, got, todo, svcVars, countVars, wanted, stale, late>>

\* _delete_recursively: the row, and after an audit entry the cache
remove(p) ==
    /\ pc[p] = "remove"
    /\ Write(p, NoRow)
    /\ Goes(p, "forget")
    /\ UNCHANGED <<cache, op, arg, got, sharing, todo, svcVars, countVars, wanted, raced>>

forget(p) ==
    /\ pc[p] = "forget"
    /\ Replaced(NoRow)
    /\ Goes(p, "idle")
    /\ UNCHANGED <<row, op, arg, got, todo, svcVars, countVars, histVars>>

\* Another category needs the place in the cache.
evict ==
    /\ Cached
    /\ Replaced(NoRow)
    /\ UNCHANGED <<row, pc, op, arg, got, todo, svcVars, countVars, histVars>>
-----------------------------------------------------------------------------
(* _run_callbacks, and run() of change_callback.py *)
notify_First(p) ==
    /\ pc[p] = "notify"
    /\ todo' = [todo EXCEPT ![p] = IF registered = {} THEN {} ELSE {CHOOSE s \in registered : TRUE}]
    /\ IF Cached /\ registered # {}
       THEN /\ got' = [got EXCEPT ![p] = cache]
            /\ stale' = IF cache.value = row.value THEN stale \ {p} ELSE stale \cup {p}
            /\ cache' = cache /\ sharing' = {p}
       ELSE UNCHANGED <<got, stale, cache, sharing>>
    /\ Goes(p, IF registered = {} THEN "idle" ELSE IF Cached THEN "post" ELSE "readPayload")
    /\ UNCHANGED <<row, op, arg, svcVars, countVars, wanted, raced, late>>

\* The interest records, and the payload, from the cache if it is there
notify(p) ==
    /\ pc[p] = "notify"
    /\ todo' = [todo EXCEPT ![p] = registered]
    /\ IF Cached /\ registered # {}
       THEN /\ got' = [got EXCEPT ![p] = cache]
            /\ stale' = IF cache.value = row.value THEN stale \ {p} ELSE stale \cup {p}
            /\ cache' = cache /\ sharing' = {p}
       ELSE UNCHANGED <<got, stale, cache, sharing>>
    /\ Goes(p, IF registered = {} THEN "idle" ELSE IF Cached THEN "post" ELSE "readPayload")
    /\ UNCHANGED <<row, op, arg, svcVars, countVars, wanted, raced, late>>

fillPayload(p) ==
    /\ pc[p] = "fillPayload"
    /\ IF got[p] = NoRow
       THEN Goes(p, "idle") /\ UNCHANGED <<cache, sharing, raced>>
       ELSE /\ cache' = got[p] /\ sharing' = {p} /\ Uses(p)
            /\ Goes(p, "post")
    /\ UNCHANGED <<row, op, arg, got, todo, svcVars, countVars, wanted, stale, late>>

\* One POST; a service that is not reached is logged and passed over.
post(p, s) ==
    /\ pc[p] = "post" /\ s \in todo[p]
    /\ todo' = [todo EXCEPT ![p] = @ \ {s}]
    /\ Goes(p, IF todo'[p] = {} THEN "idle" ELSE "post")
    /\ sharing' = IF todo'[p] = {} THEN sharing \ {p} ELSE sharing
    /\ \/ /\ view' = [view EXCEPT ![s] = got[p].value]
          /\ late' = late \ {s}
          /\ Uses(p)
          /\ UNCHANGED faults
       \/ /\ faults < MaxFaults /\ faults' = faults + 1
          /\ late' = late \cup {s}
          /\ UNCHANGED <<view, raced>>
    /\ UNCHANGED <<storeVars, op, arg, got, registered, fetched, requests, wanted, stale>>

\* A service registers its interest after it has read the category.
register(s) ==
    /\ s \in fetched \ registered
    /\ registered' = registered \cup {s}
    /\ UNCHANGED <<storeVars, procVars, fetched, view, countVars, histVars>>
-----------------------------------------------------------------------------
Requests(p) ==
    \/ \E v \in Values : set(p, v) \/ bulk(p, v)
    \/ get(p) \/ delete(p)
    \/ \E s \in Services : fetch(p, s)
    \/ \E d \in Definitions : create(p, d)

Steps(p) ==
    \/ readItem(p) \/ readAll(p) \/ fill(p) \/ update(p) \/ reread(p) \/ refresh(p)
    \/ readRow(p) \/ insert(p) \/ overwrite(p) \/ rereadAll(p) \/ replace(p)
    \/ remove(p) \/ forget(p)
    \/ notify(p) \/ fillPayload(p) \/ \E s \in Services : post(p, s)

Next ==
    \/ \E p \in Procs : Requests(p) \/ Steps(p)
    \/ \E s \in Services : register(s)
    \/ evict

Spec == Init /\ [][Next]_vars
-----------------------------------------------------------------------------
(* Properties *)
Quiet == \A p \in Procs : pc[p] = "idle"

(***************************************************************************)
(* When no request is in progress the cache agrees with the storage        *)
(* service.  What can make it disagree for good is a coroutine that goes   *)
(* on with what it read before another one's write.                        *)
(***************************************************************************)
CacheFresh == Quiet /\ ~ raced => cache \in {NoRow, row}


(***************************************************************************)
(* When no request is in progress every registered service works with the  *)
(* value stored, and one that could not be reached does not keep the       *)
(* others from being told (run() of change_callback.py).  The exceptions   *)
(* are the same race, a service that was not reached, and one that read    *)
(* the category before a change and registered after it.                   *)
(***************************************************************************)
ServicesInformed ==
    Quiet /\ ~ raced /\ row # NoRow =>
        \A s \in registered \ late : view[s] = row.value
=============================================================================
