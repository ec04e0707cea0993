----------------------------- MODULE StorageApi -----------------------------
(***************************************************************************)
(* The storage service (C/services/storage/storage_api.cpp) with the       *)
(* clients that call it and the registrations it serves: a request is      *)
(* checked against the last sequence number of its thread, carried out by  *)
(* the storage plugin, queued for the interested services and answered.    *)
(* Readings are appended by a pool of worker threads, the other requests   *)
(* by the threads of the HTTP server, which are not limited here.          *)
(***************************************************************************)
EXTENDS StorageClient, StorageRegistry, FiniteSets

CONSTANTS
    PoolSize,       \* m_workerPoolSize
    MaxEntries      \* max_entries_in_seqnum_map

ASSUME ApiAssumption ==
    PoolSize \in Nat \ {0} /\ MaxEntries \in Nat \ {0}

VARIABLES
    poolQueue,  \* m_queue: the appends that wait for a worker
    handling,   \* the requests being handled, and how far: check, plugin, registry
    lru,        \* seqnum_map_lru_list, the most recent first
    last,       \* m_seqnum_map: the last number of each thread in lru
    fails,
    applied,    \* history: how often each call was carried out
    owed,       \* history: the URLs registered for a call when it was carried out
    forgotten,  \* history: the threads that have been dropped from lru
    rejected    \* history: the calls that the plugin has rejected

apiVars  == <<poolQueue, handling, lru, last, fails>>
histVars == <<applied, owed, forgotten, rejected>>
vars == <<clientVars, registryVars, apiVars, histVars>>

Calls == Threads \X (1 .. MaxCalls)
Id(r) == <<r.t, r.k>>

ApiInit ==
    /\ poolQueue = <<>> /\ handling = {}
    /\ lru = <<>> /\ last = [t \in Threads |-> 0]
    /\ fails = 0
    /\ applied = [c \in Calls |-> 0] /\ owed = {} /\ forgotten = {} /\ rejected = {}

Init == ClientInit /\ RegistryInit /\ ApiInit
-----------------------------------------------------------------------------
Kind(r) == CASE r.fn = "readingAppend" -> "reading" [] r.fn = "updateTable" -> "update"
             [] r.fn = "insertTable" -> "insert" [] r.fn = "deleteTable" -> "delete"

Payload(r) == [kind |-> Kind(r), key |-> r.key, id |-> Id(r)]

Begin(r) == [req |-> r, pc |-> IF r.num > 0 THEN "check" ELSE "plugin"]
Moves(h, pc) == handling' = (handling \ {h}) \cup {[h EXCEPT !.pc = pc]}
Done(h) == handling' = handling \ {h}

\* A request arrives; readingAppendWrapper queues it for the pool.
accept(r) ==
    /\ r \in wire
    /\ wire' = wire \ {r}
    /\ IF r.fn = "readingAppend"
       THEN poolQueue' = Append(poolQueue, r) /\ UNCHANGED handling
       ELSE handling' = handling \cup {Begin(r)} /\ UNCHANGED poolQueue
    /\ UNCHANGED <<statics, clients, seqnum, call, told, breaks, registryVars,
                   lru, last, fails, histVars>>

\* worker: a free thread of the pool takes the next append.
take ==
    /\ poolQueue # <<>>
    /\ Cardinality({h \in handling : h.req.fn = "readingAppend"}) < PoolSize
    /\ poolQueue' = Tail(poolQueue)
    /\ handling' = handling \cup {Begin(Head(poolQueue))}
    /\ UNCHANGED <<clientVars, registryVars, lru, last, fails, histVars>>

Known(t) == t \in Range(lru)

\* A repeat, or an old request.
Repeat_Smaller(r) == Known(r.t) /\ r.num < last[r.t]
Repeat(r) == Known(r.t) /\ r.num <= last[r.t]

\* The thread moves to the front of the list; when the list is full a new
\* thread takes the place of the least recently used one.
Recent(t) ==
    CASE Known(t) -> <<t>> \o SelectSeq(lru, LAMBDA u : u # t)
      [] ~ Known(t) /\ Len(lru) = MaxEntries -> <<t>> \o Front(lru)
      [] OTHER -> <<t>> \o lru

\* The sequence number is looked at and recorded before anything is done.
checkSeqNum(h) ==
    /\ h \in handling /\ h.pc = "check"
    /\ LET t == h.req.t IN
       IF Repeat(h.req)
       THEN /\ Answer(h.req, "zero")
            /\ Done(h)
            /\ UNCHANGED <<lru, last, forgotten>>
       ELSE /\ lru' = Recent(t)
            /\ last' = [u \in Threads |-> IF u = t THEN h.req.num
                                          ELSE IF u \in Range(lru') THEN last[u] ELSE 0]
            /\ forgotten' = forgotten \cup (Range(lru) \ Range(lru'))
            /\ Moves(h, "plugin")
            /\ UNCHANGED <<call, told>>
    /\ UNCHANGED <<statics, clients, seqnum, wire, breaks, registryVars,
                   poolQueue, fails, applied, owed, rejected>>

\* The plugin carries out the request.
plugin(h) ==
    /\ h \in handling /\ h.pc = "plugin"
    /\ applied' = [applied EXCEPT ![Id(h.req)] = @ + 1]
    /\ owed' = owed \cup [url : Range(Recipients(Payload(h.req))), id : {Id(h.req)}, on : {Kind(h.req)}]
    /\ Moves(h, "registry")
    /\ UNCHANGED <<clientVars, registryVars, poolQueue, lru, last, fails, forgotten, rejected>>

\* The plugin rejects it.
pluginFails(h) ==
    /\ h \in handling /\ h.pc = "plugin"
    /\ fails' = fails + 1
    /\ rejected' = rejected \cup {Id(h.req)}
    /\ Answer(h.req, "error")
    /\ Done(h)
    /\ UNCHANGED <<statics, clients, seqnum, wire, breaks, registryVars, poolQueue, lru, last,
                   applied, owed, forgotten>>

\* The payload is queued for the interested services, and the request answered.
respond(h) ==
    /\ h \in handling /\ h.pc = "registry"
    /\ process(Payload(h.req))
    /\ Answer(h.req, "rows")
    /\ Done(h)
    /\ UNCHANGED <<statics, clients, seqnum, wire, breaks, regVars, phase, item, todo, sendVars,
                   listening, changes, flips, poolQueue, lru, last, fails, histVars>>
=============================================================================
