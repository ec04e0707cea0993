--------------------------- MODULE StorageRegistry ---------------------------
(***************************************************************************)
(* The registrations of interest of the storage service                    *)
(* (C/services/storage/storage_registry.cpp): services register a URL for  *)
(* an asset, or for one kind of change to a table, the handlers of the API *)
(* queue what they have stored, and one worker thread sends it on.         *)
(*                                                                         *)
(* A payload has one key: the asset of its readings, or the value of the   *)
(* key column of its row.  There is one table.  The queues are changed in  *)
(* one step, although run() takes from them under m_cvMutex and the        *)
(* handlers add to them under m_qMutex.                                    *)
(***************************************************************************)
EXTENDS Naturals, Sequences, SequencesExt

CONSTANTS
    Urls,           \* the URLs that services register
    Keys,           \* assets, and values of the key column
    MAX_REFUSALS,
    MaxChanges      \* bound: registrations and removals on request

Kinds  == <<"reading", "insert", "update", "delete">>
Tables == {"insert", "update", "delete"}
Every  == "every"   \* the asset *, an empty key, or the deletion of every row

Interest == [url : Urls, on : Range(Kinds), of : Keys \cup {Every}]

ASSUME RegistryAssumption ==
    /\ MAX_REFUSALS \in Nat \ {0} /\ MaxChanges \in Nat
    /\ Every \notin Keys

VARIABLES
    registrations, tableRegistrations, \* m_registrations, m_tableRegistrations
    queues,         \* queues[k]: the payloads of kind k still to be sent
    refusals,       \* m_refusals
    worker,         \* where run() is: run, empty, waiting or send
    phase,          \* index in Kinds of the queue being drained
    item, todo,     \* the payload being sent, and the URLs still to send it to
    listening,      \* listening[u]: up, down (refuses), broken (fails) or hung
    changes, flips,
    delivered, failed, \* history: pairs of a URL and a payload sent to it
    gone               \* history: pairs of a URL and a kind that lost a registration

regVars    == <<registrations, tableRegistrations, gone>>
workerVars == <<worker, phase, item, todo>>
sendVars   == <<refusals, delivered, failed>>
registryVars == <<regVars, queues, workerVars, sendVars, listening, changes, flips>>

RegistryInit ==
    /\ registrations = <<>> /\ tableRegistrations = <<>>
    /\ queues = [k \in Range(Kinds) |-> <<>>]
    /\ refusals = [u \in Urls |-> 0]
    /\ worker = "run" /\ phase = 1 /\ item = <<>> /\ todo = <<>>
    /\ listening = [u \in Urls |-> "up"]
    /\ changes = 0 /\ flips = 0
    /\ delivered = {} /\ failed = {} /\ gone = {}
-----------------------------------------------------------------------------
\* The registrations that a payload is sent to, by kind: filterPayload,
\* processInsert, processUpdate and processDelete.  The registrations for
\* every asset come before those for one.
filterPayload(r, p) == r.of = p.key
processInsert(r, p) == r.on = "insert" /\ r.of \in {Every, p.key}
processUpdate(r, p) == r.on = "update" /\ r.of \in {Every, p.key}
processDelete(r, p) == r.on = "delete" /\ (r.of \in {Every, p.key} \/ p.key = Every)

processPayload(p) ==
    SelectSeq(registrations, LAMBDA r : r.of = Every)
        \o SelectSeq(registrations, LAMBDA r : filterPayload(r, p))

Interests(p) ==
    CASE p.kind = "reading" -> processPayload(p)
      [] p.kind = "insert"  -> SelectSeq(tableRegistrations, LAMBDA r : processInsert(r, p))
      [] p.kind = "update"  -> SelectSeq(tableRegistrations, LAMBDA r : processUpdate(r, p))
      [] p.kind = "delete"  -> SelectSeq(tableRegistrations, LAMBDA r : processDelete(r, p))

Recipients(p) == LET found == Interests(p) IN [i \in DOMAIN found |-> found[i].url]

Push(p) ==
    /\ queues' = [queues EXCEPT ![p.kind] = Append(@, p)]
    /\ worker' = IF worker = "waiting" THEN "run" ELSE worker

\* process, and processTableInsert, processTableUpdate, processTableDelete:
\* nothing is queued while nobody has registered.
processReadings(p) ==
    /\ p.kind = "reading"
    /\ IF registrations # <<>> THEN Push(p) ELSE UNCHANGED <<queues, worker>>
processTable(p) ==
    /\ p.kind # "reading"
    /\ IF tableRegistrations # <<>> THEN Push(p) ELSE UNCHANGED <<queues, worker>>
process(p) == processReadings(p) \/ processTable(p)
-----------------------------------------------------------------------------
(* The worker thread *)
\* The queues that are not empty, from the one being drained on.
Waiting(from) == {i \in from .. Len(Kinds) : queues[Kinds[i]] # <<>>}

\* The loops of run() over the queues: each is drained before the next.
drain ==
    /\ worker = "run" /\ Waiting(phase) # {}
    /\ phase' = Min(Waiting(phase))
    /\ LET k == Kinds[phase'] IN
       /\ item' = Head(queues[k])
       /\ queues' = [queues EXCEPT ![k] = Tail(@)]
    /\ todo' = Recipients(item')
    /\ worker' = "send"
    /\ UNCHANGED <<regVars, sendVars, listening, changes, flips>>

\* After the last queue it starts again with the first, or finds all empty.
again ==
    /\ worker = "run" /\ Waiting(phase) = {}
    /\ worker' = IF Waiting(1) = {} THEN "empty" ELSE "run"
    /\ phase' = 1
    /\ UNCHANGED <<regVars, queues, item, todo, sendVars, listening, changes, flips>>

wait ==
    /\ worker = "empty"
    /\ worker' = "waiting"
    /\ UNCHANGED <<regVars, queues, phase, item, todo, sendVars, listening, changes, flips>>

\* m_cv.wait_for returns after REGISTRY_SLEEP_TIME.
timeout_Never ==
    /\ FALSE
    /\ UNCHANGED registryVars
timeout ==
    /\ worker = "waiting"
    /\ worker' = "run"
    /\ UNCHANGED <<regVars, queues, phase, item, todo, sendVars, listening, changes, flips>>

\* sendPayload, and the end of filterPayload.  The request has no time limit.
sendPayload ==
    /\ worker = "send" /\ todo # <<>>
    /\ LET u == Head(todo) IN
       \/ /\ listening[u] = "up"
          /\ delivered' = delivered \cup {<<u, item.id>>}
          /\ UNCHANGED <<refusals, failed>>
       \/ /\ listening[u] = "down"
          /\ refusals' = [refusals EXCEPT ![u] = @ + 1]
          /\ failed' = failed \cup {<<u, item.id>>}
          /\ UNCHANGED delivered
       \/ /\ listening[u] = "broken"
          /\ failed' = failed \cup {<<u, item.id>>}
          /\ UNCHANGED <<refusals, delivered>>
    /\ todo' = Tail(todo)
    /\ UNCHANGED <<regVars, queues, worker, phase, item, listening, changes, flips>>

\* A registration is removed when its URL has refused too often; the count
\* goes with it, so that a second registration of the URL stays.
Removed(s) ==
    {i \in DOMAIN s : /\ refusals[s[i].url] >= MAX_REFUSALS
                      /\ \A j \in 1 .. i - 1 : s[j].url # s[i].url}

Without(s, out) ==
    FoldLeft(LAMBDA kept, i : IF i \in out THEN kept ELSE Append(kept, s[i]),
             <<>>, [i \in DOMAIN s |-> i])

Lost(s, lost) == gone' = gone \cup {<<s[i].url, s[i].on>> : i \in lost}

Forgiven(s) ==
    [u \in Urls |-> IF \E i \in Removed(s) : s[i].url = u THEN 0 ELSE refusals[u]]

processAssetRefusals ==
    /\ registrations' = Without(registrations, Removed(registrations))
    /\ refusals' = Forgiven(registrations)
    /\ Lost(registrations, Removed(registrations))
    /\ UNCHANGED tableRegistrations

processTableRefusals ==
    /\ tableRegistrations' = Without(tableRegistrations, Removed(tableRegistrations))
    /\ refusals' = Forgiven(tableRegistrations)
    /\ Lost(tableRegistrations, Removed(tableRegistrations))
    /\ UNCHANGED registrations

\* processUpdate and processDelete look at no refusals.
refused(p) ==
    CASE p.kind = "reading" -> processAssetRefusals
      [] p.kind = "insert"  -> processTableRefusals
      [] OTHER              -> UNCHANGED <<regVars, refusals>>

sent ==
    /\ worker = "send" /\ todo = <<>>
    /\ refused(item)
    /\ worker' = "run" /\ item' = <<>>
    /\ UNCHANGED <<queues, phase, todo, delivered, failed, listening, changes, flips>>
-----------------------------------------------------------------------------
(* Requests of the services: the lock of the registrations is held while a *)
(* payload is sent.                                                        *)
Free(on) ==
    worker = "send" => (item.kind = "reading") # (on = "reading")

registerAsset(r) ==
    /\ r.on = "reading" /\ Free(r.on)
    /\ registrations' = Append(registrations, r)
    /\ UNCHANGED <<tableRegistrations, gone>>

registerTable(r) ==
    /\ r.on # "reading" /\ Free(r.on)
    /\ tableRegistrations' = Append(tableRegistrations, r)
    /\ UNCHANGED <<registrations, gone>>

\* unregisterAsset removes every equal registration, unregisterTable the first.
unregisterAsset(r) ==
    /\ r \in Range(registrations) /\ Free(r.on)
    /\ registrations' = SelectSeq(registrations, LAMBDA q : q # r)
    /\ gone' = gone \cup {<<r.url, r.on>>}
    /\ UNCHANGED tableRegistrations

unregisterTable(r) ==
    /\ r \in Range(tableRegistrations) /\ Free(r.on)
    /\ tableRegistrations' = RemoveFirst(tableRegistrations, r)
    /\ gone' = gone \cup {<<r.url, r.on>>}
    /\ UNCHANGED registrations

Change(r) ==
    /\ changes < MaxChanges /\ changes' = changes + 1
    /\ registerAsset(r) \/ registerTable(r) \/ unregisterAsset(r) \/ unregisterTable(r)
    /\ UNCHANGED <<queues, workerVars, sendVars, listening, flips>>

\* A service that has registered stops, fails, hangs or comes back.
flip(u) ==
    /\ \E r \in Range(registrations) \cup Range(tableRegistrations) : r.url = u
    /\ flips' = flips + 1
    /\ \E s \in {"up", "down", "broken", "hung"} \ {listening[u]} :
          listening' = [listening EXCEPT ![u] = s]
    /\ UNCHANGED <<regVars, queues, workerVars, sendVars, changes>>

Worker == drain \/ again \/ wait \/ timeout \/ sendPayload \/ sent
=============================================================================
