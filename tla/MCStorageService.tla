-------------------------- MODULE MCStorageService --------------------------
(* Small instances of StorageService.                                      *)
EXTENDS StorageService

\* Each thread in a process of its own, or all in one.
Apart    == [t \in Threads |-> t]
Together == [t \in Threads |-> "process"]

Mixed == {[url |-> u, on |-> "reading", of |-> Every] : u \in Urls}
             \cup [url : Urls, on : {"insert"}, of : Keys]

\* Registrations are made while one thread calls: what two threads do to each
\* other is looked at without them.
Focus == changes' > 0 => clients' \subseteq {CHOOSE t \in Threads : TRUE}

\* The types of the variables; the numbers recorded are those of the threads
\* in the list, and the worker holds a payload exactly while it sends.
TypeOK ==
    /\ statics \subseteq Range(ProcessOf) \X Sequenced /\ clients \subseteq Threads
    /\ seqnum \in [Threads -> 0 .. MaxCalls]
    /\ Len(lru) <= MaxEntries /\ Cardinality(Range(lru)) = Len(lru)
    /\ \A t \in Threads : last[t] > 0 <=> t \in Range(lru)
    /\ applied \in [Calls -> 0 .. 2]
    /\ refusals \in [Urls -> Nat]
    /\ Range(registrations) \cup Range(tableRegistrations) \subseteq Subscriptions
    /\ worker \in {"run", "empty", "waiting", "send"}
    /\ item # <<>> <=> worker = "send"
    /\ phase \in DOMAIN Kinds
=============================================================================
