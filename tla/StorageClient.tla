---------------------------- MODULE StorageClient ----------------------------
(***************************************************************************)
(* The client of the storage service in a service or task                  *)
(* (C/common/storage_client.cpp), one StorageClient per process, used by   *)
(* the threads of the process.  A request that changes readings or updates *)
(* a table has a sequence number of its thread; when the connection breaks *)
(* the HTTP client sends the same request a second time, once.             *)
(***************************************************************************)
EXTENDS Naturals, Sequences, FiniteSetsExt

CONSTANTS
    Threads,
    ProcessOf,      \* ProcessOf[t]: the process of thread t
    Functions,      \* the functions called: readingAppend, updateTable, insertTable, deleteTable
    MaxCalls        \* bound: calls, of all threads together

Sequenced == {"readingAppend", "updateTable"}   \* the functions that send SeqNum
Idle      == [k |-> 0]

ASSUME ClientAssumption ==
    /\ DOMAIN ProcessOf = Threads
    /\ MaxCalls \in Nat

VARIABLES
    statics,    \* pairs of a process and a function whose static is initialised
    clients,    \* the threads with an entry in m_client_map
    seqnum,     \* m_seqnum_map
    call,       \* call[t]: the request thread t waits for, or Idle
    told,       \* told[t]: what each call of t returned: rows, zero or error
    wire,       \* requests on their way to the storage service
    breaks

clientVars == <<statics, clients, seqnum, call, told, wire, breaks>>

ClientInit ==
    /\ statics = {} /\ clients = {}
    /\ seqnum = [t \in Threads |-> 0]
    /\ call = [t \in Threads |-> Idle]
    /\ told = [t \in Threads |-> <<>>]
    /\ wire = {} /\ breaks = 0
-----------------------------------------------------------------------------
\* getHttpClient: the first use by a thread creates its HTTP client and sets
\* its sequence number to zero.
Number(t, n) == IF t \in clients THEN n ELSE 0

\* "static HttpClient *httpClient = this->getHttpClient()": evaluated in the
\* first call of the function in the process, by whichever thread makes it.
FirstCall(t, fn) == <<ProcessOf[t], fn>> \notin statics

\* The number that a call of fn by t sends, and the number that it leaves:
\* the request is sent through getHttpClient too.
Sends_First(t, fn) == IF FirstCall(t, fn) THEN Number(t, seqnum[t]) + 1 ELSE seqnum[t]
Sends(t, fn) == (IF FirstCall(t, fn) THEN Number(t, seqnum[t]) ELSE seqnum[t]) + 1
Leaves(t, fn) == IF FirstCall(t, fn) THEN Sends(t, fn) ELSE Number(t, Sends(t, fn))

\* A call that only reads.
query(t) ==
    /\ call[t] = Idle /\ t \notin clients
    /\ clients' = clients \cup {t}
    /\ seqnum' = [seqnum EXCEPT ![t] = Number(t, @)]
    /\ UNCHANGED <<statics, call, told, wire, breaks>>

Started == FoldSet(LAMBDA t, n : n + Len(told[t]) + (IF call[t] = Idle THEN 0 ELSE 1), 0, Threads)

\* A call of a function that changes something.
request(t, fn, key) ==
    /\ call[t] = Idle
    /\ Started < MaxCalls
    /\ LET seq == fn \in Sequenced
           r == [t |-> t, k |-> Len(told[t]) + 1, fn |-> fn, key |-> key,
                 num |-> IF seq THEN Sends(t, fn) ELSE 0, n |-> 1]
       IN  /\ seqnum' = [seqnum EXCEPT ![t] = IF seq THEN Leaves(t, fn) ELSE Number(t, @)]
           /\ statics' = statics \cup (IF seq THEN {<<ProcessOf[t], fn>>} ELSE {})
           /\ call' = [call EXCEPT ![t] = r]
           /\ wire' = wire \cup {r}
    /\ clients' = clients \cup {t}
    /\ UNCHANGED <<told, breaks>>

\* The answer to r, if the thread still waits for it.
Answer(r, what) ==
    IF call[r.t] = r
    THEN /\ call' = [call EXCEPT ![r.t] = Idle]
         /\ told' = [told EXCEPT ![r.t] = Append(@, [fn |-> r.fn, what |-> what])]
    ELSE UNCHANGED <<call, told>>

\* The connection breaks; the request may or may not have reached the storage
\* service, or may reach it later.  It is sent again, and the second time the
\* call throws and the caller takes it for a failure.
break(t) ==
    /\ call[t] # Idle
    /\ breaks' = breaks + 1
    /\ \E lost \in {{}, {call[t]}} :
         IF call[t].n = 1
         THEN LET again == [call[t] EXCEPT !.n = 2] IN
              /\ call' = [call EXCEPT ![t] = again]
              /\ wire' = (wire \ lost) \cup {again}
              /\ UNCHANGED told
         ELSE /\ Answer(call[t], "error")
              /\ wire' = wire \ lost
    /\ UNCHANGED <<statics, clients, seqnum>>
=============================================================================
