--------------------------- MODULE StorageService ---------------------------
(***************************************************************************)
(* The composition of the storage service, its clients and the services    *)
(* that registered an interest, and what it promises to them.              *)
(***************************************************************************)
EXTENDS StorageApi

CONSTANTS
    Subscriptions, \* the registrations that are made
    MaxFaults      \* bound: faults of all kinds

ASSUME ServiceAssumption == Subscriptions \subseteq Interest /\ MaxFaults \in Nat

KeysOf(fn) == IF fn = "deleteTable" THEN Keys \cup {Every} ELSE Keys

Client(t) ==
    \/ query(t)
    \/ \E fn \in Functions : \E key \in KeysOf(fn) : request(t, fn, key)

ClientStep == (\E t \in Threads : Client(t)) /\ UNCHANGED <<registryVars, apiVars, histVars>>

Serve ==
    \/ \E r \in wire : accept(r)
    \/ take
    \/ \E h \in handling : checkSeqNum(h) \/ plugin(h) \/ respond(h)

RegistryStep(A) == A /\ UNCHANGED <<clientVars, apiVars, histVars>>

Fault ==
    /\ breaks + fails + flips < MaxFaults
    /\ \/ (\E t \in Threads : break(t)) /\ UNCHANGED <<registryVars, apiVars, histVars>>
       \/ \E h \in handling : pluginFails(h)
       \/ RegistryStep(\E u \in Urls : flip(u))

Next ==
    \/ ClientStep
    \/ Serve
    \/ RegistryStep(Worker)
    \/ RegistryStep(\E r \in Subscriptions : Change(r))
    \/ Fault

Spec == Init /\ [][Next]_vars

\* The threads of the storage service go on, and what is sent arrives or the
\* connection breaks.  Nothing is assumed of the plugin rejecting, of the
\* registered services or of who calls.
Fairness ==
    /\ WF_vars(Serve)
    /\ WF_vars(RegistryStep(Worker))

FairSpec == Spec /\ Fairness
-----------------------------------------------------------------------------
(* Properties *)
Returned(c) == Len(told[c[1]]) >= c[2]
Function(c) == IF Returned(c) THEN told[c[1]][c[2]].fn ELSE call[c[1]].fn
InProgress(c) == \E h \in handling : Id(h.req) = c

(***************************************************************************)
(* A call that has a sequence number is carried out at most once, however  *)
(* often it is sent and in whatever order its two copies are handled.  The *)
(* exception is a thread that the storage service has forgotten meanwhile. *)
(***************************************************************************)
AppliedOnce ==
    \A c \in Calls : applied[c] > 1 => c[1] \in forgotten \/ Function(c) \notin Sequenced

(***************************************************************************)
(* A caller that is told of success may rely on it: the call was carried   *)
(* out.  What the code does not exclude is that the first copy, because of *)
(* which the second was answered, is still in the plugin or was rejected.  *)
(***************************************************************************)
OkMeansApplied ==
    \A c \in Calls :
        Returned(c) /\ told[c[1]][c[2]].what # "error" =>
            applied[c] > 0 \/ InProgress(c) \/ c \in rejected


(***************************************************************************)
(* What is stored while a service is registered for it is sent to it, or   *)
(* refused by it, although a notification of the worker can be lost.  The  *)
(* exceptions are a registration of that service that has been removed     *)
(* since, and a service, this or another, that hangs for ever.             *)
(***************************************************************************)
Settled(o) == <<o.url, o.id>> \in delivered \cup failed \/ <<o.url, o.on>> \in gone

OwedSent ==
    <>[](\A u \in Urls : listening[u] # "hung") => []<>(\A o \in owed : Settled(o))
=============================================================================
