--------------------------- MODULE MCSouthIngest ---------------------------
(* Small instances of SouthIngest, and the properties that are about the   *)
(* order and the number of the readings on their way to storage.           *)
EXTENDS SouthIngest, SequencesExt

Unlimited == [type |-> "unlimited", size |-> 3, policy |-> "discardOldest"]
Limited(p) == [type |-> "limited", size |-> 3, policy |-> p]

MCFidelity   == {Limited("reduceFidelity")}
MCOldNew     == {Unlimited, Limited("discardOldest"), Limited("discardNewest")}

(***************************************************************************)
(* One disturbance in a behaviour: a limit on the buffer, a configuration  *)
(* change, or a shutdown.  A limit and a change together make ingest()     *)
(* spin, a change during a shutdown keeps the destructor from returning,   *)
(* and a change loses the readings a filter keeps back.                    *)
(***************************************************************************)
OneDisturbance ==
    reconfigs' > 0 => limit.type = "unlimited" /\ ~m_shutdown' /\ held' = <<>>

\* The blocks producers have taken off m_queue and not yet pushed.
InHand == FlattenSeq(SetToSeq({fullQueue[p] : p \in Producers}))

\* The readings in the buffers, the ones nearest to the storage service first.
InFilter ==
    IF \E t \in Senders : pc[t] = "filter" THEN held \o FlattenSeq(m_data)
                                           ELSE FlattenSeq(m_data) \o held

BufferPath == FlattenSeq(m_resendQueues) \o InFilter \o FlattenSeq(m_fullQueues)
                 \o FlattenSeq(InHand) \o m_queue

=============================================================================
