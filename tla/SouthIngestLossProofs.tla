---------------------- MODULE SouthIngestLossProofs ----------------------
(* What becomes of the readings in SouthIngest, for every value of its     *)
(* constants.                                                              *)
EXTENDS SouthIngestProofs

(***************************************************************************)
(* Where a step of processQueue() starts and ends, if m_data is not NULL.  *)
(***************************************************************************)
LEMMA ProcessQueueStep ==
    ASSUME NEW t \in Senders, processQueue(t), ~filterNull(t)
    PROVE  /\ dtor' = dtor
           /\ pc[t] \in {"resend", "takeQ", "filter", "append", "appending", "again"}
           /\ \/ pc' = pc
              \/ pc' = [pc EXCEPT ![t] = ReturnPc(t)]
              \/ \E l \in {"resend", "takeQ", "filter", "append", "appending", "again"} :
                    pc' = [pc EXCEPT ![t] = l]
<1> USE DEF threadVars
<1>1. ASSUME resendOk(t) \/ \E o \in StorageOutcomes : resendFail(t, o)
      PROVE  dtor' = dtor /\ pc[t] = "resend" /\ pc' = pc
  BY <1>1, Zenon DEF resendOk, resendFail
<1>2. ASSUME takeFullQueue(t) \/ noFullQueue(t)
      PROVE  dtor' = dtor /\ pc[t] = "resend" /\ \E l \in {"filter", "takeQ"} : pc' = [pc EXCEPT ![t] = l]
  BY <1>2, Zenon DEF takeFullQueue, noFullQueue, ResendDone, Goto
<1>3. ASSUME takeQueue(t) PROVE dtor' = dtor /\ pc[t] = "takeQ" /\ pc' = [pc EXCEPT ![t] = "filter"]
  BY <1>3, Zenon DEF takeQueue, Goto
<1>4. ASSUME skipFilters(t) \/ filterIngest(t)
      PROVE  /\ dtor' = dtor /\ pc[t] = "filter"
             /\ pc' = [pc EXCEPT ![t] = ReturnPc(t)] \/ pc' = [pc EXCEPT ![t] = "append"]
  BY <1>4, Zenon DEF skipFilters, filterIngest, Goto
<1>5. ASSUME appendCall(t)
      PROVE dtor' = dtor /\ pc[t] = "append" /\ \E l \in {"appending", "again"} : pc' = [pc EXCEPT ![t] = l]
  BY <1>5, Zenon DEF appendCall, Goto
<1>6. ASSUME appendOk(t) \/ \E o \in StorageOutcomes : appendFail(t, o)
      PROVE dtor' = dtor /\ pc[t] = "appending" /\ pc' = [pc EXCEPT ![t] = "again"]
  BY <1>6, Zenon DEF appendOk, appendFail, Goto
<1>7. ASSUME processAgain(t)
      PROVE /\ dtor' = dtor /\ pc[t] = "again"
            /\ pc' = [pc EXCEPT ![t] = ReturnPc(t)] \/ pc' = [pc EXCEPT ![t] = "resend"]
  BY <1>7, Zenon DEF processAgain, Goto
<1> QED
  BY <1>1, <1>2, <1>3, <1>4, <1>5, <1>6, <1>7, Zenon DEF processQueue

(***************************************************************************)
(* Only one thread is in processQueue().                                   *)
(***************************************************************************)
LEMMA SoleSenderStep == TypeOK /\ SoleSender /\ [Next]_vars => SoleSender'
<1> SUFFICES ASSUME ControlType, SoleSender, [Next]_vars PROVE SoleSender'
  BY DEF TypeOK
<1> USE DEF SoleSender, threadVars, Senders
<1>0. pc \in [Senders -> ProcessPcs]
  BY DEF ControlType
<1>1. ASSUME NEW p \in Producers, ingestAppend(p) \/ ingestReturn(p) PROVE SoleSender'
  <2>1. UNCHANGED <<pc, dtor>>
    BY <1>1, Zenon DEF ingestAppend, ingestReturn, enforceResourceLimits, ingestRelease, ingestPush
  <2> QED
    BY <2>1
<1>2. ASSUME NEW t \in Senders, filterNull(t) \/ configChangeDangling PROVE SoleSender'
  <2>1. pc' = [s \in Senders |-> "dead"] /\ dtor' \in Crashes
    BY <1>2, Zenon DEF filterNull, configChangeDangling, Crash, Crashes
  <2> QED
    BY <2>1 DEF Crashes
<1>3. ASSUME ingestThread \/ waitForQueue \/ calculateWaitTime PROVE SoleSender'
  BY <1>0, <1>3 DEF ingestThread, waitForQueue, calculateWaitTime, Goto
<1>4. ASSUME NEW t \in Senders, processQueue(t), ~filterNull(t) PROVE SoleSender'
  <2>1. /\ dtor' = dtor
        /\ pc[t] \in {"resend", "takeQ", "filter", "append", "appending", "again"}
        /\ \/ pc' = pc
           \/ pc' = [pc EXCEPT ![t] = ReturnPc(t)]
           \/ \E l \in {"resend", "takeQ", "filter", "append", "appending", "again"} :
                 pc' = [pc EXCEPT ![t] = l]
    BY <1>4, ProcessQueueStep, Zenon
  <2> QED
    BY <1>0, <2>1 DEF ReturnPc
<1>5. ASSUME handlePendingReconf \/ isolate \/ configChangeStop \/ configChangeNoPipeline \/ loadFilters
             \/ configChangeResume \/ setThreshold \/ setResourceLimit \/ statsThread
      PROVE SoleSender'
  <2>1. UNCHANGED <<pc, dtor>>
    BY <1>5, Zenon DEF handlePendingReconf, isolate, configChangeStop, configChangeNoPipeline,
       loadFilters, configChangeResume, setThreshold, setResourceLimit, statsThread
  <2> QED
    BY <2>1
<1>6. ASSUME dtorFlags \/ destructor PROVE SoleSender'
  BY <1>0, <1>6 DEF dtorFlags, destructor, dtorCleanup, dtorJoin, dtorFinish, Goto
<1>7. ASSUME UNCHANGED vars PROVE SoleSender'
  BY <1>7 DEF vars
<1> QED
  BY <1>1, <1>2, <1>3, <1>4, <1>5, <1>6, <1>7, Zenon DEF Next, Terminated, ingestLoop, reconfigure, Senders

LEMMA OneResendBlockStep == TypeOK /\ SoleSender /\ OneResendBlock /\ [Next]_vars => OneResendBlock'
<1> SUFFICES ASSUME BufferType, ControlType, SoleSender, OneResendBlock, [Next]_vars PROVE OneResendBlock'
  BY DEF TypeOK
<1> USE DEF OneResendBlock, threadVars, bufferVars, Senders
<1>0. pc \in [Senders -> ProcessPcs] /\ m_resendQueues \in Seq(Block) /\ Len(m_resendQueues) \in Nat
  BY LenProperties DEF ControlType, BufferType
<1>1. ASSUME NEW p \in Producers, ingestAppend(p) \/ ingestReturn(p) PROVE OneResendBlock'
  <2>1. UNCHANGED <<pc, m_resendQueues>>
    BY <1>1, Zenon DEF ingestAppend, ingestReturn, enforceResourceLimits, ingestRelease, ingestPush
  <2> QED
    BY <2>1
<1>2. ASSUME NEW t \in Senders, filterNull(t) \/ configChangeDangling PROVE OneResendBlock'
  <2>1. pc' = [s \in Senders |-> "dead"] /\ m_resendQueues' = m_resendQueues
    BY <1>2, Zenon DEF filterNull, configChangeDangling, Crash
  <2> QED
    BY <2>1
<1>3. ASSUME ingestThread \/ waitForQueue \/ calculateWaitTime PROVE OneResendBlock'
  BY <1>0, <1>3 DEF ingestThread, waitForQueue, calculateWaitTime, Goto
<1>4. ASSUME NEW t \in Senders, resendOk(t) PROVE OneResendBlock'
  BY <1>0, <1>4, TailType DEF resendOk
<1>5. ASSUME NEW t \in Senders, NEW o \in StorageOutcomes, resendFail(t, o) PROVE OneResendBlock'
  <2>1. \/ m_resendQueues' = m_resendQueues
        \/ m_resendQueues' = Tail(m_resendQueues)
        \/ \E b : m_resendQueues' = <<b>> \o Tail(m_resendQueues)
    BY <1>5, Zenon DEF resendFail
  <2>2. m_resendQueues # <<>> /\ pc' = pc
    BY <1>5, Zenon DEF resendFail
  <2>3. Tail(m_resendQueues) = <<>>
    BY <1>0, <2>2, TailType, EmptySeq
  <2>4. Len(m_resendQueues') <= 1
    <3>1. CASE m_resendQueues' = m_resendQueues
      BY <3>1
    <3>3. CASE m_resendQueues' = Tail(m_resendQueues)
      BY <2>3, <3>3
    <3>2. ASSUME NEW b, m_resendQueues' = <<b>> \o Tail(m_resendQueues) PROVE Len(m_resendQueues') <= 1
      <4>1. m_resendQueues' = <<b>> \o <<>>
        BY <2>3, <3>2
      <4> QED
        BY <4>1
    <3> QED
      BY <2>1, <3>1, <3>2, <3>3, Zenon
  <2> QED
    BY <2>2, <2>4
<1>6. ASSUME NEW t \in Senders, takeFullQueue(t) \/ noFullQueue(t) PROVE OneResendBlock'
  <2>1. m_resendQueues = <<>> /\ m_resendQueues' = m_resendQueues
    BY <1>6, Zenon DEF takeFullQueue, noFullQueue, ResendDone
  <2> QED
    BY <2>1
<1>7. ASSUME NEW t \in Senders, takeQueue(t) \/ skipFilters(t) \/ filterIngest(t) \/ appendCall(t)
      PROVE OneResendBlock'
  <2>1. pc[t] \in {"takeQ", "filter", "append"} /\ m_resendQueues' = m_resendQueues
    BY <1>7, Zenon DEF takeQueue, skipFilters, filterIngest, appendCall
  <2> QED
    BY <2>1
<1>8. ASSUME NEW t \in Senders, appendOk(t) PROVE OneResendBlock'
  BY <1>8 DEF appendOk
<1>9. ASSUME NEW t \in Senders, NEW o \in StorageOutcomes, appendFail(t, o) PROVE OneResendBlock'
  <2>1. m_resendQueues = <<>>
    BY <1>9 DEF appendFail
  <2>2. Len(m_resendQueues') <= 1
    BY <1>9, <2>1 DEF appendFail, BufferType
  <2>3. \A s \in Senders : pc'[s] \notin {"takeQ", "filter", "append", "appending"}
    BY <1>0, <1>9 DEF appendFail, Goto, SoleSender
  <2> QED
    BY <2>2, <2>3
<1>10. ASSUME NEW t \in Senders, processAgain(t) PROVE OneResendBlock'
  BY <1>0, <1>10 DEF processAgain, Goto, ReturnPc
<1>11. ASSUME handlePendingReconf \/ isolate \/ configChangeStop \/ configChangeNoPipeline \/ loadFilters
              \/ configChangeResume \/ setThreshold \/ setResourceLimit \/ statsThread
              \/ dtorFlags \/ dtorCleanup
       PROVE OneResendBlock'
  <2>1. UNCHANGED <<pc, m_resendQueues>>
    BY <1>11, Zenon DEF handlePendingReconf, isolate, configChangeStop, configChangeNoPipeline,
       loadFilters, configChangeResume, setThreshold, setResourceLimit, statsThread,
       dtorFlags, dtorCleanup
  <2> QED
    BY <2>1
<1>12. ASSUME dtorJoin \/ dtorFinish PROVE OneResendBlock'
  BY <1>0, <1>12 DEF dtorJoin, dtorFinish, Goto
<1>13. ASSUME UNCHANGED vars PROVE OneResendBlock'
  BY <1>13 DEF vars
<1>14. ASSUME NEW t \in Senders, processQueue(t) PROVE OneResendBlock'
  BY <1>2, <1>4, <1>5, <1>6, <1>7, <1>8, <1>9, <1>10, <1>14, Zenon DEF processQueue
<1> QED
  BY <1>1, <1>2, <1>3, <1>11, <1>12, <1>13, <1>14, Zenon
     DEF Next, Terminated, ingestLoop, reconfigure, destructor, Senders

(***************************************************************************)
(* processQueue() empties the resend queue before it takes another block,  *)
(* and only one thread runs it, so at most one block waits to be resent.   *)
(***************************************************************************)
THEOREM ResendBounded == Spec => []OneResendBlock
<1>1. Init => SoleSender /\ OneResendBlock
  BY DEF Init, SoleSender, OneResendBlock, Senders
<1>2. TypeOK /\ SoleSender /\ OneResendBlock /\ [Next]_vars => SoleSender' /\ OneResendBlock'
  BY SoleSenderStep, OneResendBlockStep
<1> QED
  BY <1>1, <1>2, TypeCorrect, PTL DEF Spec

(***************************************************************************)
(* Custody of the blocks, if no filter keeps readings back.                *)
(***************************************************************************)
NoHold == "hold" \notin FilterModes

LEMMA SingletonPtr ==
    ASSUME NEW b \in Seq(Block), b # <<>>, Len(b) <= 1
    PROVE  b = <<b[1]>>
<1>1. Len(b) = 1 /\ b[1] \in Block
  <2>1. Len(b) \in Nat /\ Len(b) > 0 /\ b[1] \in Block
    BY TailType, Zenon
  <2>2. \A n \in Nat : n > 0 /\ n <= 1 => n = 1
    OBVIOUS
  <2> QED
    BY <2>1, <2>2, Zenon
<1>2. <<b[1]>> \in Seq(Block) /\ Len(<<b[1]>>) = 1 /\ <<b[1]>>[1] = b[1]
  BY <1>1, PtrType
<1> QED
  BY <1>1, <1>2, SeqEqual

LEMMA CleanupWithoutHeld ==
    ASSUME held = <<>>, cleanupFilters
    PROVE  held' = <<>> /\ m_data' = m_data /\ filtered \subseteq filtered'
  BY Zenon DEF cleanupFilters, useFilteredData

LEMMA CustodyStep == NoHold /\ TypeOK /\ SoleSender /\ Custody /\ [Next]_vars => Custody'
<1> SUFFICES ASSUME NoHold, BufferType, ControlType, SoleSender, Custody, [Next]_vars PROVE Custody'
  BY DEF TypeOK
<1> USE DEF Custody, Crashed, Crashes, threadVars, bufferVars, ghostVars, Senders
<1>0. /\ pc \in [Senders -> ProcessPcs] /\ ppc \in [Producers -> {"idle", "locked", "push", "dead"}]
      /\ fullQueue \in [Producers -> Seq(Block)]
  BY DEF ControlType, BufferType
<1>1. ASSUME NEW p \in Producers, ingestAppend(p) \/ ingestReturn(p) PROVE Custody'
  <2>1. UNCHANGED <<held, m_data, sending, pc, dtor>>
    BY <1>1, Zenon DEF ingestAppend, ingestReturn, enforceResourceLimits, ingestRelease, ingestPush
  <2>2. \A q \in Producers : fullQueue'[q] # Null => ppc'[q] \in {"push", "dead"}
    <3>1. ASSUME ingestAppend(p) PROVE \A q \in Producers : fullQueue'[q] # Null => ppc'[q] \in {"push", "dead"}
      BY <1>0, <3>1 DEF ingestAppend
    <3>2. ASSUME enforceResourceLimits(p)
          PROVE  \A q \in Producers : fullQueue'[q] # Null => ppc'[q] \in {"push", "dead"}
      BY <1>0, <3>2 DEF enforceResourceLimits
    <3>3. ASSUME ingestRelease(p) PROVE \A q \in Producers : fullQueue'[q] # Null => ppc'[q] \in {"push", "dead"}
      BY <1>0, <3>3 DEF ingestRelease
    <3>4. ASSUME ingestPush(p) PROVE \A q \in Producers : fullQueue'[q] # Null => ppc'[q] \in {"push", "dead"}
      BY <1>0, <3>4 DEF ingestPush
    <3> QED
      BY <1>1, <3>1, <3>2, <3>3, <3>4 DEF ingestReturn
  <2> QED
    BY <2>1, <2>2
<1>2. ASSUME NEW t \in Senders, filterNull(t) \/ configChangeDangling PROVE Custody'
  <2>1. /\ UNCHANGED <<held, m_data, sending, fullQueue>>
        /\ pc' = [s \in Senders |-> "dead"] /\ ppc' = [p \in Producers |-> "dead"] /\ dtor' \in Crashes
    BY <1>2, Zenon DEF filterNull, configChangeDangling, Crash, Crashes
  <2> QED
    BY <2>1
<1>3. ASSUME UNCHANGED <<held, m_data, sending, fullQueue, ppc>>, UNCHANGED dtor \/ ~Crashed,
             \A s \in Senders : \/ pc'[s] = pc[s]
                                \/ pc[s] = "filter" /\ pc'[s] = "append"
                                \/ /\ pc[s] \notin {"filter", "append", "appending"}
                                   /\ pc'[s] \notin {"filter", "append", "appending"}
      PROVE Custody'
  BY <1>3
<1>4. ASSUME ingestThread \/ waitForQueue \/ calculateWaitTime PROVE Custody'
  <2>1. UNCHANGED <<held, m_data, sending, fullQueue, ppc, dtor>>
    BY <1>4, Zenon DEF ingestThread, waitForQueue, calculateWaitTime
  <2>2. \A s \in Senders : \/ pc'[s] = pc[s]
                           \/ /\ pc[s] \notin {"filter", "append", "appending"}
                              /\ pc'[s] \notin {"filter", "append", "appending"}
    BY <1>0, <1>4 DEF ingestThread, waitForQueue, calculateWaitTime, Goto
  <2> QED
    BY <1>3, <2>1, <2>2
<1>5. ASSUME NEW t \in Senders, \/ resendOk(t) \/ (\E o \in StorageOutcomes : resendFail(t, o))
                               \/ skipFilters(t) \/ processAgain(t)
      PROVE Custody'
  <2>1. UNCHANGED <<held, m_data, sending, fullQueue, ppc, dtor>>
    BY <1>5, Zenon DEF resendOk, resendFail, skipFilters, processAgain
  <2>2. \/ pc' = pc
        \/ pc[t] = "filter" /\ pc' = [pc EXCEPT ![t] = "append"]
        \/ /\ pc[t] = "again"
           /\ pc' = [pc EXCEPT ![t] = ReturnPc(t)] \/ pc' = [pc EXCEPT ![t] = "resend"]
    BY <1>5, Zenon DEF resendOk, resendFail, skipFilters, processAgain, Goto
  <2> QED
    BY <1>0, <1>3, <2>1, <2>2 DEF ReturnPc
\* Nobody else is in processQueue(), so the block in m_data is that of t.
<1>6. ASSUME NEW t \in Senders, NEW s \in Senders, s # t, pc[t] \notin {"idle", "exited", "dead"}
      PROVE  pc[s] \in {"idle", "exited", "dead"}
  BY <1>6 DEF SoleSender
<1>7. ASSUME NEW t \in Senders, takeFullQueue(t) \/ takeQueue(t) \/ noFullQueue(t) PROVE Custody'
  <2>1. UNCHANGED <<held, sending, fullQueue, ppc, dtor>>
    BY <1>7, Zenon DEF takeFullQueue, takeQueue, noFullQueue
  <2>2. /\ pc[t] \in {"resend", "takeQ"}
        /\ pc' = [pc EXCEPT ![t] = "filter"] \/ (pc' = [pc EXCEPT ![t] = "takeQ"] /\ m_data' = m_data)
    BY <1>7, Zenon DEF takeFullQueue, takeQueue, noFullQueue, ResendDone, Goto
  <2>3. \A s \in Senders : pc[s] # "appending"
    BY <1>6, <2>2
  <2> QED
    BY <1>0, <2>1, <2>2, <2>3
<1>8. ASSUME NEW t \in Senders, filterIngest(t) PROVE Custody'
  <2>1. UNCHANGED <<sending, fullQueue, ppc, dtor>> /\ pc[t] = "filter" /\ held' = <<>>
    BY <1>8, Zenon DEF filterIngest, NoHold
  <2>2. \/ m_data' = <<>> /\ pc' = [pc EXCEPT ![t] = ReturnPc(t)]
        \/ pc' = [pc EXCEPT ![t] = "append"]
    BY <1>8, Zenon DEF filterIngest, Null, Goto
  <2>3. \A s \in Senders : pc[s] # "appending"
    BY <1>6, <2>1
  <2>4. \A s \in Senders : pc'[s] # "appending"
    BY <1>0, <2>2, <2>3 DEF ReturnPc
  <2>5. m_data' = <<>> \/ pc'[t] = "append"
    BY <1>0, <2>2
  <2> QED
    BY <2>1, <2>4, <2>5, Zenon DEF Null
<1>9. ASSUME NEW t \in Senders, appendCall(t) PROVE Custody'
  <2>1. UNCHANGED <<held, fullQueue, ppc, dtor>> /\ pc[t] = "append"
    BY <1>9, Zenon DEF appendCall
  <2>2. \A s \in Senders : s # t => pc[s] \in {"idle", "exited", "dead"}
    BY <1>6, <2>1
  <2>3. CASE m_data # Null /\ m_data[1] # <<>>
    <3>1. m_data = <<m_data[1]>>
      <4>1. m_data \in Seq(Block) /\ m_data # <<>> /\ Len(m_data) <= 1
        BY <2>3, Zenon DEF BufferType, Null
      <4> QED
        BY <4>1, SingletonPtr, Zenon
    <3>2. sending' = m_data[1] /\ m_data' = m_data /\ pc' = [pc EXCEPT ![t] = "appending"]
      BY <1>9, <2>3, Zenon DEF appendCall, Goto
    <3>3. pc'[t] = "appending"
      BY <1>0, <3>2
    <3> QED
      BY <2>1, <3>1, <3>2, <3>3, Zenon DEF Ptr
  <2>4. CASE ~(m_data # Null /\ m_data[1] # <<>>)
    <3>1. m_data' = <<>> /\ pc' = [pc EXCEPT ![t] = "again"]
      BY <1>9, <2>4, Zenon DEF appendCall, Goto, Null
    <3>2. \A s \in Senders : pc'[s] # "appending"
      BY <1>0, <2>2, <3>1
    <3> QED
      BY <2>1, <3>1, <3>2, Zenon DEF Null
  <2> QED
    BY <2>3, <2>4
<1>10. ASSUME NEW t \in Senders, appendOk(t) \/ \E o \in StorageOutcomes : appendFail(t, o) PROVE Custody'
  <2>1. /\ UNCHANGED <<held, fullQueue, ppc, dtor>>
        /\ pc[t] = "appending" /\ m_data' = <<>> /\ pc' = [pc EXCEPT ![t] = "again"]
    BY <1>10, Zenon DEF appendOk, appendFail, Goto, Null
  <2>2. \A s \in Senders : s # t => pc[s] \in {"idle", "exited", "dead"}
    BY <1>6, <2>1
  <2>3. \A s \in Senders : pc'[s] # "appending"
    BY <1>0, <2>1, <2>2
  <2> QED
    BY <2>1, <2>3, Zenon DEF Null
<1>11. ASSUME configChangeStop \/ dtorCleanup PROVE Custody'
  <2>1. UNCHANGED <<sending, fullQueue, ppc, pc>> /\ (UNCHANGED dtor \/ dtor = "flagged")
    BY <1>11, Zenon DEF configChangeStop, dtorCleanup
  <2>2. held' = <<>> /\ m_data' = m_data
    BY <1>11, CleanupWithoutHeld, Zenon DEF configChangeStop, dtorCleanup
  <2> QED
    BY <2>1, <2>2
<1>12. ASSUME handlePendingReconf \/ isolate \/ configChangeNoPipeline \/ loadFilters
              \/ configChangeResume \/ setThreshold \/ setResourceLimit \/ statsThread \/ dtorFlags
       PROVE Custody'
  <2>1. UNCHANGED <<held, m_data, sending, fullQueue, ppc, pc>> /\ (UNCHANGED dtor \/ dtor = "alive")
    BY <1>12, Zenon DEF handlePendingReconf, isolate, configChangeNoPipeline,
       loadFilters, configChangeResume, setThreshold, setResourceLimit, statsThread, dtorFlags
  <2> QED
    BY <1>3, <2>1
<1>13. ASSUME dtorJoin PROVE Custody'
  BY <1>0, <1>13 DEF dtorJoin, Goto, SoleSender
<1>14. ASSUME dtorFinish PROVE Custody'
  BY <1>14 DEF dtorFinish
<1>15. ASSUME UNCHANGED vars PROVE Custody'
  BY <1>15 DEF vars
<1>16. ASSUME NEW t \in Senders, processQueue(t) PROVE Custody'
  BY <1>2, <1>5, <1>7, <1>8, <1>9, <1>10, <1>16, Zenon DEF processQueue
<1> QED
  BY <1>1, <1>2, <1>4, <1>11, <1>12, <1>13, <1>14, <1>15, <1>16, Zenon
     DEF Next, Terminated, ingestLoop, reconfigure, destructor, Senders

(***************************************************************************)
(* The readings of a list of blocks.                                       *)
(***************************************************************************)
LEMMA BlockReadingsEmpty == BlockReadings(<<>>) = {} /\ Range(<<>>) = {}
  BY DEF BlockReadings, Range

LEMMA BlockReadingsPtr ==
    ASSUME NEW b
    PROVE  BlockReadings(<<b>>) = Range(b)
<1>1. Range(<<b>>) = {b}
  BY DEF Range
<1> QED
  BY <1>1, Zenon DEF BlockReadings

LEMMA BlockReadingsConcat ==
    ASSUME NEW x \in Seq(Block), NEW y \in Seq(Block)
    PROVE  BlockReadings(x \o y) = BlockReadings(x) \cup BlockReadings(y)
<1>1. Range(x \o y) = Range(x) \cup Range(y)
  BY RangeConcatenation, Zenon
<1> QED
  BY <1>1, Zenon DEF BlockReadings

LEMMA BlockReadingsHeadTail ==
    ASSUME NEW x \in Seq(Block), x # <<>>
    PROVE  BlockReadings(x) = Range(Head(x)) \cup BlockReadings(Tail(x))
<1>1. Range(x) = {Head(x)} \cup Range(Tail(x))
  <2>1. /\ Tail(x) \in Seq(Block) /\ Len(Tail(x)) = Len(x) - 1 /\ Head(x) = x[1]
        /\ Len(x) \in Nat /\ Len(x) > 0
        /\ \A i \in 1..Len(Tail(x)) : Tail(x)[i] = x[i + 1]
    BY HeadTailProperties, TailType
  <2>2. Range(x) = {x[i] : i \in 1..Len(x)} /\ Range(Tail(x)) = {Tail(x)[i] : i \in 1..Len(Tail(x))}
    BY <2>1, RangeEquality
  <2>3. ASSUME NEW i \in 1..Len(x), i # 1 PROVE x[i] = Tail(x)[i - 1] /\ i - 1 \in 1..Len(Tail(x))
    BY <2>1, <2>3
  <2>4. ASSUME NEW i \in 1..Len(Tail(x)) PROVE i + 1 \in 1..Len(x)
    BY <2>1, <2>4
  <2>5. 1 \in 1..Len(x)
    BY <2>1
  <2>6. ASSUME NEW e \in Range(x) PROVE e \in {Head(x)} \cup Range(Tail(x))
    <3>1. PICK i \in 1..Len(x) : e = x[i]
      BY <2>2, Zenon
    <3>2. CASE i = 1
      BY <2>1, <3>1, <3>2, Zenon
    <3>3. CASE i # 1
      BY <2>2, <2>3, <3>1, <3>3, Zenon
    <3> QED
      BY <3>2, <3>3
  <2>7. ASSUME NEW e \in Range(Tail(x)) PROVE e \in Range(x)
    <3>1. PICK i \in 1..Len(Tail(x)) : e = Tail(x)[i]
      BY <2>2, Zenon
    <3>2. e = x[i + 1]
      BY <2>1, <3>1, Zenon
    <3> QED
      BY <2>2, <2>4, <3>2, Zenon
  <2>8. Head(x) \in Range(x)
    BY <2>1, <2>2, <2>5, Zenon
  <2> QED
    BY <2>6, <2>7, <2>8, Zenon
<1> QED
  BY <1>1, Zenon DEF BlockReadings

(***************************************************************************)
(* The readings of two blocks joined are those of the one and the other,   *)
(* as when a block is appended to what is stored.                          *)
(***************************************************************************)
LEMMA NatRangeConcat ==
    \A s1, s2 \in Seq(Nat) : Range(s1 \o s2) = Range(s1) \cup Range(s2)
<1> TAKE s1, s2 \in Seq(Nat)
<1> QED
  BY RangeConcatenation, ZenonT(60)

LEMMA RangeSplit ==
    ASSUME NEW q \in Block, NEW k \in 0..Len(q)
    PROVE  Range(q) = Range(SubSeq(q, 1, k)) \cup Range(SubSeq(q, k + 1, Len(q)))
<1>1. Len(q) \in Nat /\ k \in Nat /\ k <= Len(q)
  BY LenProperties DEF Block
<1>2. SubSeq(q, 1, k) \in Seq(Nat) /\ SubSeq(q, k + 1, Len(q)) \in Seq(Nat)
  <2>1. q \in Seq(Nat)
    BY DEF Block, Reading
  <2>2. 1 \in Nat \ {0} /\ k + 1 \in Nat \ {0} /\ Len(q) <= Len(q)
    BY <1>1
  <2> QED
    BY <1>1, <2>1, <2>2, SubSeqType, Zenon
<1>3. q = SubSeq(q, 1, k) \o SubSeq(q, k + 1, Len(q))
  <2>0. \A n \in Nat, j \in Nat : j <= n => 1 \in 1..n + 1 /\ j \in 1 - 1 .. n /\ n \in j..n
    OBVIOUS
  <2>1. q \in Seq(Nat) /\ 1 \in 1..Len(q) + 1 /\ k \in 1 - 1 .. Len(q) /\ Len(q) \in k..Len(q)
    BY <1>1, <2>0, Zenon DEF Block, Reading
  <2>2. SubSeq(q, 1, k) \o SubSeq(q, k + 1, Len(q)) = SubSeq(q, 1, Len(q))
    BY <2>1, ConcatAdjacentSubSeq, Zenon
  <2>3. SubSeq(q, 1, Len(q)) = q
    BY <2>1, SubSeqFull, Zenon
  <2> QED
    BY <2>2, <2>3, Zenon
<1>4. Range(SubSeq(q, 1, k) \o SubSeq(q, k + 1, Len(q)))
        = Range(SubSeq(q, 1, k)) \cup Range(SubSeq(q, k + 1, Len(q)))
  BY <1>2, NatRangeConcat, Zenon
<1> QED
  BY <1>3, <1>4, Zenon

(***************************************************************************)
(* A step takes no reading out of the buffers that it does not store,      *)
(* count as discarded or filter, unless it deletes the queues or crashes.  *)
(***************************************************************************)
Hand == UNION {BlockReadings(fullQueue[p]) : p \in Producers}

Queued == Range(m_queue) \cup BlockReadings(m_fullQueues) \cup BlockReadings(m_resendQueues)
             \cup BlockReadings(m_data) \cup Hand

Covered == Queued \cup Settled

LEMMA CoveredStep ==
    ASSUME NoHold, TypeOK, SoleSender, Custody, [Next]_vars, ~Crashed', dtor' # "destroyed"
    PROVE  Covered \cup (ingested + 1 .. ingested') \subseteq Covered'
<1> USE DEF Covered, Queued, Settled
<1>0. BufferType /\ ControlType
  BY DEF TypeOK
<1>n. ingested \in Nat /\ (ingested' = ingested => ingested + 1 .. ingested' = {})
  BY <1>0 DEF BufferType
<1>r. Range(stored \o sending) = Range(stored) \cup Range(sending)
  <2>1. stored \in Seq(Reading) /\ sending \in Seq(Reading)
    BY <1>0 DEF BufferType, Block
  <2> QED
    BY <2>1, NatRangeConcat, Zenon DEF Reading
<1>a. \A p \in Producers : ppc[p] = "locked" => fullQueue[p] = <<>>
  BY DEF Custody, Null
<1>m. ASSUME NEW t \in Senders, pc[t] \in {"resend", "takeQ"}, ~Crashed PROVE m_data = <<>>
  BY <1>m DEF Custody, SoleSender, Null, Senders
<1>d. m_data # <<>> => /\ m_data = <<m_data[1]>> /\ m_data[1] \in Block
                       /\ BlockReadings(m_data) = Range(m_data[1])
  <2> SUFFICES ASSUME m_data # <<>>
               PROVE  /\ m_data = <<m_data[1]>> /\ m_data[1] \in Block
                      /\ BlockReadings(m_data) = Range(m_data[1])
    OBVIOUS
  <2>1. m_data \in Seq(Block) /\ Len(m_data) <= 1
    BY <1>0, Zenon DEF BufferType
  <2>2. m_data = <<m_data[1]>> /\ m_data[1] \in Block
    BY <2>1, SingletonPtr, TailType, Zenon
  <2> QED
    BY <2>2, BlockReadingsPtr, Zenon
<1>1. ASSUME NEW p \in Producers, ingestAppend(p)
      PROVE  Covered \cup (ingested + 1 .. ingested') \subseteq Covered'
  <2>1. PICK k \in VectorSizes : /\ m_queue' = m_queue \o [i \in 1..k |-> ingested + i]
                                 /\ ingested' = ingested + k
    BY <1>1 DEF ingestAppend
  <2> DEFINE new == [i \in 1..k |-> ingested + i]
  <2>2. k \in Nat /\ m_queue \in Block
    BY <1>0, ConstantsAssumption DEF BufferType
  <2>3. new \in Block
    BY <1>n, <2>2, NewReadingsType
  <2>4. Range(m_queue') = Range(m_queue) \cup Range(new)
    <3> HIDE DEF new
    <3>1. m_queue' = m_queue \o new
      BY <2>1 DEF new
    <3> QED
      BY <2>2, <2>3, <3>1, NatRangeConcat, Zenon DEF Block, Reading
  <2>5. ingested + 1 .. ingested' \subseteq Range(new)
    <3>1. ASSUME NEW r \in ingested + 1 .. ingested' PROVE r - ingested \in 1..k /\ r = new[r - ingested]
      BY <1>n, <2>1, <2>2, <3>1
    <3>2. DOMAIN new = 1..k
      OBVIOUS
    <3> HIDE DEF new
    <3> QED
      BY <3>1, <3>2, Zenon DEF Range
  <2>6. UNCHANGED <<m_fullQueues, m_resendQueues, m_data, fullQueue, stored, discarded, filtered>>
    BY <1>1, Zenon DEF ingestAppend
  <2> HIDE DEF new
  <2>h. Hand' = Hand
    BY <2>6, Zenon DEF Hand
  <2> QED
    BY <2>4, <2>5, <2>6, <2>h
<1>s. ASSUME Covered \subseteq Covered', ingested' = ingested
      PROVE  Covered \cup (ingested + 1 .. ingested') \subseteq Covered'
  BY <1>n, <1>s, Zenon
<1>2. ASSUME NEW p \in Producers, enforceResourceLimits(p) PROVE Covered \subseteq Covered' /\ ingested' = ingested
  <2>1. UNCHANGED <<m_fullQueues, m_resendQueues, m_data, fullQueue, stored, ingested, filtered>>
    BY <1>2, Zenon DEF enforceResourceLimits
  <2>2. discarded' = discarded \cup (Range(m_queue) \ Range(m_queue'))
    BY <1>2, Zenon DEF enforceResourceLimits, logDiscardedStat
  <2>h. Hand' = Hand
    BY <2>1, Zenon DEF Hand
  <2> QED
    BY <2>1, <2>2, <2>h
<1>3. ASSUME NEW p \in Producers, ingestRelease(p) PROVE Covered \subseteq Covered' /\ ingested' = ingested
  <2>1. UNCHANGED <<m_fullQueues, m_resendQueues, m_data, stored, ingested, discarded, filtered>>
    BY <1>3, Zenon DEF ingestRelease, ghostVars
  <2>2. Range(m_queue) \cup Hand \subseteq Range(m_queue') \cup Hand'
    <3>1. CASE UNCHANGED <<fullQueue, m_queue>>
      BY <3>1, Zenon DEF Hand
    <3>2. CASE fullQueue' = [fullQueue EXCEPT ![p] = <<m_queue>>]
      <4>1. fullQueue[p] = <<>>
        BY <1>3, <1>a, Zenon DEF ingestRelease
      <4>2. fullQueue'[p] = <<m_queue>> /\ \A q \in Producers \ {p} : fullQueue'[q] = fullQueue[q]
        BY <1>0, <3>2 DEF BufferType
      <4>3. BlockReadings(fullQueue'[p]) = Range(m_queue) /\ BlockReadings(fullQueue[p]) = {}
        BY <4>1, <4>2, BlockReadingsPtr, BlockReadingsEmpty, Zenon
      <4> QED
        BY <4>2, <4>3, Zenon DEF Hand
    <3> QED
      BY <1>3, <3>1, <3>2, Zenon DEF ingestRelease, Ptr
  <2> QED
    BY <2>1, <2>2
<1>4. ASSUME NEW p \in Producers, ingestPush(p) PROVE Covered \subseteq Covered' /\ ingested' = ingested
  <2>1. UNCHANGED <<m_queue, m_resendQueues, m_data, stored, ingested, discarded, filtered>>
    BY <1>4, Zenon DEF ingestPush, ghostVars
  <2>2. BlockReadings(m_fullQueues') = BlockReadings(m_fullQueues) \cup BlockReadings(fullQueue[p])
    <3>1. m_fullQueues \in Seq(Block) /\ fullQueue[p] \in Seq(Block)
      BY <1>0 DEF BufferType
    <3>2. m_fullQueues' = m_fullQueues \o fullQueue[p]
      BY <1>4 DEF ingestPush
    <3> QED
      BY <3>1, <3>2, BlockReadingsConcat, Zenon
  <2>3. \A q \in Producers \ {p} : fullQueue'[q] = fullQueue[q]
    BY <1>0, <1>4 DEF ingestPush, BufferType
  <2>4. Hand \subseteq Hand' \cup BlockReadings(fullQueue[p])
    BY <2>3, Zenon DEF Hand
  <2> QED
    BY <2>1, <2>2, <2>4
<1>5. ASSUME UNCHANGED <<m_queue, m_fullQueues, m_resendQueues, m_data, fullQueue, stored, discarded, ingested>>,
             filtered \subseteq filtered'
      PROVE  Covered \subseteq Covered' /\ ingested' = ingested
  <2>1. Hand' = Hand
    BY <1>5, Zenon DEF Hand
  <2> QED
    BY <1>5, <2>1
<1>6. ASSUME NEW t \in Senders, resendOk(t) PROVE Covered \subseteq Covered' /\ ingested' = ingested
  <2>1. UNCHANGED <<m_queue, m_fullQueues, m_data, fullQueue, ingested, discarded, filtered>>
    BY <1>6, Zenon DEF resendOk
  <2>2. m_resendQueues # <<>> /\ m_resendQueues' = Tail(m_resendQueues) /\ stored' = stored \o Head(m_resendQueues)
    BY <1>6, Zenon DEF resendOk
  <2>3. m_resendQueues \in Seq(Block) /\ stored \in Seq(Nat) /\ Head(m_resendQueues) \in Seq(Nat)
    BY <1>0, <2>2, TailType DEF BufferType, Block, Reading
  <2>4. BlockReadings(m_resendQueues) = Range(Head(m_resendQueues)) \cup BlockReadings(m_resendQueues')
    BY <2>2, <2>3, BlockReadingsHeadTail, Zenon
  <2>5. Range(stored') = Range(stored) \cup Range(Head(m_resendQueues))
    BY <2>2, <2>3, NatRangeConcat, Zenon
  <2>h. Hand' = Hand
    BY <2>1, Zenon DEF Hand
  <2> QED
    BY <2>1, <2>4, <2>5, <2>h
<1>7. ASSUME NEW t \in Senders, NEW o \in StorageOutcomes, resendFail(t, o)
      PROVE  Covered \subseteq Covered' /\ ingested' = ingested
  <2>1. UNCHANGED <<m_queue, m_fullQueues, m_data, fullQueue, ingested, filtered>> /\ m_resendQueues # <<>>
    BY <1>7, Zenon DEF resendFail
  <2> DEFINE q == Head(m_resendQueues)
             n == IF Len(q) < RemoveCount THEN Len(q) ELSE RemoveCount
             rest == SubSeq(q, n + 1, Len(q))
  <2>2. q \in Block /\ Tail(m_resendQueues) \in Seq(Block) /\ stored \in Block /\ m_resendQueues \in Seq(Block)
    BY <1>0, <2>1, TailType DEF BufferType
  <2>3. Range(stored) \subseteq Range(stored')
    <3>1. Range(stored \o q) = Range(stored) \cup Range(q)
      BY <2>2, NatRangeConcat, Zenon DEF Block, Reading
    <3>2. stored' = stored \/ stored' = stored \o q
      BY <1>7, Zenon DEF resendFail
    <3> QED
      BY <3>1, <3>2, Zenon
  <2>4. n \in 0..Len(q) /\ n \in Nat /\ n + 1 \in Nat \ {0} /\ Len(q) \in Nat
    <3>1. Len(q) \in Nat /\ RemoveCount \in Nat
      BY <2>2, LenProperties, ConstantsAssumption DEF Block
    <3> QED
      BY <3>1
  <2>5. BlockReadings(m_resendQueues) = Range(q) \cup BlockReadings(Tail(m_resendQueues))
    BY <2>1, <2>2, BlockReadingsHeadTail, Zenon
  <2>6. Range(q) = Range(SubSeq(q, 1, n)) \cup Range(rest)
    <3> HIDE DEF q, n
    <3> QED
      BY <2>2, <2>4, RangeSplit, Zenon DEF rest
  <2>7. \/ UNCHANGED <<discarded, m_resendQueues>>
        \/ /\ discarded' = discarded \cup Range(SubSeq(q, 1, n))
           /\ \/ rest = <<>> /\ m_resendQueues' = Tail(m_resendQueues)
              \/ m_resendQueues' = <<rest>> \o Tail(m_resendQueues)
    BY <1>7, Zenon DEF resendFail, logDiscardedStat
  <2>8. rest = <<>> => Range(rest) = {}
    BY BlockReadingsEmpty, Zenon
  <2>9. BlockReadings(<<rest>> \o Tail(m_resendQueues)) = Range(rest) \cup BlockReadings(Tail(m_resendQueues))
    <3>1. rest \in Block
      <4>1. q \in Seq(Nat) /\ Len(q) <= Len(q)
        BY <2>2, <2>4 DEF Block, Reading
      <4> HIDE DEF q, n
      <4> QED
        BY <2>4, <4>1, SubSeqType, Zenon DEF rest, Block, Reading
    <3> HIDE DEF rest
    <3>2. <<rest>> \in Seq(Block)
      BY <3>1, PtrType, Zenon
    <3> QED
      BY <2>2, <3>2, BlockReadingsConcat, BlockReadingsPtr, Zenon
  <2> HIDE DEF q, n, rest
  <2>h. Hand' = Hand
    BY <2>1, Zenon DEF Hand
  <2>10. CASE UNCHANGED <<discarded, m_resendQueues>>
    BY <2>1, <2>3, <2>10, <2>h
  <2>11. CASE discarded' = discarded \cup Range(SubSeq(q, 1, n)) /\ rest = <<>>
              /\ m_resendQueues' = Tail(m_resendQueues)
    BY <2>1, <2>3, <2>5, <2>6, <2>8, <2>11, <2>h
  <2>12. CASE discarded' = discarded \cup Range(SubSeq(q, 1, n))
              /\ m_resendQueues' = <<rest>> \o Tail(m_resendQueues)
    BY <2>1, <2>3, <2>5, <2>6, <2>9, <2>12, <2>h
  <2> QED
    BY <2>7, <2>10, <2>11, <2>12, Zenon
<1>8. ASSUME NEW t \in Senders, takeFullQueue(t) PROVE Covered \subseteq Covered' /\ ingested' = ingested
  <2>1. UNCHANGED <<m_queue, m_resendQueues, fullQueue, stored, ingested, discarded, filtered, dtor>>
    BY <1>8, Zenon DEF takeFullQueue, ghostVars
  <2>2. /\ pc[t] = "resend" /\ m_fullQueues # <<>> /\ m_data' = <<Head(m_fullQueues)>>
        /\ m_fullQueues' = Tail(m_fullQueues)
    BY <1>8, Zenon DEF takeFullQueue, ResendDone, Ptr
  <2>3. BlockReadings(m_data) = {}
    BY <1>m, <2>1, <2>2, BlockReadingsEmpty, Zenon DEF Crashed
  <2>4. BlockReadings(m_fullQueues) = BlockReadings(m_data') \cup BlockReadings(m_fullQueues')
    BY <1>0, <2>2, BlockReadingsHeadTail, BlockReadingsPtr, Zenon DEF BufferType
  <2>h. Hand' = Hand
    BY <2>1, Zenon DEF Hand
  <2> QED
    BY <2>1, <2>3, <2>4, <2>h
<1>9. ASSUME NEW t \in Senders, takeQueue(t) PROVE Covered \subseteq Covered' /\ ingested' = ingested
  <2>1. UNCHANGED <<m_fullQueues, m_resendQueues, fullQueue, stored, ingested, discarded, filtered, dtor>>
    BY <1>9, Zenon DEF takeQueue, ghostVars
  <2>2. pc[t] = "takeQ" /\ m_data' = <<m_queue>>
    BY <1>9, Zenon DEF takeQueue, Ptr
  <2>3. BlockReadings(m_data) = {}
    BY <1>m, <2>1, <2>2, BlockReadingsEmpty, Zenon DEF Crashed
  <2>4. BlockReadings(m_data') = Range(m_queue)
    BY <2>2, BlockReadingsPtr, Zenon
  <2>h. Hand' = Hand
    BY <2>1, Zenon DEF Hand
  <2> QED
    BY <2>1, <2>3, <2>4, <2>h
<1>10. ASSUME NEW t \in Senders, filterIngest(t) PROVE Covered \subseteq Covered' /\ ingested' = ingested
  <2>1. UNCHANGED <<m_queue, m_fullQueues, m_resendQueues, fullQueue, stored, ingested, discarded>> /\ m_data # <<>>
    BY <1>10, Zenon DEF filterIngest, Null
  <2> DEFINE in == held \o m_data[1]
  <2>2. in \in Block /\ BlockReadings(m_data) = Range(in)
    <3>1. m_data[1] \in Block /\ BlockReadings(m_data) = Range(m_data[1])
      BY <1>d, <2>1, Zenon
    <3>2. in = m_data[1]
      <4>1. m_data[1] \in Seq(Reading) /\ held = <<>>
        BY <3>1, Zenon DEF Block, Custody
      <4> QED
        BY <4>1, ConcatEmptySeq, Zenon
    <3> QED
      BY <3>1, <3>2, Zenon
  <2>3. PICK k \in 0..Len(in) :
          /\ filtered \cup Range(SubSeq(in, k + 1, Len(in))) \subseteq filtered'
          /\ \/ SubSeq(in, 1, k) = <<>>
             \/ Range(SubSeq(in, 1, k)) \subseteq filtered'
             \/ m_data' = <<SubSeq(in, 1, k)>>
    <3>1. \A mode \in FilterModes : mode = "drop"
      BY ConstantsAssumption DEF NoHold
    <3>2. PICK k \in 0..Len(in), mode \in FilterModes :
            LET out  == SubSeq(in, 1, k)
                rest == SubSeq(in, k + 1, Len(in))
            IN /\ filtered' = filtered \cup (IF mode = "drop" THEN Range(rest) ELSE {})
                                       \cup (IF m_isolate THEN Range(out) ELSE {})
               /\ \/ out = <<>> \/ m_isolate \/ m_data' = <<out>>
      BY <1>10, Zenon DEF filterIngest, Ptr
    <3> HIDE DEF in
    <3>3. mode = "drop"
      BY <3>1
    <3> QED
      BY <3>2, <3>3, Zenon
  <2> HIDE DEF in
  <2>4. Range(in) = Range(SubSeq(in, 1, k)) \cup Range(SubSeq(in, k + 1, Len(in)))
    BY <2>2, RangeSplit, Zenon
  <2>5. Range(SubSeq(in, 1, k)) \subseteq BlockReadings(m_data') \cup filtered'
    BY <2>3, BlockReadingsEmpty, BlockReadingsPtr, Zenon
  <2>h. Hand' = Hand
    BY <2>1, Zenon DEF Hand
  <2> QED
    BY <2>1, <2>2, <2>3, <2>4, <2>5, <2>h
<1>11. ASSUME NEW t \in Senders, appendCall(t) PROVE Covered \subseteq Covered' /\ ingested' = ingested
  <2>1. UNCHANGED <<m_queue, m_fullQueues, m_resendQueues, fullQueue, stored, ingested, discarded, filtered>>
    BY <1>11, Zenon DEF appendCall, ghostVars
  <2>2. m_data' = m_data \/ m_data = <<>> \/ m_data[1] = <<>>
    BY <1>11, Zenon DEF appendCall, Null
  <2>3. BlockReadings(m_data) \subseteq BlockReadings(m_data')
    BY <1>d, <2>2, BlockReadingsEmpty, Zenon
  <2>h. Hand' = Hand
    BY <2>1, Zenon DEF Hand
  <2> QED
    BY <2>1, <2>3, <2>h
<1>12. ASSUME NEW t \in Senders, appendOk(t) PROVE Covered \subseteq Covered' /\ ingested' = ingested
  <2>1. UNCHANGED <<m_queue, m_fullQueues, m_resendQueues, fullQueue, ingested, discarded, filtered>>
    BY <1>12, Zenon DEF appendOk
  <2>2. pc[t] = "appending" /\ stored' = stored \o sending
    BY <1>12, Zenon DEF appendOk
  <2>3. m_data = <<sending>>
    BY <2>2, Zenon DEF Custody, Ptr
  <2>4. Range(stored') = Range(stored) \cup Range(sending)
    BY <1>r, <2>2, Zenon
  <2>5. BlockReadings(m_data) = Range(sending)
    BY <2>3, BlockReadingsPtr, Zenon
  <2>h. Hand' = Hand
    BY <2>1, Zenon DEF Hand
  <2> QED
    BY <2>1, <2>4, <2>5, <2>h
<1>13. ASSUME NEW t \in Senders, NEW o \in StorageOutcomes, appendFail(t, o)
       PROVE  Covered \subseteq Covered' /\ ingested' = ingested
  <2>1. UNCHANGED <<m_queue, m_fullQueues, fullQueue, ingested, discarded, filtered>>
    BY <1>13, Zenon DEF appendFail
  <2>2. m_resendQueues' = m_resendQueues \o m_data /\ (stored' = stored \/ stored' = stored \o sending)
    BY <1>13, Zenon DEF appendFail
  <2>3. Range(stored) \subseteq Range(stored')
    BY <1>r, <2>2, Zenon
  <2>4. BlockReadings(m_resendQueues') = BlockReadings(m_resendQueues) \cup BlockReadings(m_data)
    BY <1>0, <2>2, BlockReadingsConcat, Zenon DEF BufferType
  <2>h. Hand' = Hand
    BY <2>1, Zenon DEF Hand
  <2> QED
    BY <2>1, <2>3, <2>4, <2>h
<1>14. ASSUME configChangeStop \/ dtorCleanup PROVE Covered \subseteq Covered' /\ ingested' = ingested
  <2>1. UNCHANGED <<m_queue, m_fullQueues, m_resendQueues, fullQueue, stored, ingested, discarded>>
    BY <1>14, Zenon DEF configChangeStop, dtorCleanup
  <2>2. m_data' = m_data /\ filtered \subseteq filtered'
    BY <1>14, CleanupWithoutHeld, Zenon DEF configChangeStop, dtorCleanup, Custody
  <2> QED
    BY <1>5, <2>1, <2>2, Zenon
<1>15. ASSUME NEW t \in Senders,
              \/ ingestThread \/ waitForQueue \/ calculateWaitTime
              \/ noFullQueue(t) \/ skipFilters(t) \/ filterNull(t) \/ processAgain(t)
              \/ handlePendingReconf \/ isolate \/ configChangeNoPipeline \/ configChangeDangling
              \/ loadFilters \/ configChangeResume \/ setThreshold \/ setResourceLimit
              \/ statsThread \/ dtorFlags \/ dtorJoin \/ UNCHANGED vars
       PROVE  Covered \subseteq Covered' /\ ingested' = ingested
  <2>1. UNCHANGED <<m_queue, m_fullQueues, m_resendQueues, m_data, fullQueue, stored, ingested, discarded, filtered>>
    BY <1>15, Zenon DEF ingestThread, waitForQueue, calculateWaitTime, noFullQueue, skipFilters,
       filterNull, processAgain, handlePendingReconf, isolate, configChangeNoPipeline,
       configChangeDangling, loadFilters, configChangeResume, setThreshold, setResourceLimit,
       statsThread, dtorFlags, dtorJoin, vars, bufferVars, ghostVars
  <2> QED
    BY <1>5, <2>1, Zenon
<1>16. ASSUME dtorFinish PROVE FALSE
  BY <1>16, Zenon DEF dtorFinish
<1>17. ASSUME NEW t \in Senders, processQueue(t) PROVE Covered \subseteq Covered' /\ ingested' = ingested
  BY <1>6, <1>7, <1>8, <1>9, <1>10, <1>11, <1>12, <1>13, <1>15, <1>17, Zenon DEF processQueue
<1> QED
  <2> HIDE DEF Covered
  <2> QED
    BY <1>1, <1>2, <1>3, <1>4, <1>s, <1>14, <1>15, <1>16, <1>17, Zenon
       DEF Next, Terminated, ingestReturn, ingestLoop, reconfigure, destructor, Senders

\* The state in which a reading may be lost without trace is final.
LEMMA GoneForGood ==
    ASSUME TypeOK, [Next]_vars, ~(dtor # "destroyed" /\ ~Crashed)
    PROVE  ~(dtor' # "destroyed" /\ ~Crashed')
<1> USE DEF Crashed, Crashes
<1>1. dtor \in {"destroyed", "nullData", "danglingPipeline"}
  BY DEF TypeOK, ControlType
<1>2. dtor' = dtor \/ dtor' \in Crashes
  <2> USE DEF threadVars
  <2>1. ASSUME NEW p \in Producers, ingestAppend(p) \/ ingestReturn(p) PROVE dtor' = dtor
    BY <2>1, Zenon DEF ingestAppend, ingestReturn, enforceResourceLimits, ingestRelease, ingestPush
  <2>2. ASSUME NEW t \in Senders, processQueue(t) PROVE dtor' = dtor \/ dtor' \in Crashes
    BY <2>2, ProcessQueueStep, Zenon DEF filterNull, Crash, Crashes
  <2>3. ASSUME ingestThread \/ waitForQueue \/ calculateWaitTime \/ handlePendingReconf \/ isolate
               \/ reconfigure \/ statsThread \/ UNCHANGED vars
        PROVE  dtor' = dtor \/ dtor' \in Crashes
    BY <2>3, Zenon DEF ingestThread, waitForQueue, calculateWaitTime, handlePendingReconf, isolate,
       reconfigure, configChangeStop, configChangeNoPipeline, configChangeDangling, loadFilters,
       configChangeResume, setThreshold, setResourceLimit, statsThread, vars, Crash, Crashes
  <2>4. ASSUME dtorFlags \/ destructor PROVE FALSE
    BY <1>1, <2>4 DEF dtorFlags, destructor, dtorCleanup, dtorJoin, dtorFinish
  <2> QED
    BY <2>1, <2>2, <2>3, <2>4, Zenon DEF Next, Terminated, ingestLoop, Senders
<1> QED
  BY <1>1, <1>2

LEMMA CoveredBuffered == Custody => Buffered \cup Settled = Covered
<1> SUFFICES ASSUME Custody PROVE Buffered \cup Settled = Covered
  OBVIOUS
<1>1. Range(held) = {}
  BY BlockReadingsEmpty, Zenon DEF Custody
<1> QED
  BY <1>1, Zenon DEF Buffered, Covered, Queued, Hand

LEMMA NoSilentLossStep ==
    NoHold /\ TypeOK /\ SoleSender /\ Custody /\ NoSilentLoss /\ [Next]_vars => NoSilentLoss'
<1> SUFFICES ASSUME NoHold, TypeOK, SoleSender, Custody, NoSilentLoss, [Next]_vars,
                    dtor' # "destroyed", ~Crashed'
             PROVE  (1..ingested \subseteq Buffered \cup Settled)'
  BY DEF NoSilentLoss
<1>1. dtor # "destroyed" /\ ~Crashed
  BY GoneForGood
<1>2. 1..ingested \subseteq Covered
  BY <1>1, CoveredBuffered, Zenon DEF NoSilentLoss
<1>3. Covered \cup (ingested + 1 .. ingested') \subseteq Covered'
  BY CoveredStep, Zenon
<1>4. ingested \in Nat /\ ingested' \in Nat
  BY BufferTypeStep DEF TypeOK, BufferType
<1>5. 1..ingested' \subseteq (1..ingested) \cup (ingested + 1 .. ingested')
  BY <1>4
<1>6. Custody'
  BY CustodyStep
<1>7. (Buffered \cup Settled = Covered)'
  BY <1>6, CoveredBuffered, PTL
<1> QED
  BY <1>2, <1>3, <1>5, <1>7, Zenon

(***************************************************************************)
(* If no filter keeps readings back, no hand-over between the plugin       *)
(* threads, the ingest thread, the filters, the resend queue and the       *)
(* destructor's own call of processQueue() loses a reading without trace,  *)
(* whatever the number of plugin threads, the thresholds, the discard      *)
(* policy, the answers of the storage service and the pipeline changes.    *)
(***************************************************************************)
THEOREM NothingLost ==
    ASSUME NoHold
    PROVE  Spec => []NoSilentLoss
<1>1. Init => SoleSender /\ Custody /\ NoSilentLoss
  <2> SUFFICES ASSUME Init PROVE SoleSender /\ Custody /\ NoSilentLoss
    OBVIOUS
  <2>1. SoleSender
    BY DEF Init, SoleSender, Senders
  <2>2. Custody
    BY DEF Init, Custody, Null, Senders
  <2>3. 1..ingested = {}
    BY DEF Init
  <2> QED
    BY <2>1, <2>2, <2>3 DEF NoSilentLoss
<1>2. TypeOK /\ SoleSender /\ Custody /\ NoSilentLoss /\ [Next]_vars
        => SoleSender' /\ Custody' /\ NoSilentLoss'
  BY SoleSenderStep, CustodyStep, NoSilentLossStep
<1> QED
  BY <1>1, <1>2, TypeCorrect, PTL DEF Spec

=============================================================================
