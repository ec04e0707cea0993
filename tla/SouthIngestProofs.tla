------------------------ MODULE SouthIngestProofs ------------------------
(* Theorems about SouthIngest, for every value of its constants.           *)
EXTENDS SouthIngest, SequenceTheorems, TLAPS

USE DEF Reading, Null, Ptr, Senders

LEMMA TailType ==
    ASSUME NEW S, NEW s \in Seq(S), s # <<>>
    PROVE  /\ Tail(s) \in Seq(S) /\ Len(Tail(s)) = Len(s) - 1 /\ Head(s) \in S
           /\ Len(s) \in Nat /\ Len(s) > 0 /\ s[1] \in S
  BY HeadTailProperties, EmptySeq, LenProperties

LEMMA SubSeqType ==
    ASSUME NEW S, NEW s \in Seq(S), NEW m \in Nat \ {0}, NEW n \in Nat, n <= Len(s)
    PROVE  SubSeq(s, m, n) \in Seq(S)
<1>1. \A i \in m..n : s[i] \in S
  BY LenProperties
<1>2. m \in Int /\ n \in Int
  OBVIOUS
<1> QED
  BY <1>1, <1>2, SubSeqProperties, Zenon

LEMMA PtrType ==
    ASSUME NEW b \in Block
    PROVE  <<b>> \in Seq(Block) /\ Len(<<b>>) = 1 /\ <<b>>[1] = b
  OBVIOUS

\* A discard policy returns a queue of readings.
LEMMA DiscardType ==
    ASSUME NEW q \in Block, limit \in LimitType
    PROVE  discardPolicy(q) \in Block
<1>1. discardOldest(q) \in Block
  BY TailType DEF discardOldest, Block
<1>2. discardNewest(q) \in Block
  <2>1. CASE q = <<>>
    BY <2>1 DEF discardNewest
  <2>2. CASE q # <<>>
    <3>1. Len(q) - 1 \in Nat /\ Len(q) - 1 <= Len(q)
      BY <2>2, TailType DEF Block
    <3> QED
      BY <2>2, <3>1, SubSeqType DEF discardNewest, Block
  <2> QED
    BY <2>1, <2>2
<1>3. reduceFidelity(q) \in Block
  <2>1. Len(q) \in Nat /\ \A j \in 1..Len(q) : q[j] \in Nat
    BY LenProperties DEF Block
  <2>2. (Len(q) + 1) \div 2 \in Nat
    BY <2>1
  <2>3. \A i \in 1 .. (Len(q) + 1) \div 2 : q[2 * i - 1] \in Nat
    BY <2>1
  <2> DEFINE e(i) == q[2 * i - 1]
  <2>4. [i \in 1 .. (Len(q) + 1) \div 2 |-> e(i)] \in Seq(Nat)
    BY <2>2, <2>3, IsASeq
  <2> QED
    BY <2>4 DEF reduceFidelity, Block
<1>4. limit.policy \in {"discardOldest", "discardNewest", "reduceFidelity"}
  BY DEF LimitType, Policies
<1> QED
  BY <1>1, <1>2, <1>3, <1>4 DEF discardPolicy

LEMMA InitType == Init => TypeOK
<1> SUFFICES ASSUME Init PROVE TypeOK
  OBVIOUS
<1>1. FlagType
  BY Zenon DEF Init, FlagType
<1>2. BufferType
  BY ConstantsAssumption DEF Init, BufferType, Block
<1>3. ControlType
  BY ConstantsAssumption DEF Init, ControlType, ProcessPcs, Crashes
<1> QED
  BY <1>1, <1>2, <1>3 DEF TypeOK

(***************************************************************************)
(* The type invariant is preserved by each action.  The flags, the buffers *)
(* and the control state are treated apart.                                *)
(***************************************************************************)
LEMMA FlagTypeStep == TypeOK /\ [Next]_vars => FlagType'
<1> SUFFICES ASSUME FlagType, [Next]_vars PROVE FlagType'
  BY DEF TypeOK
<1> USE DEF FlagType, bufferVars, flagVars, limitVars
<1>1. ASSUME NEW p \in Producers, ingestAppend(p) \/ ingestReturn(p) PROVE FlagType'
  BY <1>1, Zenon DEF ingestAppend, ingestReturn, enforceResourceLimits, ingestRelease, ingestPush
<1>2. ASSUME ingestThread \/ waitForQueue \/ calculateWaitTime PROVE FlagType'
  BY <1>2, Zenon DEF ingestThread, waitForQueue, calculateWaitTime
<1>3. ASSUME NEW t \in Senders, processQueue(t) PROVE FlagType'
  BY <1>3, Zenon DEF processQueue, resendOk, resendFail, takeFullQueue, noFullQueue, takeQueue,
     skipFilters, filterNull, filterIngest, appendCall, appendOk, appendFail, processAgain
<1>4. ASSUME handlePendingReconf \/ reconfigure \/ isolate PROVE FlagType'
  BY <1>4, Zenon DEF handlePendingReconf, reconfigure, isolate, configChangeStop,
     configChangeNoPipeline, configChangeDangling, loadFilters, configChangeResume,
     setThreshold, setResourceLimit
<1>5. ASSUME statsThread \/ dtorFlags \/ destructor PROVE FlagType'
  BY <1>5, Zenon DEF statsThread, dtorFlags, destructor, dtorCleanup, dtorJoin, dtorFinish
<1>6. ASSUME UNCHANGED vars PROVE FlagType'
  BY <1>6, Zenon DEF vars
<1> QED
  BY <1>1, <1>2, <1>3, <1>4, <1>5, <1>6, Zenon DEF Next, Terminated, ingestLoop, Senders

LEMMA ControlTypeStep == TypeOK /\ [Next]_vars => ControlType'
<1> SUFFICES ASSUME ControlType, [Next]_vars PROVE ControlType'
  BY DEF TypeOK
<1> USE ConstantsAssumption
<1> USE DEF ControlType, flagVars, limitVars, lockVars, threadVars, ProcessPcs, ReturnPc, Goto, Crash, Crashes
<1>1. ASSUME NEW p \in Producers, ingestAppend(p) \/ ingestReturn(p) PROVE ControlType'
  <2>1. ASSUME ingestAppend(p) PROVE ControlType'
    BY <2>1 DEF ingestAppend
  <2>2. ASSUME enforceResourceLimits(p) PROVE ControlType'
    BY <2>2 DEF enforceResourceLimits
  <2>3. ASSUME ingestRelease(p) PROVE ControlType'
    BY <2>3 DEF ingestRelease
  <2>4. ASSUME ingestPush(p) PROVE ControlType'
    BY <2>4 DEF ingestPush
  <2> QED
    BY <1>1, <2>1, <2>2, <2>3, <2>4 DEF ingestReturn
<1>2. ASSUME ingestThread \/ waitForQueue \/ calculateWaitTime PROVE ControlType'
  BY <1>2 DEF ingestThread, waitForQueue, calculateWaitTime
<1>3. ASSUME NEW t \in Senders, processQueue(t) PROVE ControlType'
  <2>1. ASSUME resendOk(t) PROVE ControlType'
    BY <2>1 DEF resendOk
  <2>2. ASSUME takeFullQueue(t) PROVE ControlType'
    BY <2>2 DEF takeFullQueue, ResendDone
  <2>3. ASSUME noFullQueue(t) PROVE ControlType'
    BY <2>3 DEF noFullQueue, ResendDone
  <2>4. ASSUME takeQueue(t) PROVE ControlType'
    BY <2>4 DEF takeQueue
  <2>5. ASSUME skipFilters(t) PROVE ControlType'
    BY <2>5 DEF skipFilters
  <2>6. ASSUME filterNull(t) PROVE ControlType'
    BY <2>6 DEF filterNull
  <2>7. ASSUME filterIngest(t) PROVE ControlType'
    <3>1. pc' = [pc EXCEPT ![t] = ReturnPc(t)] \/ pc' = [pc EXCEPT ![t] = "append"]
      BY <2>7, Zenon DEF filterIngest
    <3> QED
      BY <2>7, <3>1 DEF filterIngest
  <2>8. ASSUME appendCall(t) PROVE ControlType'
    BY <2>8 DEF appendCall
  <2>9. ASSUME appendOk(t) PROVE ControlType'
    BY <2>9 DEF appendOk
  <2>10. ASSUME processAgain(t) PROVE ControlType'
    BY <2>10 DEF processAgain
  <2>11. ASSUME NEW o \in StorageOutcomes, resendFail(t, o) PROVE ControlType'
    BY <2>11 DEF resendFail
  <2>12. ASSUME NEW o \in StorageOutcomes, appendFail(t, o) PROVE ControlType'
    BY <2>12 DEF appendFail
  <2> QED
    BY <1>3, <2>1, <2>2, <2>3, <2>4, <2>5, <2>6, <2>7, <2>8, <2>9, <2>10, <2>11, <2>12 DEF processQueue
<1>4. ASSUME handlePendingReconf \/ reconfigure \/ isolate PROVE ControlType'
  <2>1. ASSUME handlePendingReconf PROVE ControlType'
    BY <2>1 DEF handlePendingReconf
  <2>2. ASSUME isolate PROVE ControlType'
    BY <2>2 DEF isolate
  <2>3. ASSUME configChangeStop PROVE ControlType'
    BY <2>3 DEF configChangeStop
  <2>4. ASSUME configChangeNoPipeline PROVE ControlType'
    BY <2>4 DEF configChangeNoPipeline
  <2>5. ASSUME configChangeDangling PROVE ControlType'
    BY <2>5 DEF configChangeDangling
  <2>6. ASSUME loadFilters PROVE ControlType'
    BY <2>6 DEF loadFilters
  <2>7. ASSUME configChangeResume PROVE ControlType'
    BY <2>7 DEF configChangeResume
  <2>8. ASSUME setThreshold PROVE ControlType'
    BY <2>8 DEF setThreshold
  <2>9. ASSUME setResourceLimit PROVE ControlType'
    BY <2>9 DEF setResourceLimit
  <2> QED
    BY <1>4, <2>1, <2>2, <2>3, <2>4, <2>5, <2>6, <2>7, <2>8, <2>9 DEF reconfigure
<1>5. ASSUME statsThread \/ dtorFlags \/ destructor PROVE ControlType'
  BY <1>5 DEF statsThread, dtorFlags, destructor, dtorCleanup, dtorJoin, dtorFinish
<1>6. ASSUME UNCHANGED vars PROVE ControlType'
  BY <1>6 DEF vars
<1> QED
  BY <1>1, <1>2, <1>3, <1>4, <1>5, <1>6, Zenon DEF Next, Terminated, ingestLoop, Senders

\* What ingest() appends is a block of readings.
LEMMA NewReadingsType ==
    ASSUME NEW n \in Nat, NEW k \in Nat
    PROVE  [i \in 1..k |-> n + i] \in Block
  BY DEF Block

LEMMA RangeType ==
    ASSUME NEW b \in Block
    PROVE  Range(b) \subseteq Reading
  BY LenProperties DEF Block, Range

LEMMA BufferTypeStep == TypeOK /\ [Next]_vars => BufferType'
<1> SUFFICES ASSUME BufferType, ControlType, [Next]_vars PROVE BufferType'
  BY DEF TypeOK
<1> USE DEF bufferVars, ghostVars
<1>0. MaxFailures \in Nat \ {0} /\ RemoveCount \in Nat /\ VectorSizes \subseteq Nat /\ limit \in LimitType
  BY ConstantsAssumption DEF ControlType
<1>b. <<>> \in Block /\ <<>> \in Seq(Block) /\ Len(<<>>) = 0
  BY DEF Block
<1>c. ASSUME NEW x \in Block, NEW y \in Block PROVE x \o y \in Block
  BY <1>c, ConcatProperties DEF Block
<1>d. ASSUME NEW x \in Seq(Block), NEW y \in Seq(Block) PROVE x \o y \in Seq(Block)
  BY <1>d, ConcatProperties
<1>1. ASSUME NEW p \in Producers, ingestAppend(p) PROVE BufferType'
  <2>1. PICK k \in VectorSizes : /\ m_queue' = m_queue \o [i \in 1..k |-> ingested + i]
                                 /\ ingested' = ingested + k
    BY <1>1 DEF ingestAppend
  <2>2. m_queue' \in Block /\ ingested' \in Nat
    <3>1. k \in Nat /\ ingested \in Nat /\ m_queue \in Block
      BY <1>0 DEF BufferType
    <3>2. [i \in 1..k |-> ingested + i] \in Block
      BY <3>1, NewReadingsType
    <3>3. m_queue' \in Block
      BY <1>c, <2>1, <3>1, <3>2, Zenon
    <3> QED
      BY <2>1, <3>1, <3>3
  <2> QED
    BY <1>1, <2>2 DEF ingestAppend, BufferType
<1>2. ASSUME NEW p \in Producers, enforceResourceLimits(p) PROVE BufferType'
  <2>1. m_queue' \in Block
    BY <1>0, <1>2, DiscardType DEF enforceResourceLimits, BufferType
  <2>2. Range(m_queue) \subseteq Reading
    BY RangeType DEF BufferType
  <2> QED
    BY <1>2, <2>1, <2>2 DEF enforceResourceLimits, logDiscardedStat, BufferType
<1>3. ASSUME NEW p \in Producers, ingestRelease(p) PROVE BufferType'
  <2>1. CASE UNCHANGED <<fullQueue, m_queue>>
    BY <1>3, <2>1 DEF ingestRelease, BufferType
  <2>2. CASE fullQueue' = [fullQueue EXCEPT ![p] = <<m_queue>>] /\ m_queue' = <<>>
    <3>1. fullQueue' \in [Producers -> Seq(Block)]
      BY <2>2, PtrType DEF BufferType
    <3> QED
      BY <1>3, <1>b, <2>2, <3>1 DEF ingestRelease, BufferType
  <2> QED
    BY <1>3, <2>1, <2>2, Zenon DEF ingestRelease, Ptr
<1>4. ASSUME NEW p \in Producers, ingestPush(p) PROVE BufferType'
  BY <1>4, <1>b, <1>d DEF ingestPush, BufferType
<1>5. ASSUME ingestThread \/ waitForQueue \/ calculateWaitTime PROVE BufferType'
  BY <1>5 DEF ingestThread, waitForQueue, calculateWaitTime, BufferType
<1>6. ASSUME NEW t \in Senders, resendOk(t) PROVE BufferType'
  <2>1. m_resendQueues' \in Seq(Block) /\ Head(m_resendQueues) \in Block
    BY <1>6, TailType DEF resendOk, BufferType
  <2>2. stored' \in Block
    BY <1>6, <1>c, <2>1 DEF resendOk, BufferType
  <2> QED
    BY <1>0, <1>6, <2>1, <2>2 DEF resendOk, BufferType
<1>7. ASSUME NEW t \in Senders, NEW o \in StorageOutcomes, resendFail(t, o) PROVE BufferType'
  <2> DEFINE q == Head(m_resendQueues)
             n == IF Len(q) < RemoveCount THEN Len(q) ELSE RemoveCount
             rest == SubSeq(q, n + 1, Len(q))
  <2>1. q \in Block /\ Tail(m_resendQueues) \in Seq(Block)
    BY <1>7, TailType DEF resendFail, BufferType
  <2>2. Len(q) \in Nat /\ n \in Nat /\ n <= Len(q)
    BY <1>0, <2>1, LenProperties DEF Block
  <2>3. rest \in Block /\ SubSeq(q, 1, n) \in Block
    <3>1. n + 1 \in Nat \ {0} /\ 1 \in Nat \ {0}
      BY <2>2
    <3> HIDE DEF q, n
    <3> QED
      BY <2>1, <2>2, <3>1, SubSeqType DEF Block
  <2>4. Range(SubSeq(q, 1, n)) \subseteq Reading
    BY <2>3, RangeType
  <2>5. stored' \in Block
    BY <1>7, <1>c, <2>1 DEF resendFail, BufferType
  <2>6. <<rest>> \o Tail(m_resendQueues) \in Seq(Block)
    BY <1>d, <2>1, <2>3, PtrType
  <2>7. m_resendQueues' \in Seq(Block) /\ discarded' \in SUBSET Reading
    <3> HIDE DEF rest, n
    <3>1. CASE TooManyFailures
      BY <1>7, <2>1, <2>3, <2>4, <2>6, <3>1 DEF resendFail, BufferType, logDiscardedStat, rest, n
    <3>2. CASE ~TooManyFailures
      BY <1>7, <3>2 DEF resendFail, BufferType
    <3> QED
      BY <3>1, <3>2
  <2>8. m_failCnt' \in 0..MaxFailures
    <3>1. m_failCnt' = 0 \/ (~TooManyFailures /\ m_failCnt' = m_failCnt + 1)
      BY <1>7, Zenon DEF resendFail
    <3> QED
      BY <1>0, <3>1 DEF TooManyFailures, BufferType
  <2> QED
    BY <1>7, <2>5, <2>7, <2>8 DEF resendFail, BufferType
<1>8. ASSUME NEW t \in Senders, takeFullQueue(t) PROVE BufferType'
  <2>1. Head(m_fullQueues) \in Block /\ m_fullQueues' \in Seq(Block)
    BY <1>8, TailType DEF takeFullQueue, BufferType
  <2> QED
    BY <1>8, <2>1, PtrType DEF takeFullQueue, BufferType
<1>9. ASSUME NEW t \in Senders, noFullQueue(t) \/ skipFilters(t) \/ filterNull(t) \/ processAgain(t)
      PROVE BufferType'
  BY <1>9 DEF noFullQueue, skipFilters, filterNull, processAgain, BufferType
<1>10. ASSUME NEW t \in Senders, takeQueue(t) PROVE BufferType'
  BY <1>10, <1>b, PtrType DEF takeQueue, BufferType
<1>11. ASSUME NEW t \in Senders, filterIngest(t) PROVE BufferType'
  <2> DEFINE in == held \o m_data[1]
  <2>1. m_data[1] \in Block /\ in \in Block
    BY <1>11, <1>c, TailType DEF filterIngest, BufferType
  <2>2. PICK k \in 0..Len(in), mode \in FilterModes :
          LET out  == SubSeq(in, 1, k)
              rest == SubSeq(in, k + 1, Len(in))
          IN /\ held' = IF mode = "hold" THEN rest ELSE <<>>
             /\ filtered' = filtered \cup (IF mode = "drop" THEN Range(rest) ELSE {})
                                     \cup (IF m_isolate THEN Range(out) ELSE {})
             /\ \/ m_data' = <<>>
                \/ m_data' = <<out>>
    BY <1>11, Zenon DEF filterIngest, Null, Ptr
  <2> HIDE DEF in
  <2>3. k \in Nat /\ k + 1 \in Nat \ {0} /\ k <= Len(in) /\ Len(in) \in Nat
    BY <2>1, LenProperties DEF Block
  <2>4. SubSeq(in, 1, k) \in Block /\ SubSeq(in, k + 1, Len(in)) \in Block
    BY <2>1, <2>3, SubSeqType DEF Block
  <2>5. Range(SubSeq(in, 1, k)) \subseteq Reading /\ Range(SubSeq(in, k + 1, Len(in))) \subseteq Reading
    BY <2>4, RangeType
  <2>6. held' \in Block
    BY <1>b, <2>2, <2>4
  <2>7. filtered' \in SUBSET Reading
    <3>1. filtered' \subseteq filtered \cup Range(SubSeq(in, k + 1, Len(in))) \cup Range(SubSeq(in, 1, k))
      BY <2>2, Zenon
    <3> QED
      BY <2>5, <3>1 DEF BufferType
  <2>8. m_data' \in Seq(Block) /\ Len(m_data') <= 1
    <3>1. <<SubSeq(in, 1, k)>> \in Seq(Block) /\ Len(<<SubSeq(in, 1, k)>>) = 1
      BY <2>4, PtrType
    <3>2. m_data' = <<>> \/ m_data' = <<SubSeq(in, 1, k)>>
      BY <2>2, Zenon
    <3>3. CASE m_data' = <<>>
      BY <3>3
    <3>4. CASE m_data' = <<SubSeq(in, 1, k)>>
      BY <3>1, <3>4
    <3> QED
      BY <3>2, <3>3, <3>4
  <2> QED
    BY <1>11, <2>6, <2>7, <2>8 DEF filterIngest, BufferType
<1>12. ASSUME NEW t \in Senders, appendCall(t) PROVE BufferType'
  <2>1. m_data # <<>> => m_data[1] \in Block
    BY TailType DEF BufferType
  <2> QED
    <3>1. CASE m_data # Null /\ m_data[1] # <<>>
      BY <1>12, <2>1, <3>1 DEF appendCall, BufferType
    <3>2. CASE ~(m_data # Null /\ m_data[1] # <<>>)
      <4>1. m_data' = <<>> /\ UNCHANGED <<m_queue, m_fullQueues, m_resendQueues, m_failCnt, fullQueue,
                                          sending, ghostVars>>
        BY <1>12, <3>2, Zenon DEF appendCall, Null
      <4> QED
        BY <4>1 DEF BufferType
    <3> QED
      BY <3>1, <3>2
<1>13. ASSUME NEW t \in Senders, appendOk(t) PROVE BufferType'
  <2>1. stored' \in Block
    BY <1>13, <1>c DEF appendOk, BufferType
  <2> QED
    BY <1>0, <1>13, <1>b, <2>1 DEF appendOk, BufferType
<1>14. ASSUME NEW t \in Senders, NEW o \in StorageOutcomes, appendFail(t, o) PROVE BufferType'
  <2>1. stored' \in Block /\ m_resendQueues' \in Seq(Block)
    BY <1>14, <1>c, <1>d DEF appendFail, BufferType
  <2> QED
    BY <1>0, <1>14, <1>b, <2>1 DEF appendFail, BufferType
<1>15. ASSUME cleanupFilters PROVE /\ m_data' \in Seq(Block) /\ Len(m_data') <= 1
                                   /\ held' \in Block /\ filtered' \in SUBSET Reading
  <2>1. \/ m_data' = m_data
        \/ m_data = <<>> /\ m_data' = <<held>>
        \/ m_data # <<>> /\ m_data' = <<m_data[1] \o held>>
    BY <1>15, Zenon DEF cleanupFilters, useFilteredData, Null, Ptr
  <2>2. m_data' \in Seq(Block) /\ Len(m_data') <= 1
    <3>1. m_data # <<>> => m_data[1] \o held \in Block
      BY <1>c, TailType DEF BufferType
    <3> QED
      <4>1. CASE m_data' = m_data
        BY <4>1 DEF BufferType
      <4>2. CASE m_data = <<>> /\ m_data' = <<held>>
        BY <4>2, PtrType DEF BufferType
      <4>3. CASE m_data # <<>> /\ m_data' = <<m_data[1] \o held>>
        BY <3>1, <4>3, PtrType
      <4> QED
        BY <2>1, <4>1, <4>2, <4>3
  <2>3. filtered' = filtered \/ filtered' = filtered \cup Range(held)
    BY <1>15, Zenon DEF cleanupFilters, useFilteredData
  <2>4. filtered' \in SUBSET Reading
    BY <2>3, RangeType DEF BufferType
  <2> QED
    BY <1>15, <1>b, <2>2, <2>4 DEF cleanupFilters
<1>16. ASSUME configChangeStop PROVE BufferType'
  BY <1>15, <1>16 DEF configChangeStop, BufferType
<1>17. ASSUME dtorCleanup PROVE BufferType'
  <2>1. CASE m_filterPipeline = "none"
    BY <1>17, <2>1 DEF dtorCleanup, BufferType
  <2>2. CASE m_filterPipeline # "none"
    BY <1>15, <1>17, <2>2 DEF dtorCleanup, BufferType
  <2> QED
    BY <2>1, <2>2
<1>18. ASSUME handlePendingReconf \/ isolate PROVE BufferType'
  <2>1. /\ UNCHANGED <<bufferVars, held, ingested, stored, discarded, filtered>>
        /\ reconfigs' = reconfigs + 1
    BY <1>18, Zenon DEF handlePendingReconf, isolate
  <2> QED
    BY <2>1 DEF BufferType
<1>23. ASSUME configChangeNoPipeline \/ configChangeDangling \/ loadFilters
              \/ configChangeResume \/ setThreshold \/ setResourceLimit
       PROVE BufferType'
  <2>1. UNCHANGED <<bufferVars, ghostVars>>
    BY <1>23, Zenon DEF configChangeNoPipeline, configChangeDangling, loadFilters,
       configChangeResume, setThreshold, setResourceLimit
  <2> QED
    BY <2>1 DEF BufferType
<1>19. ASSUME statsThread \/ dtorFlags \/ dtorJoin PROVE BufferType'
  BY <1>19 DEF statsThread, dtorFlags, dtorJoin, BufferType
<1>20. ASSUME dtorFinish PROVE BufferType'
  BY <1>20, <1>b DEF dtorFinish, BufferType
<1>21. ASSUME UNCHANGED vars PROVE BufferType'
  BY <1>21 DEF vars, BufferType
<1>22. ASSUME NEW t \in Senders, processQueue(t) PROVE BufferType'
  BY <1>6, <1>7, <1>8, <1>9, <1>10, <1>11, <1>12, <1>13, <1>14, <1>22, Zenon DEF processQueue
<1> QED
  BY <1>1, <1>2, <1>3, <1>4, <1>5, <1>16, <1>17, <1>18, <1>19, <1>20, <1>21, <1>22, <1>23, Zenon
     DEF Next, Terminated, ingestReturn, ingestLoop, reconfigure, destructor, Senders

\* Every variable of the model of class Ingest keeps its type.
THEOREM TypeCorrect == Spec => []TypeOK
<1>1. Init => TypeOK
  BY InitType
<1>2. TypeOK /\ [Next]_vars => TypeOK'
  BY FlagTypeStep, ControlTypeStep, BufferTypeStep DEF TypeOK
<1> QED
  BY <1>1, <1>2, PTL DEF Spec

=============================================================================
