--------------------------- MODULE MCSouthService ---------------------------
(* A small instance of SouthService: two reading rates, one of which takes *)
(* several reads of the timer for a poll.                                  *)
EXTENDS SouthService

\* One reading a second; five a minute: two reads of a timer of six seconds
Fast == 1000000
Slow == 12000000
MCIntervals == {Fast, Slow}
MCChanges == [to : {"plugin", "Fixed Times", "On Demand"}, rate : {Fast}]
             \cup [to : {"Interval"}, rate : {Slow}]

\* The types of the variables; the plugin's mutex is held exactly while main or
\* the reconfiguration thread is in a call of the plugin.
TypeOK ==
    /\ m_pollType \in PollTypes /\ m_timerfd \in Nat /\ fd \in Nat
    /\ m_rate \in Intervals \cup {NoRate} /\ m_repeatCnt \in Nat \ {0} /\ rep \in Nat
    /\ m_steps \in 0..1
    /\ mtx2 = "main" <=> main = "polling"
    /\ (mtx2 = "reconf" \/ main = "crash") <=> (reconf \in {"reconfigure", "crash"})
    /\ lost \subseteq {"change", "wake", "stop", "exit"}
=============================================================================
