--------------------------- MODULE StreamPosition ---------------------------
(***************************************************************************)
(* What the north side promises about the position in a stream, whatever   *)
(* threads, buffers and filters it uses: a process moves its position only *)
(* over readings it has dealt with, writes to the table streams only a     *)
(* position it has reached, and starts again from what is written there.   *)
(* NorthService and SendingProcess implement it.                           *)
(***************************************************************************)
EXTENDS Naturals, TLAPS

VARIABLES
    handled,       \* readings sent north or removed on the way
    reached,       \* the position of the process
    pending,       \* positions the process may write
    last_object    \* the position in the table streams

vars == <<handled, reached, pending, last_object>>

Covered(p) == 1..p \subseteq handled

Init == handled = {} /\ reached = 0 /\ pending = {0} /\ last_object = 0

\* Readings are sent, resent or removed, in any order.
Handle ==
    /\ handled \subseteq handled' /\ handled' \subseteq Nat
    /\ UNCHANGED <<reached, pending, last_object>>

\* The process takes note of what it has dealt with.
Move ==
    /\ handled \subseteq handled' /\ handled' \subseteq Nat
    /\ reached' \in Nat /\ 1..reached' \subseteq handled'
    /\ pending' \subseteq pending \cup {reached'}
    /\ UNCHANGED last_object

\* The storage service stores a position, which may have become an old one.
Save ==
    /\ last_object' \in pending /\ pending' \subseteq pending
    /\ UNCHANGED <<handled, reached>>

\* The process has ended or died, and another one begins.
Restart ==
    /\ reached' = last_object /\ pending' = {last_object}
    /\ UNCHANGED <<handled, last_object>>

Next == Handle \/ Move \/ Save \/ Restart

Spec == Init /\ [][Next]_vars

----------------------------------------------------------------------------

\* What may be read back after a crash never passes a reading that was not
\* dealt with: a restart of the north side repeats readings, and omits none.
Resumable == Covered(last_object)

IInv == /\ handled \subseteq Nat /\ {reached, last_object} \cup pending \subseteq Nat
        /\ \A p \in {reached, last_object} \cup pending : Covered(p)

\* Whatever implements this specification can be stopped at any moment and
\* resumed from the table streams without omitting a reading.
THEOREM NothingOmitted == Spec => []Resumable
<1>1. Init => IInv
  BY DEF Init, IInv, Covered
<1>2. IInv /\ [Next]_vars => IInv'
  <2> SUFFICES ASSUME IInv, [Next]_vars PROVE IInv'
    OBVIOUS
  <2>1. CASE Handle
    BY <2>1 DEF Handle, IInv, Covered
  <2>2. CASE Move
    BY <2>2 DEF Move, IInv, Covered
  <2>3. CASE Save
    BY <2>3 DEF Save, IInv, Covered
  <2>4. CASE Restart
    BY <2>4 DEF Restart, IInv, Covered
  <2>5. CASE UNCHANGED vars
    BY <2>5 DEF vars, IInv, Covered
  <2> QED
    BY <2>1, <2>2, <2>3, <2>4, <2>5 DEF Next
<1>3. IInv => Resumable
  BY DEF IInv, Resumable
<1> QED
  BY <1>1, <1>2, <1>3, PTL DEF Spec
=============================================================================
