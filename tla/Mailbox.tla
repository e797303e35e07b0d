------------------------------- MODULE Mailbox -------------------------------
(***************************************************************************)
(* What a SimpleQueue promises to the threads that share it: a first in,   *)
(* first out mailbox from which every element is taken once, and which can *)
(* be closed.  Nothing gets into a closed mailbox or out of it.            *)
(* SimpleQueue implements this specification.                              *)
(***************************************************************************)
EXTENDS Sequences

CONSTANTS Threads, Elements, NoElement

VARIABLES
  box,     \* the elements in the mailbox, first in line first
  hand,    \* the element each thread has taken, until it is done with it
  closed

vars == <<box, hand, closed>>

Init ==
  /\ box = <<>>
  /\ hand = [t \in Threads |-> NoElement]
  /\ closed = FALSE

Put(e) ==
  /\ ~ closed
  /\ box' = Append(box, e)
  /\ UNCHANGED <<hand, closed>>

Take(t) ==
  /\ ~ closed
  /\ box # <<>> /\ hand[t] = NoElement
  /\ hand' = [hand EXCEPT ![t] = Head(box)]
  /\ box' = Tail(box)
  /\ UNCHANGED closed

Finish(t) ==
  /\ hand' = [hand EXCEPT ![t] = NoElement]
  /\ UNCHANGED <<box, closed>>

Close ==
  /\ closed' = TRUE
  /\ UNCHANGED <<box, hand>>

Next ==
  \/ \E e \in Elements : Put(e)
  \/ \E t \in Threads : Take(t) \/ Finish(t)
  \/ Close

Spec == Init /\ [][Next]_vars
=============================================================================
