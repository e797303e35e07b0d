----------------------------- MODULE LockQueues -----------------------------
(***************************************************************************)
(* What the clients may expect of the locks of the files: each has at most *)
(* one holder and a line of clients waiting, and it passes from the holder *)
(* to the first in line.  Several locks may change at once, when a client  *)
(* goes away or several files do.  FileSystem and Server implement this.   *)
(***************************************************************************)
EXTENDS SequencesExt

CONSTANTS Owners, Files, NoOwner

VARIABLES
  holder,  \* who has the lock of each file, or NoOwner
  line     \* who waits for it, first in line first

vars == <<holder, line>>

Init ==
  /\ holder = [f \in Files |-> NoOwner]
  /\ line = [f \in Files |-> <<>>]

Becomes(f, h, l) == holder'[f] = h /\ line'[f] = l

Acquire(o, f) ==
  /\ holder[f] = NoOwner /\ line[f] = <<>>
  /\ Becomes(f, o, <<>>)

GetInLine(o, f) ==
  /\ holder[f] \notin {NoOwner, o}
  /\ ~ Contains(line[f], o)
  /\ Becomes(f, holder[f], Append(line[f], o))

PassOn(f) ==
  /\ holder[f] # NoOwner /\ line[f] # <<>>
  /\ Becomes(f, Head(line[f]), Tail(line[f]))

SetFree(f) ==
  /\ holder[f] # NoOwner /\ line[f] = <<>>
  /\ Becomes(f, NoOwner, <<>>)

GiveUp(o, f) ==
  /\ Contains(line[f], o)
  /\ Becomes(f, holder[f], RemoveFirst(line[f], o))

\* The file disappears, and its lock with it.
Disappear(f) == Becomes(f, NoOwner, <<>>)

Change(f) ==
  \/ \E o \in Owners : Acquire(o, f) \/ GetInLine(o, f) \/ GiveUp(o, f)
  \/ PassOn(f) \/ SetFree(f) \/ Disappear(f)

Next == \A f \in Files : Change(f) \/ Becomes(f, holder[f], line[f])

Spec == Init /\ [][Next]_vars
=============================================================================
