---------------------------- MODULE FileAccess -----------------------------
(***************************************************************************)
(* What the monitors of the files promise the operations of the            *)
(* file-system, with no lock in sight: a thread works on an existing file  *)
(* either among readers or alone, and a file disappears only while nobody  *)
(* works on it, other than the thread that makes it disappear.             *)
(* FileMonitor implements this specification.                              *)
(***************************************************************************)
CONSTANTS Threads, Files

VARIABLES
  files,    \* the files that exist
  readers,  \* the threads reading each file
  writers   \* the threads writing each file

vars == <<files, readers, writers>>

Init ==
  /\ files = {}
  /\ readers = [f \in Files |-> {}]
  /\ writers = [f \in Files |-> {}]

Create(f) ==
  /\ f \notin files
  /\ files' = files \cup {f}
  /\ UNCHANGED <<readers, writers>>

BeginRead(t, f) ==
  /\ f \in files
  /\ writers[f] = {}
  /\ readers' = [readers EXCEPT ![f] = @ \cup {t}]
  /\ UNCHANGED <<files, writers>>

EndRead(t, f) ==
  /\ t \in readers[f]
  /\ readers' = [readers EXCEPT ![f] = @ \ {t}]
  /\ UNCHANGED <<files, writers>>

BeginWrite(t, f) ==
  /\ f \in files
  /\ readers[f] = {} /\ writers[f] = {}
  /\ writers' = [writers EXCEPT ![f] = {t}]
  /\ UNCHANGED <<files, readers>>

EndWrite(t, f) ==
  /\ writers[f] = {t}
  /\ writers' = [writers EXCEPT ![f] = {}]
  /\ UNCHANGED <<files, readers>>

Destroy(t, f) ==
  /\ f \in files
  /\ readers[f] = {} /\ writers[f] \subseteq {t}
  /\ files' = files \ {f}
  /\ writers' = [writers EXCEPT ![f] = {}]
  /\ UNCHANGED readers

Next ==
  \/ \E f \in Files : Create(f)
  \/ \E t \in Threads, f \in Files :
       \/ BeginRead(t, f) \/ EndRead(t, f)
       \/ BeginWrite(t, f) \/ EndWrite(t, f)
       \/ Destroy(t, f)

Spec == Init /\ [][Next]_vars
=============================================================================
