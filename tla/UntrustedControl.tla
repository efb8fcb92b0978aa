-------------------------- MODULE UntrustedControl --------------------------
(***************************************************************************)
(* What the thread suspension API promises (thread_suspension.h): between  *)
(* the suspension of a thread and its resumption the thread executes no    *)
(* untrusted code.  A thread leaves untrusted code before it counts as     *)
(* stopped, and enters it only when it is not stopped.                     *)
(***************************************************************************)
CONSTANT Threads

VARIABLES
  running,   \* the threads that are executing untrusted code
  stopped    \* the threads that some caller has suspended

Init == running = {} /\ stopped = {}

Enter(t)   == t \notin stopped /\ running' = running \cup {t} /\ UNCHANGED stopped
Leave(t)   == running' = running \ {t} /\ UNCHANGED stopped
Stop(t)    == t \notin running /\ stopped' = stopped \cup {t} /\ UNCHANGED running
Release(t) == stopped' = stopped \ {t} /\ UNCHANGED running

Next == \E t \in Threads : Enter(t) \/ Leave(t) \/ Stop(t) \/ Release(t)

Spec == Init /\ [][Next]_<<running, stopped>>
=============================================================================
