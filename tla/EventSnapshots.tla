----------------------------- MODULE EventSnapshots -----------------------------
(***************************************************************************)
(* What Track promises about the content of an event, without structs,     *)
(* label maps, queue and batches: an event is fixed when it is tracked.    *)
(* From then on it waits as it is, is sent as it is, any number of times,  *)
(* or is forgotten; nothing the application does to the struct it came     *)
(* from reaches it any more, and its identity stands for nothing else      *)
(* while it waits or once it was sent.                                     *)
(***************************************************************************)
CONSTANTS Ids,       \* identities of events
          Declarable, \* environments that an event may declare
          Unset,     \* the one of an event that declares none
          Defaults   \* environments that a client may be configured with

VARIABLES default,  \* the client's environment
          waiting,  \* events that were tracked and may be sent again
          wire      \* events that were sent

vars == <<default, waiting, wire>>

\* The event with identity i that declared environment d.
Event(i, d) ==
  [id |-> i, own |-> "legal", declared |-> d,
   environment |-> IF d = Unset THEN default ELSE d]

Init ==
  /\ default \in Defaults
  /\ waiting = {} /\ wire = {}

\* A new event waits, or one that waits already waits again; others may have
\* to make room.
Track(i, d) ==
  /\ \A v \in waiting \cup wire : v.id = i => v = Event(i, d)
  /\ waiting' \subseteq waiting \cup {Event(i, d)}
  /\ UNCHANGED <<default, wire>>

\* What waits is sent or forgotten, or both.
Flush ==
  /\ wire \subseteq wire' /\ wire' \subseteq wire \cup waiting
  /\ waiting' \subseteq waiting
  /\ UNCHANGED default

Next == Flush \/ \E i \in Ids : \E d \in Declarable : Track(i, d)

Spec == Init /\ [][Next]_vars
===============================================================================
