------------------------------- MODULE Provision -------------------------------
(***************************************************************************)
(* What ProvisionRealm promises whoever administers an environment, without *)
(* requests, answers, keys, receipts or retries.  A provision is three      *)
(* writes in a fixed order, and each of them happens at most once: the      *)
(* first only to the environment as its caller has read it, each later one  *)
(* only while nobody else has written since.  A call is told of writes that *)
(* have happened and of no others, and it succeeds only when it was told of *)
(* all three and the provider holds what the environment now says.          *)
(***************************************************************************)
EXTENDS Naturals

CONSTANTS Calls,      \* calls of ProvisionRealm
          Provisions  \* what they provision, one for each base key

VARIABLES
  revision,  \* how often the environment has been written
  observed,  \* the revision that the provider is known to hold
  read,      \* provisions whose caller has read the environment
  seen,      \* the revision it has read
  done,      \* how many of its writes a provision has made
  works,     \* the provision that a call works for
  told,      \* how many of its writes the call has been told of
  outcome    \* "none", "nil" or "error"

environment == <<revision, observed, done>>
vars == <<environment, read, seen, works, told, outcome>>

Init ==
  /\ revision = 0 /\ observed = 0
  /\ read = {} /\ seen = [b \in Provisions |-> 0]
  /\ done = [b \in Provisions |-> 0]
  /\ works \in [Calls -> Provisions]
  /\ told = [p \in Calls |-> 0]
  /\ outcome = [p \in Calls |-> "none"]

\* The next write of a provision, with nothing written since the last one.
\* Two writes advance the revision; the third only has the provider observed.
Write(b) ==
  /\ b \in read /\ done[b] < 3
  /\ revision = seen[b] + done[b]
  /\ done' = [done EXCEPT ![b] = @ + 1]
  /\ revision' = IF done[b] < 2 THEN revision + 1 ELSE revision
  /\ observed' \in {observed, revision'}

Read(b) ==
  /\ b \notin read
  /\ read' = read \cup {b}
  /\ seen' = [seen EXCEPT ![b] = revision]
  /\ UNCHANGED <<environment, works, told, outcome>>

\* A write that no running call learns of.
Silently(b) ==
  /\ Write(b)
  /\ UNCHANGED <<read, seen, works, told, outcome>>

OthersWrite ==
  /\ revision' = revision + 1
  /\ observed' \in {observed, revision'}
  /\ UNCHANGED <<done, read, seen, works, told, outcome>>

Begin(p, b) ==
  /\ b \in read
  /\ works' = [works EXCEPT ![p] = b]
  /\ told' = [told EXCEPT ![p] = 0]
  /\ \E o \in {"none", "error"} : outcome' = [outcome EXCEPT ![p] = o]
  /\ UNCHANGED <<environment, read, seen>>

\* A running call is told of one more write: a new one, or an earlier one.
Tell(p) ==
  /\ outcome[p] = "none"
  /\ Write(works[p]) \/ UNCHANGED environment
  /\ told[p] < done'[works[p]]
  /\ told' = [told EXCEPT ![p] = @ + 1]
  /\ UNCHANGED <<read, seen, works, outcome>>

Fail(p) ==
  /\ outcome[p] = "none"
  /\ outcome' = [outcome EXCEPT ![p] = "error"]
  /\ UNCHANGED <<environment, read, seen, works, told>>

Succeed(p) ==
  /\ outcome[p] = "none"
  /\ told[p] = 3 /\ observed = revision
  /\ outcome' = [outcome EXCEPT ![p] = "nil"]
  /\ UNCHANGED <<environment, read, seen, works, told>>

Next ==
  \/ \E b \in Provisions : Read(b) \/ Silently(b)
  \/ OthersWrite
  \/ \E p \in Calls : \/ \E b \in Provisions : Begin(p, b)
                      \/ Tell(p) \/ Fail(p) \/ Succeed(p)

Spec == Init /\ [][Next]_vars
===============================================================================
