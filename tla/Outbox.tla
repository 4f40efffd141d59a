-------------------------------- MODULE Outbox --------------------------------
(***************************************************************************)
(* What the event client promises its caller, without queue, batches,      *)
(* retries or goroutines: every accepted event is held until the ingest    *)
(* API has stored it or until the client runs out of room, and it runs out *)
(* of room only while it still holds Capacity other events.  An event that *)
(* was delivered or lost never comes back; one that is held may be stored  *)
(* by the API any number of times, before the client learns of it.         *)
(***************************************************************************)
EXTENDS Naturals, FiniteSets

CONSTANTS Capacity,   \* how many events the client keeps at least
          MaxEvents   \* bound: how many events the application tracks

VARIABLES accepted,   \* events 1..accepted were taken from the application
          held,       \* neither delivered nor lost yet
          delivered,  \* forgotten because the API acknowledged them
          lost,       \* forgotten for want of room
          stored      \* stored by the API

vars == <<accepted, held, delivered, lost, stored>>

Init ==
  /\ accepted = 0
  /\ held = {} /\ delivered = {} /\ lost = {} /\ stored = {}

\* Room was lacking only if Capacity events are still held.
OnlyWhenFull(L) == L # {} => Cardinality(held') >= Capacity

\* A new event comes in; at most one older event makes room for it.
Accept ==
  /\ accepted < MaxEvents
  /\ accepted' = accepted + 1
  /\ \E L \in SUBSET held :
       /\ Cardinality(L) <= 1
       /\ held' = (held \ L) \cup {accepted + 1}
       /\ lost' = lost \cup L
       /\ OnlyWhenFull(L)
  /\ UNCHANGED <<delivered, stored>>

\* The API stores held events, and the client may learn that some or all of
\* what it holds is stored.
Deliver ==
  /\ \E S \in SUBSET held : stored' = stored \cup S
  /\ \E D \in SUBSET (held \cap stored') :
       /\ held' = held \ D
       /\ delivered' = delivered \cup D
  /\ UNCHANGED <<accepted, lost>>

\* Held events are given up because others fill the room there is.
Lose ==
  /\ \E L \in SUBSET held :
       /\ held' = held \ L
       /\ lost' = lost \cup L
       /\ OnlyWhenFull(L)
  /\ UNCHANGED <<accepted, delivered, stored>>

Next == Accept \/ Deliver \/ Lose

Spec == Init /\ [][Next]_vars
===============================================================================
