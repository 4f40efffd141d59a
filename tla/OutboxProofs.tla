----------------------------- MODULE OutboxProofs -----------------------------
(***************************************************************************)
(* The event path implements the promise of module Outbox: every step of a *)
(* caller, of the flusher or of a flush is, for whoever sees only which    *)
(* events are held, delivered, lost and stored, a step of Outbox or none.  *)
(***************************************************************************)
EXTENDS CustdClientProofs, FiniteSetTheorems

Holding == Range(queue) \cup InFlight

\* A sequence without duplicates has as many elements as its length.
LEMMA InjectiveSize ==
  ASSUME NEW S, NEW s \in Seq(S), IsInjective(s)
  PROVE  IsFiniteSet(Range(s)) /\ Cardinality(Range(s)) = Len(s)
PROOF
<1>1. Len(s) \in Nat /\ DOMAIN s = 1..Len(s)
  BY LenProperties
<1>2. s \in Bijection(1..Len(s), Range(s))
  BY <1>1 DEF Bijection, Injection, Surjection, Range, IsInjective
<1>3. IsFiniteSet(1..Len(s)) /\ Cardinality(1..Len(s)) = Len(s)
  BY <1>1, FS_Interval
<1>4. ExistsBijection(1..Len(s), Range(s))
  BY <1>2 DEF ExistsBijection
<1> QED BY ONLY <1>3, <1>4, FS_Bijection

\* A queue that is full after a step holds Capacity different events.
LEMMA FullHolds ==
  ASSUME TypeInv', PlaceInv', Len(queue') = Capacity
  PROVE  Cardinality(Holding') >= Capacity
PROOF
<1>1. queue' \in Seq(Events) /\ IsInjective(queue')
  BY DEF TypeInv, TypeOK, PlaceInv, OnePlace, Events
<1>2. IsFiniteSet(Range(queue')) /\ Cardinality(Range(queue')) = Capacity
  BY <1>1, InjectiveSize
<1>3. Holding' \subseteq 1..(next' - 1) /\ next' - 1 \in Int
  BY ConfigAssumption DEF Holding, PlaceInv, NoEventLost, Tracked, TypeInv, TypeOK
<1>4. IsFiniteSet(Holding')
  <2>1. IsFiniteSet(1..(next' - 1))
    BY <1>3, FS_Interval
  <2> QED BY ONLY <1>3, <2>1, FS_Subset
<1>5. Range(queue') \subseteq Holding'
  BY DEF Holding
<1>6. Cardinality(Range(queue')) <= Cardinality(Holding') /\ Cardinality(Holding') \in Nat
  BY ONLY <1>4, <1>5, FS_Subset, FS_CardinalityType
<1> QED BY <1>2, <1>6, ConfigAssumption

\* Outbox counts as this module does.
LEMMA SameCardinality == \A S : Outbox!Cardinality(S) = Cardinality(S)
PROOF BY DEF Outbox!Cardinality, Cardinality, Outbox!IsFiniteSet, IsFiniteSet

\* The API stores events of the batch that was sent and no others.
LEMMA AttemptSends ==
  ASSUME TypeInv, NEW p \in Procs, NEW v, Attempt(p, v)
  PROVE  \E S \in SUBSET Range(batch[p]) : stored' = stored \cup S
PROOF
<1> DEFINE n == Len(batch[p])
<1>1. batch[p] \in Seq(Events) /\ n \in Nat /\ DOMAIN batch[p] = 1..n
  BY LenProperties DEF TypeInv, TypeOK
<1>2. PICK a \in Answers(n) : \E X \in Stored(a, n) :
         Verdict(a, n) = v /\ stored' = stored \cup {batch[p][i] : i \in X}
  BY DEF Attempt
<1>3. PICK X \in Stored(a, n) : stored' = stored \cup {batch[p][i] : i \in X}
  BY <1>2
<1> HIDE DEF n
<1>4. X \subseteq 1..n
  BY <1>1, <1>3, StoredWithinBatch
<1>5. {batch[p][i] : i \in X} \subseteq Range(batch[p])
  BY <1>1, <1>4 DEF Range
<1> QED BY <1>3, <1>5

-------------------------------------------------------------------------------
(* Each step of the event path as a step of Outbox.                        *)

\* A step that moves no event and stores none.
Still == UNCHANGED <<queue, next, batch, acked, dropped, stored>>

\* Outbox does not see such a step.
LEMMA StillStutters == Still => UNCHANGED Outbox!vars
PROOF
<1> SUFFICES ASSUME Still PROVE UNCHANGED Outbox!vars
  OBVIOUS
<1>1. queue' = queue /\ next' = next /\ batch' = batch
      /\ acked' = acked /\ dropped' = dropped /\ stored' = stored
  BY DEF Still
<1>2. InFlight' = InFlight
  BY <1>1 DEF InFlight
<1> QED BY <1>1, <1>2 DEF Outbox!vars

\* Track accepts the event; whatever the queue evicts leaves it full.
LEMMA TrackAccepts ==
  ASSUME TypeInv, PlaceInv, TypeInv', PlaceInv', NEW p \in Callers, Track(p)
  PROVE  Outbox!Accept
PROOF
<1> DEFINE d == Evicted(queue, Capacity)
<1>1. /\ next \in Events /\ next \in Nat \ {0} /\ next' = next + 1 /\ next <= MaxEvents
      /\ dropped' = dropped \cup d /\ batch' = batch /\ acked' = acked /\ stored' = stored
      /\ queue' = Enqueue(queue, next, Capacity)
  BY ConfigAssumption DEF Track, TypeInv, TypeOK, Events
<1>2. queue \in Seq(Events) /\ Len(queue) <= Capacity /\ Capacity \in Nat \ {0}
  BY ConfigAssumption DEF TypeInv, TypeOK, CapacityRespected
<1>3. next \notin Holding
  BY <1>1, PlaceOf DEF PlaceInv, Tracked, Holding, InFlight
<1>4. /\ Range(queue') \cup d = Range(queue) \cup {next}
      /\ Range(queue') \cap d = {}
      /\ d # {} => Len(queue') = Capacity
  <2>1. IsInjective(queue) /\ next \notin Range(queue)
    BY <1>3 DEF PlaceInv, OnePlace, Holding
  <2> QED BY <1>1, <1>2, <2>1, EnqueueSplits
<1>5. d \subseteq Range(queue) /\ (d = {} \/ \E x : d = {x})
  <2>1. CASE Len(queue) >= Capacity
    <3>1. queue # <<>>
      BY <2>1, <1>2, EmptySeq
    <3>2. Head(queue) = queue[1] /\ 1 \in DOMAIN queue
      BY <3>1, <1>2, LenProperties, EmptySeq
    <3> QED BY <2>1, <3>2 DEF Evicted, Range
  <2>2. CASE ~(Len(queue) >= Capacity)
    BY <2>2 DEF Evicted
  <2> QED BY <2>1, <2>2
<1> HIDE DEF d
<1>6. d \cap InFlight = {} /\ InFlight' = InFlight
  BY <1>1, <1>5 DEF PlaceInv, OnePlace, InFlight
<1>7. Holding' = (Holding \ d) \cup {next} /\ d \in SUBSET Holding
  BY <1>3, <1>4, <1>5, <1>6 DEF Holding
<1>8. Cardinality(d) <= 1
  <2>1. CASE d = {}
    <3>1. Cardinality({}) = 0
      BY FS_EmptySet
    <3> QED BY <2>1, <3>1
  <2>2. CASE \E x : d = {x}
    <3>1. PICK x : d = {x}
      BY <2>2
    <3>2. Cardinality({x}) = 1
      BY FS_Singleton
    <3> QED BY <3>1, <3>2
  <2> QED BY <1>5, <2>1, <2>2
<1>9. d # {} => Cardinality(Holding') >= Capacity
  BY <1>4, FullHolds
<1>10. (next - 1) + 1 = next /\ next' - 1 = next /\ next - 1 < MaxEvents
  BY <1>1, ConfigAssumption
<1>11. /\ Holding' = (Holding \ d) \cup {(next - 1) + 1}
       /\ next' - 1 = (next - 1) + 1
  BY <1>7, <1>10
<1> QED
  BY <1>1, <1>7, <1>8, <1>9, <1>10, <1>11, SameCardinality DEF Outbox!Accept, Outbox!OnlyWhenFull, Holding

\* The end of an attempt stores what the API took of the batch, and a nil
\* error lets go of all of it.
LEMMA AttemptDelivers ==
  ASSUME TypeInv, PlaceInv, NEW p \in Procs, NEW v, Attempt(p, v),
         next' = next, dropped' = dropped,
         NEW D \in SUBSET Range(batch[p]), D \subseteq stored',
         Holding' = Holding \ D, acked' = acked \cup D
  PROVE  Outbox!Deliver
PROOF
<1>1. PICK S \in SUBSET Range(batch[p]) : stored' = stored \cup S
  BY AttemptSends
<1>2. Range(batch[p]) \subseteq Holding
  BY DEF Holding, InFlight
<1>3. S \in SUBSET Holding /\ D \in SUBSET (Holding \cap stored')
  BY <1>1, <1>2
<1> QED BY <1>1, <1>3 DEF Outbox!Deliver, Holding

\* A batch that was taken over is stored by then.
LEMMA DeliveredDelivers ==
  ASSUME TypeInv, PlaceInv, NEW p \in Procs, Delivered(p)
  PROVE  Outbox!Deliver
PROOF
<1>1. /\ Attempt(p, "nil") /\ acked' = acked \cup Range(batch[p])
      /\ queue' = queue /\ next' = next /\ dropped' = dropped
      /\ batch' = [batch EXCEPT ![p] = <<>>]
  BY DEF Delivered, Return
<1>2. Range(batch[p]) \subseteq stored'
  BY <1>1, AttemptStores
<1>3. batch'[p] = <<>> /\ \A r \in Procs \ {p} : batch'[r] = batch[r]
  BY <1>1 DEF TypeInv, TypeOK
<1>4. \A r \in Procs \ {p} : Range(batch[r]) \cap Range(batch[p]) = {}
  BY DEF PlaceInv, OnePlace
<1>5. InFlight' = InFlight \ Range(batch[p])
  BY <1>3, <1>4, EmptyBatch DEF InFlight
<1>6. Range(queue) \cap Range(batch[p]) = {}
  BY DEF PlaceInv, OnePlace
<1>7. Holding' = Holding \ Range(batch[p])
  BY <1>1, <1>5, <1>6 DEF Holding
<1> QED BY <1>1, <1>2, <1>7, AttemptDelivers

\* A failed attempt may have stored some of its batch, and reports nothing.
LEMMA RetryDelivers ==
  ASSUME TypeInv, PlaceInv, NEW p \in Procs, Retry(p) \/ Fail(p)
  PROVE  Outbox!Deliver
PROOF
<1>1. PICK v \in {"retry", "fatal"} : Attempt(p, v)
  BY DEF Retry, Fail
<1>2. /\ queue' = queue /\ next' = next /\ dropped' = dropped
      /\ batch' = batch /\ acked' = acked
  BY DEF Retry, Fail
<1>3. InFlight' = InFlight
  BY <1>2 DEF InFlight
<1>4. Holding' = Holding \ {}
  BY <1>2, <1>3 DEF Holding
<1>5. acked' = acked \cup {}
  BY <1>2
<1> DEFINE D == {}
<1>6. D \in SUBSET Range(batch[p]) /\ D \subseteq stored'
  OBVIOUS
<1> QED BY <1>1, <1>2, <1>4, <1>5, <1>6, AttemptDelivers

\* A dequeue moves events from the queue to a flush: they stay held.
LEMMA TakeStutters ==
  ASSUME TypeInv, PlaceInv, NEW p \in Procs, TakeBatch(p)
  PROVE  UNCHANGED Outbox!vars
PROOF
<1>1. /\ batch[p] = <<>> /\ batch \in [Procs -> Seq(Events)]
      /\ batch' = [batch EXCEPT ![p] = Taken(queue, BatchSize)]
      /\ queue' = Dequeue(queue, BatchSize)
      /\ next' = next /\ acked' = acked /\ dropped' = dropped /\ stored' = stored
  BY DEF TakeBatch, TypeInv, TypeOK, BatchOnlyInFlight, At
<1>2. batch'[p] = Taken(queue, BatchSize) /\ \A r \in Procs \ {p} : batch'[r] = batch[r]
  BY <1>1
<1>3. Parts(queue, Taken(queue, BatchSize), Dequeue(queue, BatchSize))
  BY DequeueSplits, ConfigAssumption DEF TypeInv, TypeOK
<1>4. Range(batch'[p]) \cup Range(queue') = Range(queue)
  BY <1>1, <1>2, <1>3 DEF Parts
<1>5. InFlight' = InFlight \cup Range(batch'[p])
  BY <1>1, <1>2, EmptyBatch DEF InFlight
<1>6. Holding' = Holding
  BY <1>4, <1>5 DEF Holding
<1> QED BY <1>1, <1>6 DEF Outbox!vars, Holding

\* A requeue loses what the queue, full then, has no room for.
LEMMA PutBackLoses ==
  ASSUME TypeInv, PlaceInv, TypeInv', PlaceInv', NEW p \in Procs, PutBack(p)
  PROVE  Outbox!Lose
PROOF
<1> DEFINE d == Truncated(queue, batch[p], Capacity)
<1>1. /\ queue' = Requeue(queue, batch[p], Capacity) /\ next' = next
      /\ acked' = acked /\ stored' = stored /\ dropped' = dropped \cup d
      /\ batch' = [batch EXCEPT ![p] = <<>>]
  BY DEF PutBack, Return
<1>2. batch'[p] = <<>> /\ \A r \in Procs \ {p} : batch'[r] = batch[r]
  BY <1>1 DEF TypeInv, TypeOK
<1>3. /\ Range(queue') \cap d = {}
      /\ Range(queue') \cup d = Range(batch[p]) \cup Range(queue)
      /\ d # {} => Len(queue') = Capacity
  <2>1. queue \in Seq(Events) /\ batch[p] \in Seq(Events) /\ Capacity \in Nat
    BY ConfigAssumption DEF TypeInv, TypeOK
  <2>2. IsInjective(queue) /\ IsInjective(batch[p]) /\ Range(batch[p]) \cap Range(queue) = {}
    BY DEF PlaceInv, OnePlace
  <2> QED BY <1>1, <2>1, <2>2, RequeueSplits
<1> HIDE DEF d
<1>4. InFlight' = UNION {Range(batch[r]) : r \in Procs \ {p}}
  BY <1>2, EmptyBatch DEF InFlight
<1>5. InFlight = InFlight' \cup Range(batch[p])
  BY <1>4 DEF InFlight
<1>6. InFlight' \cap (Range(batch[p]) \cup Range(queue)) = {}
  BY <1>4 DEF PlaceInv, OnePlace
<1>7. Holding' = Holding \ d /\ d \in SUBSET Holding
  BY <1>3, <1>5, <1>6 DEF Holding
<1>8. d # {} => Cardinality(Holding') >= Capacity
  BY <1>3, FullHolds
<1> QED BY <1>1, <1>7, <1>8, SameCardinality DEF Outbox!Lose, Outbox!OnlyWhenFull, Holding

-------------------------------------------------------------------------------
(* The theorem.                                                            *)

\* An empty client is an empty outbox.
LEMMA InitMaps == Init => Outbox!Init
PROOF
<1> SUFFICES ASSUME Init PROVE Outbox!Init
  OBVIOUS
<1>1. queue = <<>> /\ \A p \in Procs : batch[p] = <<>>
  BY DEF Init
<1>2. Range(queue) \cup InFlight = {}
  BY <1>1, EmptyBatch DEF InFlight
<1> QED BY <1>2 DEF Init, Outbox!Init

\* Every step of the client is a step of the outbox or leaves it alone.
LEMMA StepMaps ==
  ASSUME TypeInv, PlaceInv, TypeInv', PlaceInv', [Next]_vars
  PROVE  [Outbox!Next]_(Outbox!vars)
PROOF
<1>1. ASSUME NEW p \in Callers, Track(p) PROVE Outbox!Next
  BY <1>1, TrackAccepts DEF Outbox!Next
<1>2. ASSUME NEW p \in Callers,
             Flush(p) \/ CloseFirst(p) \/ CloseFlush(p) \/ CloseAgain(p)
               \/ CloseAgainReturns(p)
      PROVE  Still
  BY <1>2 DEF Flush, CloseFirst, CloseFlush, CloseAgain, CloseAgainReturns, ghosts, Still
<1>3. ASSUME FlusherStep PROVE Still
  BY <1>3 DEF FlusherStep, Tick, FlusherWakes, FlusherExits, ghosts, Still
<1>4. ASSUME NEW p \in Procs, NothingToFlush(p) PROVE Still
  <2>1. batch[p] = <<>> /\ batch \in [Procs -> Seq(Events)]
    BY <1>4 DEF NothingToFlush, At, TypeInv, TypeOK, BatchOnlyInFlight
  <2>2. batch' = [batch EXCEPT ![p] = <<>>]
    BY <1>4 DEF NothingToFlush, Return
  <2>3. batch' = batch
    BY <2>1, <2>2
  <2> QED BY <1>4, <2>3 DEF NothingToFlush, ghosts, Still
<1>5. ASSUME NEW p \in Procs, TakeBatch(p) PROVE UNCHANGED Outbox!vars
  BY <1>5, TakeStutters
<1>6. ASSUME NEW p \in Procs, Delivered(p) \/ Retry(p) \/ Fail(p) PROVE Outbox!Next
  BY <1>6, DeliveredDelivers, RetryDelivers DEF Outbox!Next
<1>7. ASSUME NEW p \in Procs, BackoffEnds(p) \/ Abandon(p) PROVE Still
  BY <1>7 DEF BackoffEnds, Abandon, ghosts, Still
<1>8. ASSUME NEW p \in Procs, PutBack(p) PROVE Outbox!Next
  BY <1>8, PutBackLoses DEF Outbox!Next
<1>9. CASE UNCHANGED vars
  <2>1. Still
    BY <1>9 DEF vars, ghosts, Still
  <2> QED BY <2>1, StillStutters
<1>10. Outbox!Next \/ Still \/ UNCHANGED Outbox!vars
  BY <1>1, <1>2, <1>3, <1>4, <1>5, <1>6, <1>7, <1>8, <1>9
     DEF Next, CallerStep, FlushStep
<1> QED BY <1>10, StillStutters

\* The event path keeps the promise of Outbox: what it accepts it holds until
\* the API has stored it, and it gives up a held event only while it still
\* holds Capacity others.
THEOREM Implementation == Spec => ImplementsOutbox
PROOF
<1>1. Init => Outbox!Init
  BY InitMaps
<1>2. TypeInv /\ PlaceInv /\ TypeInv' /\ PlaceInv' /\ [Next]_vars
        => [Outbox!Next]_(Outbox!vars)
  BY StepMaps
<1> QED
  BY <1>1, <1>2, InitTypeInv, NextTypeInv, InitPlaceInv, NextPlaceInv, PTL
     DEF Spec, ImplementsOutbox, Outbox!Spec
===============================================================================
